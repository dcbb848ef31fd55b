---------------------------- MODULE TableProofs ----------------------------
(***************************************************************************)
(* Proofs about merges of tables, for any tables: ParallelMerge, with any  *)
(* size of a chunk, and Provenance.                                        *)
(***************************************************************************)
EXTENDS ParallelMerge, Provenance, FiniteSetTheorems, TLAPS

(* What Folding says of numbers in order, whatever is folded *)
Listed == INSTANCE Folding WITH Op <- Drop, Ch <- Max

-----------------------------------------------------------------------------
(* Lists *)

IsListing(q, S) ==
    /\ q \in [1 .. Cardinality(S) -> S]
    /\ \A i, j \in 1 .. Cardinality(S) : i < j => q[i] < q[j]
    /\ \A x \in S : \E n \in 1 .. Cardinality(S) : q[n] = x

LEMMA InOrderSorted ==
    ASSUME NEW S, IsFiniteSet(S), S \subseteq Int
    PROVE  IsListing(InOrder(S), S)
<1>1. \A T : Listed!Cardinality(T) = Cardinality(T)
  BY DEF Listed!Cardinality, Cardinality
<1>2. Listed!IsFiniteSet(S)
  BY DEF Listed!IsFiniteSet, IsFiniteSet
<1>3. Listed!IsSorted(Listed!InOrder(S), S)
  BY <1>2, Listed!InOrderIsSorted
<1>4. Listed!InOrder(S) = InOrder(S)
  BY DEF InOrder, Listed!InOrder, Listed!Cardinality, Cardinality
<1> QED BY <1>1, <1>3, <1>4 DEF Listed!IsSorted, IsListing

(* A list, as far as anything says what it holds *)
IsList(s) == Len(s) \in Nat /\ DOMAIN s = 1 .. Len(s)

LEMMA ListOf ==
    ASSUME NEW n \in Nat, NEW s, s = [i \in 1 .. n |-> s[i]], NEW S, \A i \in 1 .. n : s[i] \in S
    PROVE  s \in Seq(S) /\ Len(s) = n /\ DOMAIN s = 1 .. n
<1>1. s \in [1 .. n -> S]
  OBVIOUS
<1> QED BY <1>1

LEMMA ToSetOfTwo ==
    ASSUME NEW S, NEW s \in Seq(S), NEW t \in Seq(S)
    PROVE  ToSet(s \o t) = ToSet(s) \cup ToSet(t) /\ s \o t \in Seq(S)
<1> DEFINE u == s \o t
<1>1. /\ u \in Seq(S) /\ Len(u) = Len(s) + Len(t)
      /\ Len(s) \in Nat /\ Len(t) \in Nat
      /\ \A i \in 1 .. Len(s) : u[i] = s[i]
      /\ \A i \in 1 .. Len(t) : u[Len(s) + i] = t[i]
  OBVIOUS
<1>2. DOMAIN s = 1 .. Len(s) /\ DOMAIN t = 1 .. Len(t)
  OBVIOUS
<1>3. DOMAIN u = 1 .. Len(u)
  BY <1>1
<1> HIDE DEF u
<1>4. ASSUME NEW x \in ToSet(s) \cup ToSet(t)
      PROVE  x \in ToSet(u)
  <2>1. CASE x \in ToSet(s)
    <3>1. PICK i \in 1 .. Len(s) : x = s[i]
      BY <1>2, <2>1 DEF ToSet
    <3>2. i \in 1 .. Len(u) /\ u[i] = x
      BY <1>1, <3>1
    <3> QED BY <1>3, <3>2 DEF ToSet
  <2>2. CASE x \in ToSet(t)
    <3>1. PICK i \in 1 .. Len(t) : x = t[i]
      BY <1>2, <2>2 DEF ToSet
    <3>2. Len(s) + i \in 1 .. Len(u) /\ u[Len(s) + i] = x
      BY <1>1, <3>1
    <3> QED BY <1>3, <3>2 DEF ToSet
  <2> QED BY <1>4, <2>1, <2>2
<1>5. ASSUME NEW x \in ToSet(u)
      PROVE  x \in ToSet(s) \cup ToSet(t)
  <2>1. PICK i \in 1 .. Len(u) : x = u[i]
    BY <1>3 DEF ToSet
  <2>2. CASE i <= Len(s)
    <3>1. i \in 1 .. Len(s) /\ x = s[i]
      BY <1>1, <2>1, <2>2
    <3> QED BY <1>2, <3>1 DEF ToSet
  <2>3. CASE ~ (i <= Len(s))
    <3> DEFINE j == i - Len(s)
    <3>1. j \in 1 .. Len(t) /\ Len(s) + j = i
      BY <1>1, <2>1, <2>3
    <3>2. x = t[j]
      BY <1>1, <2>1, <3>1
    <3> QED BY <1>2, <3>1, <3>2 DEF ToSet
  <2> QED BY <2>2, <2>3
<1> QED BY <1>1, <1>4, <1>5 DEF u

LEMMA ToSetOfThree ==
    ASSUME NEW S, NEW s \in Seq(S), NEW t \in Seq(S), NEW u \in Seq(S)
    PROVE  s \o t \o u \in Seq(S) /\ ToSet(s \o t \o u) = ToSet(s) \cup ToSet(t) \cup ToSet(u)
<1> DEFINE v == s \o t
<1>1. ToSet(v) = ToSet(s) \cup ToSet(t) /\ v \in Seq(S)
  BY ToSetOfTwo, Zenon
<1> HIDE DEF v
<1>2. ToSet(v \o u) = ToSet(v) \cup ToSet(u) /\ v \o u \in Seq(S)
  BY <1>1, ToSetOfTwo, Zenon
<1>3. ToSet(v \o u) = ToSet(s) \cup ToSet(t) \cup ToSet(u)
  BY <1>1, <1>2, Zenon
<1> QED BY <1>2, <1>3, Zenon DEF v

(* u is s and then t. *)
Appends(u, s, m, t, n) ==
    /\ IsList(u) /\ DOMAIN u = 1 .. (m + n)
    /\ \A i \in 1 .. m : u[i] = s[i]
    /\ \A i \in 1 .. n : u[m + i] = t[i]
    /\ \A i \in 1 .. (m + n) : i \in 1 .. m \/ \E j \in 1 .. n : i = m + j

LEMMA AppendAt ==
    ASSUME NEW S, NEW s \in Seq(S), NEW t \in Seq(S)
    PROVE  Appends(s \o t, s, Len(s), t, Len(t))
<1>1. /\ s \o t \in Seq(S) /\ Len(s \o t) = Len(s) + Len(t)
      /\ \A i \in 1 .. Len(s) : (s \o t)[i] = s[i]
      /\ \A i \in 1 .. Len(t) : (s \o t)[Len(s) + i] = t[i]
      /\ Len(s) \in Nat /\ Len(t) \in Nat
  OBVIOUS
<1> DEFINE u == s \o t
<1>2. DOMAIN u = 1 .. Len(u) /\ Len(u) \in Nat
  <2> HIDE DEF u
  <2> QED BY <1>1 DEF u
<1>3. ASSUME NEW n \in 1 .. (Len(s) + Len(t)), n \notin 1 .. Len(s)
      PROVE  \E i \in 1 .. Len(t) : n = Len(s) + i
  <2>1. n - Len(s) \in 1 .. Len(t) /\ n = Len(s) + (n - Len(s))
    BY <1>1, <1>3
  <2> QED BY <2>1
<1> QED BY <1>1, <1>2, <1>3 DEF IsList, Appends

LEMMA PlacesFinite ==
    ASSUME NEW n \in Nat, NEW P, P \subseteq 1 .. n
    PROVE  IsFiniteSet(P) /\ P \subseteq Int /\ Cardinality(P) \in Nat
<1>1. IsFiniteSet(1 .. n)
  BY FS_Interval
<1>2. IsFiniteSet(P)
  BY <1>1, FS_Subset
<1>3. P \subseteq Int
  OBVIOUS
<1> QED BY <1>2, <1>3, FS_CardinalityType

(* u lists the items of s at P, which q has in order. *)
Lists(u, q, s, P) ==
    /\ Len(u) = Cardinality(P) /\ DOMAIN u = 1 .. Cardinality(P)
    /\ \A m \in 1 .. Cardinality(P) : q[m] \in P /\ u[m] = s[q[m]]
    /\ \A i \in P : \E m \in 1 .. Cardinality(P) : q[m] = i

AllIn(s, P, S) == \A i \in P : s[i] \in S

LEMMA AtPlaces ==
    ASSUME NEW s, NEW n \in Nat, NEW P, P \subseteq 1 .. n, NEW S, AllIn(s, P, S)
    PROVE  At(s, P) \in Seq(S) /\ Lists(At(s, P), InOrder(P), s, P)
<1> DEFINE q == InOrder(P)
           N == Cardinality(P)
           u == At(s, P)
<1>1. N \in Nat /\ IsListing(q, P)
  BY PlacesFinite, InOrderSorted
<1>2. u = [m \in 1 .. N |-> s[q[m]]]
  BY DEF At
<1>3. (\A m \in 1 .. N : q[m] \in P) /\ (\A i \in P : \E m \in 1 .. N : q[m] = i)
  <2> HIDE DEF q
  <2> QED BY <1>1 DEF IsListing
<1> HIDE DEF u, q, N
<1>4. \A m \in 1 .. N : u[m] = s[q[m]] /\ u[m] \in S
  BY <1>2, <1>3 DEF AllIn
<1>5. u = [m \in 1 .. N |-> u[m]]
  BY <1>2
<1>6. u \in Seq(S) /\ Len(u) = N /\ DOMAIN u = 1 .. N
  BY <1>1, <1>4, <1>5, ListOf
<1>7. Lists(u, q, s, P)
  BY <1>3, <1>4, <1>6 DEF Lists, N
<1> QED BY <1>6, <1>7 DEF u, q

LEMMA AtHolds ==
    ASSUME NEW s, NEW n \in Nat, NEW P, P \subseteq 1 .. n
    PROVE  ToSet(At(s, P)) = {s[i] : i \in P}
<1> DEFINE S == {s[i] : i \in P}
           u == At(s, P)
           q == InOrder(P)
<1>1. AllIn(s, P, S)
  BY DEF AllIn
<1> HIDE DEF S
<1>2. Lists(u, q, s, P)
  BY <1>1, AtPlaces
<1> HIDE DEF u, q
<1>3. \A x \in ToSet(u) : x \in S
  <2> TAKE x \in ToSet(u)
  <2>1. PICK m \in 1 .. Cardinality(P) : x = u[m]
    BY <1>2 DEF ToSet, Lists
  <2>2. q[m] \in P /\ x = s[q[m]]
    BY <1>2, <2>1 DEF Lists
  <2> QED BY <2>2 DEF S
<1>4. \A i \in P : s[i] \in ToSet(u)
  <2> TAKE i \in P
  <2>1. PICK m \in 1 .. Cardinality(P) : q[m] = i
    BY <1>2 DEF Lists
  <2>2. m \in DOMAIN u /\ u[m] = s[i]
    BY <1>2, <2>1 DEF Lists
  <2> QED BY <2>2 DEF ToSet
<1>5. ToSet(u) = S
  BY <1>3, <1>4 DEF S
<1> QED BY <1>5 DEF S, u

(* No row before it has the same texts. *)
IsFirst(s, i) == \A j \in 1 .. i - 1 : Printed(s[j]) # Printed(s[i])

Firsts(s) == {s[i] : i \in {j \in DOMAIN s : IsFirst(s, j)}}

(* Dedup keeps the first of each text. *)
LEMMA DedupHolds ==
    ASSUME NEW S, NEW s \in Seq(S)
    PROVE  LET d == Dedup(s) IN
             /\ d \in Seq(S) /\ ToSet(d) = Firsts(s)
             /\ \A m, n \in DOMAIN d : d[m] = d[n] => m = n
<1> DEFINE P == {i \in DOMAIN s : IsFirst(s, i)}
           d == Dedup(s)
           q == InOrder(P)
<1>1. Len(s) \in Nat /\ P \subseteq 1 .. Len(s) /\ DOMAIN s = 1 .. Len(s)
  OBVIOUS
<1>2. d = At(s, P)
  BY DEF Dedup, IsFirst
<1>3. AllIn(s, P, S)
  BY DEF AllIn
<1>4. \A i, j \in P : s[i] = s[j] => i = j
  <2> SUFFICES ASSUME NEW i \in P, NEW j \in P, s[i] = s[j], i < j PROVE FALSE
    BY <1>1
  <2>1. i \in 1 .. j - 1
    BY <1>1
  <2> QED BY <2>1 DEF IsFirst
<1>5. Firsts(s) = {s[i] : i \in P}
  BY DEF Firsts
<1> HIDE DEF P, d
<1>6. d \in Seq(S) /\ Lists(d, q, s, P)
  BY <1>1, <1>2, <1>3, AtPlaces
<1>7. IsListing(q, P) /\ Cardinality(P) \in Nat
  BY <1>1, PlacesFinite, InOrderSorted
<1> HIDE DEF q
<1>8. ASSUME NEW m \in DOMAIN d, NEW n \in DOMAIN d, d[m] = d[n]
      PROVE  m = n
  <2>1. m \in 1 .. Cardinality(P) /\ n \in 1 .. Cardinality(P)
    BY <1>6 DEF Lists
  <2>2. q[m] \in P /\ q[n] \in P /\ d[m] = s[q[m]] /\ d[n] = s[q[n]]
    BY <1>6, <2>1 DEF Lists
  <2>3. q[m] = q[n]
    BY <1>4, <1>8, <2>2
  <2>4. \A i, j \in 1 .. Cardinality(P) : i < j => q[i] < q[j]
    BY <1>7 DEF IsListing
  <2>5. q[m] \in Int /\ q[n] \in Int
    <3>1. \A x \in P : x \in Int
      BY <1>1
    <3> QED BY <2>2, <3>1
  <2> QED BY <1>7, <2>1, <2>3, <2>4, <2>5
<1>9. ToSet(d) = Firsts(s)
  BY <1>1, <1>2, <1>5, AtHolds
<1> QED BY <1>6, <1>8, <1>9 DEF d

(* The rows that are first among those at some places                       *)
LEMMA AtFirsts ==
    ASSUME NEW s, NEW n \in Nat, NEW P, P \subseteq 1 .. n
    PROVE  Firsts(At(s, P))
             = {s[i] : i \in {j \in P : \A l \in P : l < j => Printed(s[l]) # Printed(s[j])}}
<1> DEFINE N == Cardinality(P)
           q == InOrder(P)
           u == At(s, P)
           F == {j \in P : \A l \in P : l < j => Printed(s[l]) # Printed(s[j])}
<1>1. N \in Nat /\ IsListing(q, P)
  BY PlacesFinite, InOrderSorted
<1>2. AllIn(s, P, {s[i] : i \in P})
  BY DEF AllIn
<1>3. Lists(u, q, s, P)
  BY <1>2, AtPlaces
<1> HIDE DEF q, u, N
<1>4. /\ DOMAIN u = 1 .. N /\ \A m \in 1 .. N : q[m] \in P /\ u[m] = s[q[m]]
      /\ \A i \in P : \E m \in 1 .. N : q[m] = i
      /\ \A i, j \in 1 .. N : i < j => q[i] < q[j]
  BY <1>1, <1>3 DEF Lists, IsListing, N
<1>5. \A m \in 1 .. N : q[m] \in Nat
  <2>1. \A x \in P : x \in Nat
    OBVIOUS
  <2> QED BY <1>4, <2>1
<1>6. \A l, m \in 1 .. N : q[l] < q[m] => l < m
  <2> SUFFICES ASSUME NEW l \in 1 .. N, NEW m \in 1 .. N, q[l] < q[m], m <= l PROVE FALSE
    BY <1>1
  <2>1. m < l => q[m] < q[l]
    BY <1>4
  <2>2. m = l => q[m] = q[l]
    OBVIOUS
  <2> QED BY <1>1, <1>5, <2>1, <2>2
<1>7. ASSUME NEW m \in 1 .. N
      PROVE  IsFirst(u, m) <=> q[m] \in F
  <2>1. ASSUME IsFirst(u, m), NEW l \in P, l < q[m]
        PROVE  Printed(s[l]) # Printed(s[q[m]])
    <3>1. PICK k \in 1 .. N : q[k] = l
      BY <1>4
    <3>2. k \in 1 .. m - 1
      BY <1>1, <1>6, <2>1, <3>1
    <3> QED BY <1>4, <2>1, <3>1, <3>2 DEF IsFirst
  <2>2. ASSUME q[m] \in F, NEW k \in 1 .. m - 1
        PROVE  Printed(u[k]) # Printed(u[m])
    <3>1. k \in 1 .. N /\ q[k] < q[m]
      BY <1>1, <1>4
    <3> QED BY <1>4, <2>2, <3>1
  <2> QED BY <1>4, <2>1, <2>2 DEF IsFirst
<1> HIDE DEF F
<1>8. F \subseteq P
  BY DEF F
<1>9. Firsts(u) = {s[i] : i \in F}
  <2>1. \A x \in Firsts(u) : \E i \in F : x = s[i]
    BY <1>4, <1>7 DEF Firsts
  <2>2. \A i \in F : \E m \in 1 .. N : q[m] = i /\ IsFirst(u, m)
    BY <1>4, <1>7, <1>8
  <2>3. \A i \in F : s[i] \in Firsts(u)
    BY <1>4, <2>2 DEF Firsts
  <2> QED BY <2>1, <2>3
<1> QED BY <1>9 DEF u, F

(* Rows of t that say what none of s says *)
NewIn(s, t) == {r \in Firsts(t) : \A x \in ToSet(s) : Printed(x) # Printed(r)}

LEMMA FirstsOfTwo ==
    ASSUME NEW S, NEW s \in Seq(S), NEW t \in Seq(S), NEW u, u = s \o t
    PROVE  Firsts(u) = Firsts(s) \cup NewIn(s, t)
<1> DEFINE m == Len(s)
           n == Len(t)
<1>1. Appends(u, s, m, t, n)
  BY AppendAt
<1>2. m \in Nat /\ n \in Nat /\ DOMAIN s = 1 .. m /\ DOMAIN t = 1 .. n
  OBVIOUS
<1> HIDE DEF m, n
<1>3. /\ DOMAIN u = 1 .. (m + n)
      /\ \A i \in 1 .. m : u[i] = s[i]
      /\ \A i \in 1 .. n : u[m + i] = t[i]
      /\ \A i \in 1 .. (m + n) : i \in 1 .. m \/ \E j \in 1 .. n : i = m + j
  BY <1>1 DEF Appends
<1>4. ASSUME NEW i \in 1 .. m
      PROVE  i \in DOMAIN u /\ (IsFirst(u, i) <=> IsFirst(s, i))
  <2>1. \A j \in 1 .. i - 1 : j \in 1 .. m
    BY <1>2
  <2>2. i \in DOMAIN u
    BY <1>2, <1>3
  <2> QED BY <1>3, <2>1, <2>2 DEF IsFirst
<1>5. ASSUME NEW k \in 1 .. n
      PROVE  /\ m + k \in DOMAIN u
             /\ IsFirst(u, m + k) <=> /\ IsFirst(t, k)
                                      /\ \A x \in ToSet(s) : Printed(x) # Printed(t[k])
  <2>1. m + k \in DOMAIN u
    BY <1>2, <1>3
  <2>2. ASSUME IsFirst(u, m + k)
        PROVE  IsFirst(t, k) /\ \A x \in ToSet(s) : Printed(x) # Printed(t[k])
    <3>1. \A j \in 1 .. k - 1 : m + j \in 1 .. (m + k) - 1 /\ j \in 1 .. n
      BY <1>2
    <3>2. \A j \in 1 .. m : j \in 1 .. (m + k) - 1
      BY <1>2
    <3>3. IsFirst(t, k)
      BY <1>3, <2>2, <3>1 DEF IsFirst
    <3>4. \A j \in 1 .. m : Printed(s[j]) # Printed(t[k])
      BY <1>3, <2>2, <3>2 DEF IsFirst
    <3> QED BY <1>2, <3>3, <3>4 DEF ToSet
  <2>3. ASSUME IsFirst(t, k), \A x \in ToSet(s) : Printed(x) # Printed(t[k])
        PROVE  IsFirst(u, m + k)
    <3> SUFFICES ASSUME NEW j \in 1 .. (m + k) - 1
                 PROVE  Printed(u[j]) # Printed(u[m + k])
      BY DEF IsFirst
    <3>1. CASE j \in 1 .. m
      BY <1>2, <1>3, <2>3, <3>1 DEF ToSet
    <3>2. CASE j \notin 1 .. m
      <4>1. j \in 1 .. (m + n)
        BY <1>2
      <4>2. PICK l \in 1 .. n : j = m + l
        BY <1>3, <3>2, <4>1
      <4>3. l \in 1 .. k - 1
        BY <1>2, <4>2
      <4> QED BY <1>3, <2>3, <4>2, <4>3 DEF IsFirst
    <3> QED BY <3>1, <3>2
  <2> QED BY <2>1, <2>2, <2>3
<1>6. ASSUME NEW r \in Firsts(u)
      PROVE  r \in Firsts(s) \cup NewIn(s, t)
  <2>1. PICK i \in 1 .. (m + n) : r = u[i] /\ IsFirst(u, i)
    BY <1>3 DEF Firsts
  <2>2. CASE i \in 1 .. m
    BY <1>2, <1>3, <1>4, <2>1, <2>2 DEF Firsts
  <2>3. CASE \E j \in 1 .. n : i = m + j
    <3>1. PICK j \in 1 .. n : i = m + j
      BY <2>3
    <3>2. /\ r = t[j] /\ IsFirst(t, j) /\ j \in DOMAIN t
          /\ \A x \in ToSet(s) : Printed(x) # Printed(t[j])
      BY <1>2, <1>3, <1>5, <2>1, <3>1
    <3> QED BY <3>2 DEF NewIn, Firsts
  <2> QED BY <1>3, <2>2, <2>3
<1>7. ASSUME NEW r \in Firsts(s)
      PROVE  r \in Firsts(u)
  <2>1. PICK i \in 1 .. m : r = s[i] /\ IsFirst(s, i)
    BY <1>2 DEF Firsts
  <2> QED BY <1>3, <1>4, <2>1 DEF Firsts
<1>8. ASSUME NEW r \in NewIn(s, t)
      PROVE  r \in Firsts(u)
  <2>1. PICK k \in 1 .. n : r = t[k] /\ IsFirst(t, k)
    BY <1>2 DEF Firsts, NewIn
  <2>2. \A x \in ToSet(s) : Printed(x) # Printed(t[k])
    BY <2>1 DEF NewIn
  <2> QED BY <1>3, <1>5, <2>1, <2>2 DEF Firsts
<1> QED BY <1>6, <1>7, <1>8

LEMMA PrintedKey ==
    ASSUME NEW r, NEW s, Printed(r) = Printed(s)
    PROVE  r.key = s.key
<1>1. Printed(r).key = r.key
  BY DEF Printed
<1>2. Printed(s).key = s.key
  BY DEF Printed
<1> QED BY <1>1, <1>2

(* Rows with keys, all different, and then two lists of rows without        *)
LEMMA FirstsOfThree ==
    ASSUME NEW S, NEW s \in Seq(S), NEW t \in Seq(S), NEW u \in Seq(S),
           \A i, j \in DOMAIN s : s[i].key = s[j].key => i = j,
           \A x \in ToSet(s) : x.key # NoKey, \A x \in ToSet(t) \cup ToSet(u) : x.key = NoKey
    PROVE  Firsts(s \o t \o u) = ToSet(s) \cup Firsts(t) \cup NewIn(t, u)
<1> DEFINE v == s \o t
<1>1. ToSet(v) = ToSet(s) \cup ToSet(t) /\ v \in Seq(S)
  BY ToSetOfTwo, Zenon
<1>2. Firsts(v) = Firsts(s) \cup NewIn(s, t)
  BY FirstsOfTwo, Zenon
<1>3. Firsts(v \o u) = Firsts(v) \cup NewIn(v, u)
  <2> HIDE DEF v
  <2> QED BY <1>1, FirstsOfTwo, Zenon
<1>4. Len(s) \in Nat /\ DOMAIN s = 1 .. Len(s)
  OBVIOUS
<1>5. Firsts(s) = ToSet(s)
  <2>1. ASSUME NEW i \in DOMAIN s
        PROVE  IsFirst(s, i)
    <3> SUFFICES ASSUME NEW j \in 1 .. i - 1, Printed(s[j]) = Printed(s[i]) PROVE FALSE
      BY DEF IsFirst
    <3>1. j \in DOMAIN s /\ j # i
      BY <1>4
    <3>2. s[j].key = s[i].key
      BY PrintedKey
    <3> QED BY <3>1, <3>2
  <2> QED BY <2>1 DEF Firsts, ToSet
<1>6. Firsts(t) \subseteq ToSet(t) /\ Firsts(u) \subseteq ToSet(u)
  BY DEF Firsts, ToSet
<1>7. \A x \in ToSet(s), r \in ToSet(t) \cup ToSet(u) : Printed(x) # Printed(r)
  BY PrintedKey
<1>8. NewIn(s, t) = Firsts(t)
  BY <1>6, <1>7 DEF NewIn
<1> HIDE DEF v
<1>9. NewIn(v, u) = NewIn(t, u)
  BY <1>1, <1>6, <1>7 DEF NewIn
<1> QED BY <1>2, <1>3, <1>5, <1>8, <1>9 DEF v

LEMMA TableIsList ==
    ASSUME NEW t, IsTable(t)
    PROVE  /\ Len(t) \in Nat /\ DOMAIN t = 1 .. Len(t)
           /\ \A i \in DOMAIN t : t[i] \in ToSet(t) /\ t[i].key \in Spelling \cup {NoKey}
<1>1. t \in Seq(ToSet(t)) /\ \A r \in ToSet(t) : r.key \in Spelling \cup {NoKey}
  BY DEF IsTable
<1>2. \A i \in DOMAIN t : t[i] \in ToSet(t)
  BY DEF ToSet
<1>3. \A S : t \in Seq(S) => Len(t) \in Nat /\ DOMAIN t = 1 .. Len(t)
  OBVIOUS
<1> QED BY <1>1, <1>2, <1>3

-----------------------------------------------------------------------------
(* Tables with keys in normal form *)

IsPlain(t) ==
    IsTable(t) /\ \A i \in DOMAIN t : t[i].key # NoKey => NFC[t[i].key] = t[i].key

LEMMA GreatestPlace ==
    ASSUME NEW n \in Nat, NEW X, X \subseteq 1 .. n, X # {}
    PROVE  Max(X) \in X /\ \A i \in X : i <= Max(X)
<1> DEFINE T == {k \in Nat : \E i \in X : k = n - i}
<1>1. T \subseteq Nat
  OBVIOUS
<1>2. T # {}
  <2>1. PICK i \in X : TRUE
    OBVIOUS
  <2>2. n - i \in Nat
    OBVIOUS
  <2> QED BY <2>2
<1>3. PICK k \in T : \A l \in Nat : l < k => l \notin T
  <2> HIDE DEF T
  <2> QED BY <1>1, <1>2, Listed!Least
<1>4. PICK i \in X : k = n - i
  OBVIOUS
<1>5. ASSUME NEW j \in X
      PROVE  j <= i
  <2>1. n - j \in T /\ n - j \in Nat
    OBVIOUS
  <2>2. ~ (n - j < k)
    <3> HIDE DEF T
    <3> QED BY <1>3, <2>1
  <2> QED BY <1>4, <2>2
<1> QED BY <1>5 DEF Max

(* A key of a table is that of the last row which has it. *)
LEMMA PlainRow ==
    ASSUME NEW t, IsPlain(t), NEW k
    PROVE  /\ k \in KeysOf(t) <=> k # NoKey /\ \E i \in DOMAIN t : t[i].key = k
           /\ k \in KeysOf(t) =>
                /\ Row(t, k).key = k /\ k \in Int /\ Row(t, k) \in ToSet(t)
                /\ \E i \in DOMAIN t : /\ t[i].key = k /\ Row(t, k) = t[i]
                                       /\ \A j \in DOMAIN t : t[j].key = k => j <= i
           /\ \A i \in DOMAIN t :
                /\ t[i].key = k /\ k # NoKey
                /\ \A j \in DOMAIN t : t[j].key = k => j <= i
                => Row(t, k) = t[i]
<1>1. /\ Len(t) \in Nat /\ DOMAIN t = 1 .. Len(t)
      /\ \A i \in DOMAIN t : t[i] \in ToSet(t) /\ t[i].key \in Spelling \cup {NoKey}
  BY TableIsList DEF IsPlain
<1>2. \A i \in DOMAIN t : t[i].key # NoKey => NFC[t[i].key] = t[i].key /\ t[i].key \in Int
  BY <1>1, TablesAssumption DEF IsPlain, TablesAssumption
<1>3. k \in KeysOf(t) <=> k # NoKey /\ \E i \in DOMAIN t : t[i].key = k
  <2>1. KeysOf(t) = {NFC[t[i].key] : i \in {j \in DOMAIN t : t[j].key # NoKey}}
    BY DEF KeysOf, ToSet
  <2> QED BY <1>2, <2>1
<1> DEFINE X == {i \in DOMAIN t : t[i].key = k}
<1>4. k # NoKey => Row(t, k) = t[Max(X)]
  <2>1. k # NoKey => {i \in DOMAIN t : t[i].key # NoKey /\ NFC[t[i].key] = k} = X
    BY <1>2
  <2> QED BY <2>1 DEF Row
<1>5. X \subseteq 1 .. Len(t)
  BY <1>1
<1>6. X # {} => Max(X) \in X /\ \A i \in X : i <= Max(X)
  <2> HIDE DEF X
  <2> QED BY <1>1, <1>5, GreatestPlace
<1>7. ASSUME k \in KeysOf(t)
      PROVE  /\ Row(t, k).key = k /\ k \in Int /\ Row(t, k) \in ToSet(t)
             /\ \E i \in DOMAIN t : /\ t[i].key = k /\ Row(t, k) = t[i]
                                    /\ \A j \in DOMAIN t : t[j].key = k => j <= i
  <2>1. X # {} /\ k # NoKey
    BY <1>3, <1>7
  <2> DEFINE i == Max(X)
  <2>2. i \in DOMAIN t /\ t[i].key = k /\ \A j \in DOMAIN t : t[j].key = k => j <= i
    BY <1>6, <2>1
  <2>3. Row(t, k) = t[i]
    BY <1>4, <2>1
  <2> HIDE DEF i
  <2> QED BY <1>1, <1>2, <2>1, <2>2, <2>3
<1>8. ASSUME NEW i \in DOMAIN t, t[i].key = k, k # NoKey,
             \A j \in DOMAIN t : t[j].key = k => j <= i
      PROVE  Row(t, k) = t[i]
  <2> DEFINE m == Max(X)
  <2>1. i \in X /\ X # {}
    BY <1>8
  <2>2. m \in X /\ i <= m
    BY <1>6, <2>1
  <2>3. m <= i /\ i \in Nat /\ m \in Nat
    BY <1>1, <1>8, <2>2
  <2> QED BY <1>4, <1>8, <2>2, <2>3
<1> QED BY <1>3, <1>7, <1>8

(* The row of a key in the merge of two tables *)
RowOfKey(a, b, k, timed) ==
    IF k \notin KeysOf(b) THEN Row(a, k)
    ELSE IF k \notin KeysOf(a) THEN Row(b, k)
    ELSE MergeRows(Row(a, k), Row(b, k), Columns(a) \cup Columns(b), timed)

NoKeyRows(t) == {r \in ToSet(t) : r.key = NoKey}

(* The first of the rows without a key that say the same                    *)
FirstRows(t) ==
    {t[i] : i \in {j \in DOMAIN t :
                     /\ t[j].key = NoKey
                     /\ \A l \in DOMAIN t : l < j /\ t[l].key = NoKey
                                              => Printed(t[l]) # Printed(t[j])}}

(* The rows without a key that stay in a merge                              *)
Loose(a, b) ==
    FirstRows(a) \cup {r \in FirstRows(b) : \A x \in NoKeyRows(a) : Printed(x) # Printed(r)}

LEMMA LooseRows ==
    ASSUME NEW a, NEW b, NEW r \in Loose(a, b)
    PROVE  r.key = NoKey /\ r \in NoKeyRows(a) \cup NoKeyRows(b)
BY DEF Loose, FirstRows, NoKeyRows, ToSet

LEMMA UnkeyedHolds ==
    ASSUME NEW t, IsTable(t), NEW S, NoKeyRows(t) \subseteq S
    PROVE  /\ Unkeyed(t) \in Seq(S) /\ ToSet(Unkeyed(t)) = NoKeyRows(t)
           /\ Firsts(Unkeyed(t)) = FirstRows(t)
<1> DEFINE P == {i \in DOMAIN t : t[i].key = NoKey}
<1>1. Len(t) \in Nat /\ P \subseteq 1 .. Len(t)
  BY TableIsList
<1>2. AllIn(t, P, S)
  BY DEF AllIn, NoKeyRows, ToSet
<1>3. Unkeyed(t) = At(t, P)
  BY DEF Unkeyed
<1>4. /\ ToSet(At(t, P)) = {t[i] : i \in P}
      /\ Firsts(At(t, P))
           = {t[i] : i \in {j \in P : \A l \in P : l < j => Printed(t[l]) # Printed(t[j])}}
  <2> HIDE DEF P
  <2> QED BY <1>1, AtHolds, AtFirsts
<1>5. At(t, P) \in Seq(S)
  <2> HIDE DEF P
  <2> QED BY <1>1, <1>2, AtPlaces
<1>6. {t[i] : i \in P} = NoKeyRows(t)
  BY DEF NoKeyRows, ToSet
<1>7. {j \in P : \A l \in P : l < j => Printed(t[l]) # Printed(t[j])}
        = {j \in DOMAIN t : /\ t[j].key = NoKey
                            /\ \A l \in DOMAIN t : l < j /\ t[l].key = NoKey
                                                     => Printed(t[l]) # Printed(t[j])}
  OBVIOUS
<1> HIDE DEF P
<1>8. Firsts(At(t, P)) = FirstRows(t)
  BY <1>4, <1>7 DEF FirstRows
<1> QED BY <1>3, <1>4, <1>5, <1>6, <1>8

LEMMA KeysFinite ==
    ASSUME NEW t, IsPlain(t)
    PROVE  IsFiniteSet(KeysOf(t)) /\ KeysOf(t) \subseteq Int
<1>1. Len(t) \in Nat /\ DOMAIN t = 1 .. Len(t)
  BY TableIsList DEF IsPlain
<1>2. IsFiniteSet(1 .. Len(t))
  BY <1>1, FS_Interval
<1> DEFINE f == [i \in 1 .. Len(t) |-> t[i].key]
           T == {t[i].key : i \in 1 .. Len(t)}
<1>3. f \in Surjection(1 .. Len(t), T)
  BY DEF Surjection
<1>4. IsFiniteSet(T)
  <2> HIDE DEF f, T
  <2> QED BY <1>2, <1>3, FS_Surjection
<1>5. KeysOf(t) \subseteq T /\ KeysOf(t) \subseteq Int
  BY <1>1, PlainRow
<1> QED BY <1>4, <1>5, FS_Subset

LEMMA RowOfKeyHasKey ==
    ASSUME NEW a, NEW b, IsPlain(a), IsPlain(b), NEW k \in KeysOf(a) \cup KeysOf(b), NEW timed
    PROVE  RowOfKey(a, b, k, timed).key = k /\ k # NoKey
<1>1. k \in KeysOf(a) => Row(a, k).key = k /\ k # NoKey
  BY PlainRow
<1>2. k \in KeysOf(b) => Row(b, k).key = k /\ k # NoKey
  BY PlainRow
<1> QED BY <1>1, <1>2 DEF RowOfKey, MergeRows

(* The rows of a merge, each once *)
LEMMA MergeHolds ==
    ASSUME NEW a, NEW b, IsPlain(a), IsPlain(b), NEW named
    PROVE  LET t == MergeTables(a, b, named) IN
             /\ ToSet(t) = {RowOfKey(a, b, k, IsTimed(a, b, named)) : k \in KeysOf(a) \cup KeysOf(b)}
                             \cup Loose(a, b)
             /\ t \in Seq(ToSet(t))
             /\ \A m, n \in DOMAIN t : t[m] = t[n] => m = n
<1> DEFINE K == KeysOf(a) \cup KeysOf(b)
           row(k) == RowOfKey(a, b, k, IsTimed(a, b, named))
           R == {row(k) : k \in K}
           S == R \cup NoKeyRows(a) \cup NoKeyRows(b)
           N == Cardinality(K)
           q == InOrder(K)
           u == [i \in 1 .. N |-> row(q[i])]
           e == Unkeyed(a)
           f == Unkeyed(b)
           v == u \o e
           w == v \o f
<1>1. IsFiniteSet(K) /\ K \subseteq Int /\ N \in Nat
  BY KeysFinite, FS_Union, FS_CardinalityType
<1>2. IsListing(q, K)
  BY <1>1, InOrderSorted
<1>3. DOMAIN q = 1 .. N /\ (\A i \in 1 .. N : q[i] \in K) /\ \A k \in K : \E i \in 1 .. N : q[i] = k
  <2> HIDE DEF q
  <2> QED BY <1>2 DEF IsListing
<1>4. MergeTables(a, b, named) = Dedup(w)
  BY <1>3 DEF MergeTables, RowOfKey
<1>5. e \in Seq(S) /\ ToSet(e) = NoKeyRows(a) /\ Firsts(e) = FirstRows(a)
  BY UnkeyedHolds DEF IsPlain
<1>6. f \in Seq(S) /\ ToSet(f) = NoKeyRows(b) /\ Firsts(f) = FirstRows(b)
  BY UnkeyedHolds DEF IsPlain
<1>7. \A k \in K : row(k).key = k /\ k # NoKey
  BY RowOfKeyHasKey
<1>8. \A i, j \in 1 .. N : i < j => q[i] < q[j]
  <2> HIDE DEF q
  <2> QED BY <1>2 DEF IsListing
<1> HIDE DEF q, K, row
<1>9. u \in Seq(S) /\ ToSet(u) = R /\ DOMAIN u = 1 .. N
  <2>1. (\A i \in 1 .. N : u[i] \in R) /\ \A x \in R : \E i \in 1 .. N : u[i] = x
    BY <1>3
  <2>2. u = [i \in 1 .. N |-> u[i]]
    OBVIOUS
  <2>3. R \subseteq S
    OBVIOUS
  <2> HIDE DEF u, R, S
  <2>4. u \in Seq(S) /\ DOMAIN u = 1 .. N
    <3>1. \A i \in 1 .. N : u[i] \in S
      BY <2>1, <2>3
    <3> HIDE DEF N
    <3> QED BY <1>1, <2>2, <3>1, ListOf
  <2> QED BY <2>1, <2>4 DEF ToSet
<1>10. \A i, j \in DOMAIN u : u[i].key = u[j].key => i = j
  <2> SUFFICES ASSUME NEW i \in 1 .. N, NEW j \in 1 .. N, u[i].key = u[j].key PROVE i = j
    OBVIOUS
  <2>1. q[i] = q[j] /\ q[i] \in Int
    BY <1>1, <1>3, <1>7
  <2>2. ~ (i < j) /\ ~ (j < i)
    BY <1>8, <2>1
  <2> QED BY <1>1, <2>2
<1>11. \A x \in R : x.key # NoKey
  BY <1>7
<1>12. \A x \in ToSet(e) \cup ToSet(f) : x.key = NoKey
  BY <1>5, <1>6 DEF NoKeyRows
<1> HIDE DEF u, e, f, S, R
<1>12a. (\A x \in ToSet(u) : x.key # NoKey) /\ u \in Seq(S) /\ e \in Seq(S) /\ f \in Seq(S)
  BY <1>5, <1>6, <1>9, <1>11
<1>13. v \o f \in Seq(S)
  BY <1>5, <1>6, <1>9, ToSetOfThree
<1>14. Firsts(v \o f) = ToSet(u) \cup Firsts(e) \cup NewIn(e, f)
  BY <1>10, <1>12, <1>12a, FirstsOfThree
<1>15. Firsts(e) \cup NewIn(e, f) = Loose(a, b)
  BY <1>5, <1>6 DEF NewIn, Loose
<1>16. w \in Seq(S) /\ Firsts(w) = R \cup Loose(a, b)
  BY <1>9, <1>13, <1>14, <1>15
<1> HIDE DEF v, w
<1> DEFINE t == Dedup(w)
<1>17. t \in Seq(S) /\ ToSet(t) = R \cup Loose(a, b) /\ \A m, n \in DOMAIN t : t[m] = t[n] => m = n
  BY <1>16, DedupHolds
<1>18. t \in Seq(ToSet(t))
  <2> HIDE DEF t
  <2>1. Len(t) \in Nat /\ t = [i \in 1 .. Len(t) |-> t[i]] /\ DOMAIN t = 1 .. Len(t)
    BY <1>17
  <2>2. \A i \in 1 .. Len(t) : t[i] \in ToSet(t)
    BY <2>1 DEF ToSet
  <2> QED BY <2>1, <2>2, ListOf
<1> HIDE DEF t
<1> QED BY <1>4, <1>17, <1>18 DEF t, R, row, K

(* The rows of a table whose keys have a number *)
Part(t, num, n) == At(t, {i \in DOMAIN t : num[t[i].key] = n})

LEMMA PartHolds ==
    ASSUME NEW t, IsPlain(t), NEW num, NEW n, NEW p, p = Part(t, num, n)
    PROVE  /\ IsPlain(p)
           /\ \A k : k \in KeysOf(p) <=> k \in KeysOf(t) /\ num[k] = n
           /\ \A k \in KeysOf(p) : Row(p, k) = Row(t, k)
           /\ NoKeyRows(p) = IF num[NoKey] = n THEN NoKeyRows(t) ELSE {}
           /\ FirstRows(p) = IF num[NoKey] = n THEN FirstRows(t) ELSE {}
           /\ ToSet(p) \subseteq ToSet(t)
<1> DEFINE P == {i \in DOMAIN t : num[t[i].key] = n}
           q == InOrder(P)
           N == Cardinality(P)
           S == {t[i] : i \in P}
<1>1. /\ Len(t) \in Nat /\ DOMAIN t = 1 .. Len(t)
      /\ \A i \in DOMAIN t : t[i] \in ToSet(t) /\ t[i].key \in Spelling \cup {NoKey}
  BY TableIsList DEF IsPlain
<1>2. P \subseteq 1 .. Len(t) /\ \A i \in DOMAIN t : i \in P <=> num[t[i].key] = n
  BY <1>1
<1>3. p = At(t, P)
  BY DEF Part
<1>4. AllIn(t, P, S)
  BY DEF AllIn
<1> HIDE DEF P, S
<1>5. p \in Seq(S) /\ Lists(p, q, t, P)
  BY <1>1, <1>2, <1>3, <1>4, AtPlaces
<1>6. ToSet(p) = S
  BY <1>1, <1>2, <1>3, AtHolds DEF S
<1>7. IsListing(q, P) /\ N \in Nat
  BY <1>1, <1>2, PlacesFinite, InOrderSorted
<1> HIDE DEF q, N
<1>8. /\ DOMAIN p = 1 .. N
      /\ \A m \in 1 .. N : q[m] \in P /\ p[m] = t[q[m]] /\ q[m] \in DOMAIN t
      /\ \A i \in P : \E m \in 1 .. N : q[m] = i
      /\ \A i, j \in 1 .. N : i < j => q[i] < q[j]
  BY <1>1, <1>2, <1>5, <1>7 DEF Lists, IsListing, N
<1>9. \A r \in ToSet(p) : r \in ToSet(t) /\ num[r.key] = n
  BY <1>1, <1>2, <1>6 DEF S
<1>10. IsPlain(p)
  <2>1. \A r \in ToSet(p) :
          /\ r.key \in Spelling \cup {NoKey}
          /\ \A c \in DOMAIN r.cells : r.cells[c] \in Value \cup {None}
    BY <1>9 DEF IsPlain, IsTable
  <2>2. \A m \in DOMAIN p : p[m].key # NoKey => NFC[p[m].key] = p[m].key
    BY <1>8 DEF IsPlain
  <2> QED BY <1>5, <1>6, <2>1, <2>2 DEF IsPlain, IsTable
<1>11. ASSUME NEW k \in KeysOf(p)
       PROVE  k \in KeysOf(t) /\ num[k] = n
  <2>1. PICK m \in DOMAIN p : p[m].key = k /\ k # NoKey
    BY <1>10, PlainRow
  <2> QED BY <1>2, <1>8, <2>1, PlainRow
<1>12. ASSUME NEW k \in KeysOf(t), num[k] = n
       PROVE  k \in KeysOf(p) /\ Row(p, k) = Row(t, k)
  <2>1. PICK i \in DOMAIN t : /\ t[i].key = k /\ Row(t, k) = t[i]
                              /\ \A j \in DOMAIN t : t[j].key = k => j <= i
    BY PlainRow
  <2>2. k # NoKey
    BY PlainRow
  <2>3. PICK m \in 1 .. N : q[m] = i
    BY <1>2, <1>8, <1>12, <2>1
  <2>4. m \in DOMAIN p /\ p[m] = t[i]
    BY <1>8, <2>3
  <2>5. ASSUME NEW j \in DOMAIN p, p[j].key = k
        PROVE  j <= m
    <3>1. j \in 1 .. N /\ q[j] \in DOMAIN t /\ t[q[j]].key = k
      BY <1>8, <2>5
    <3>2. q[j] <= q[m]
      BY <2>1, <2>3, <3>1
    <3>3. m < j => q[m] < q[j]
      BY <1>8, <3>1
    <3>4. q[j] \in Nat /\ q[m] \in Nat
      BY <1>1, <2>3, <3>1
    <3> QED BY <1>7, <3>1, <3>2, <3>3, <3>4
  <2> QED BY <1>10, <2>1, <2>2, <2>4, <2>5, PlainRow
<1>13. NoKeyRows(p) = IF num[NoKey] = n THEN NoKeyRows(t) ELSE {}
  <2>1. \A r \in ToSet(t) : num[r.key] = n => r \in ToSet(p)
    BY <1>2, <1>6 DEF S, ToSet
  <2> QED BY <1>9, <2>1 DEF NoKeyRows
<1>14. num[NoKey] # n => FirstRows(p) = {}
  <2>1. FirstRows(p) \subseteq NoKeyRows(p)
    BY DEF FirstRows, NoKeyRows, ToSet
  <2> QED BY <1>13, <2>1
<1>15. ASSUME num[NoKey] = n
       PROVE  FirstRows(p) = FirstRows(t)
  <2>1. \A i \in DOMAIN t : t[i].key = NoKey => \E m \in 1 .. N : q[m] = i
    BY <1>2, <1>8, <1>15
  <2>2. \A l, m \in 1 .. N : q[l] < q[m] => l < m
    <3> SUFFICES ASSUME NEW l \in 1 .. N, NEW m \in 1 .. N, q[l] < q[m], m <= l PROVE FALSE
      BY <1>7
    <3>1. m < l => q[m] < q[l]
      BY <1>8
    <3>2. q[m] \in Nat /\ q[l] \in Nat
      BY <1>1, <1>8
    <3> QED BY <1>7, <3>1, <3>2
  <2>3. ASSUME NEW m \in 1 .. N, p[m].key = NoKey
        PROVE  (\A l \in DOMAIN p : l < m /\ p[l].key = NoKey => Printed(p[l]) # Printed(p[m]))
                 <=> \A l \in DOMAIN t : l < q[m] /\ t[l].key = NoKey
                                           => Printed(t[l]) # Printed(t[q[m]])
    <3>1. ASSUME \A l \in DOMAIN p : l < m /\ p[l].key = NoKey => Printed(p[l]) # Printed(p[m]),
                 NEW l \in DOMAIN t, l < q[m], t[l].key = NoKey
          PROVE  Printed(t[l]) # Printed(t[q[m]])
      <4>1. PICK k \in 1 .. N : q[k] = l
        BY <2>1, <3>1
      <4>2. k < m
        BY <2>2, <3>1, <4>1
      <4> QED BY <1>8, <3>1, <4>1, <4>2
    <3>2. ASSUME \A l \in DOMAIN t : l < q[m] /\ t[l].key = NoKey
                                       => Printed(t[l]) # Printed(t[q[m]]),
                 NEW l \in DOMAIN p, l < m, p[l].key = NoKey
          PROVE  Printed(p[l]) # Printed(p[m])
      <4>1. q[l] < q[m] /\ q[l] \in DOMAIN t /\ p[l] = t[q[l]] /\ p[m] = t[q[m]]
        BY <1>8, <3>2
      <4> QED BY <3>2, <4>1
    <3> QED BY <3>1, <3>2
  <2>4. \A r \in FirstRows(p) : r \in FirstRows(t)
    <3> TAKE r \in FirstRows(p)
    <3>1. PICK m \in 1 .. N :
            /\ r = p[m] /\ p[m].key = NoKey
            /\ \A l \in DOMAIN p : l < m /\ p[l].key = NoKey => Printed(p[l]) # Printed(p[m])
      BY <1>8 DEF FirstRows
    <3>2. \A l \in DOMAIN t : l < q[m] /\ t[l].key = NoKey => Printed(t[l]) # Printed(t[q[m]])
      BY <2>3, <3>1
    <3>3. r = t[q[m]] /\ q[m] \in DOMAIN t /\ t[q[m]].key = NoKey
      BY <1>8, <3>1
    <3> QED BY <3>2, <3>3 DEF FirstRows
  <2>5. \A r \in FirstRows(t) : r \in FirstRows(p)
    <3> TAKE r \in FirstRows(t)
    <3>1. PICK i \in DOMAIN t :
            /\ r = t[i] /\ t[i].key = NoKey
            /\ \A l \in DOMAIN t : l < i /\ t[l].key = NoKey => Printed(t[l]) # Printed(t[i])
      BY DEF FirstRows
    <3>2. PICK m \in 1 .. N : q[m] = i
      BY <2>1, <3>1
    <3>3. r = p[m] /\ m \in DOMAIN p /\ p[m].key = NoKey
      BY <1>8, <3>1, <3>2
    <3>4. \A l \in DOMAIN p : l < m /\ p[l].key = NoKey => Printed(p[l]) # Printed(p[m])
      BY <2>3, <3>1, <3>2, <3>3
    <3> QED BY <3>3, <3>4 DEF FirstRows
  <2> QED BY <2>4, <2>5
<1> QED BY <1>9, <1>10, <1>11, <1>12, <1>13, <1>14, <1>15

TimesAgree(a, b, named) ==
    \/ named
    \/ \A r \in ToSet(a) \cup ToSet(b) : TimeColumn \notin DOMAIN r.cells
    \/ \A r \in ToSet(a) \cup ToSet(b) : TimeColumn \in DOMAIN r.cells

(* Columns that none of two rows has are not shown. *)
LEMMA MoreColumns ==
    ASSUME NEW r, NEW s, NEW few, NEW all, few \subseteq all, NEW timed,
           DOMAIN r.cells \subseteq few, DOMAIN s.cells \subseteq few
    PROVE  Shown(MergeRows(r, s, few, timed)) = Shown(MergeRows(r, s, all, timed))
<1> DEFINE cell(c) == MergeCell(LookUp(r.cells, c, None), LookUp(s.cells, c, None), timed,
                                Stamp(r, timed), Stamp(s, timed))
           x == [c \in few |-> cell(c)]
           y == [c \in all |-> cell(c)]
<1>1. MergeRows(r, s, few, timed) = [key |-> r.key, cells |-> x]
  BY DEF MergeRows
<1>2. MergeRows(r, s, all, timed) = [key |-> r.key, cells |-> y]
  BY DEF MergeRows
<1>3. \A c \in all \ few : cell(c) = None
  BY DEF LookUp, MergeCell
<1>4. DOMAIN x = few /\ DOMAIN y = all /\ (\A c \in few : x[c] = y[c]) /\ \A c \in all \ few : y[c] = None
  <2> HIDE DEF cell
  <2> QED BY <1>3
<1> HIDE DEF x, y
<1>5. {c \in DOMAIN x : x[c] # None} = {c \in DOMAIN y : y[c] # None}
  BY <1>4
<1>6. Shown([key |-> r.key, cells |-> x]) = Shown([key |-> r.key, cells |-> y])
  BY <1>4, <1>5 DEF Shown, Restrict
<1> QED BY <1>1, <1>2, <1>6

LEMMA FirstRow ==
    ASSUME NEW t, IsPlain(t), NEW r \in ToSet(t)
    PROVE  t # <<>> /\ t[1] \in ToSet(t)
<1>1. Len(t) \in Nat /\ DOMAIN t = 1 .. Len(t)
  BY TableIsList DEF IsPlain
<1>2. PICK i \in DOMAIN t : t[i] = r
  BY DEF ToSet
<1>3. 1 \in DOMAIN t
  BY <1>1, <1>2
<1>4. DOMAIN t # DOMAIN <<>>
  BY <1>3
<1> QED BY <1>3, <1>4 DEF ToSet

(* A chunk makes of its keys what the whole tables do. *)
LEMMA RowOfChunk ==
    ASSUME NEW a, NEW b, IsPlain(a), IsPlain(b), NEW named \in BOOLEAN, TimesAgree(a, b, named),
           NEW num, NEW n, NEW p, p = Part(a, num, n), NEW s, s = Part(b, num, n),
           NEW k \in KeysOf(p) \cup KeysOf(s)
    PROVE  Shown(RowOfKey(p, s, k, IsTimed(p, s, named)))
             = Shown(RowOfKey(a, b, k, IsTimed(a, b, named)))
<1>1. /\ IsPlain(p) /\ ToSet(p) \subseteq ToSet(a) /\ num[k] = n
      /\ k \in KeysOf(p) <=> k \in KeysOf(a)
      /\ k \in KeysOf(p) => Row(p, k) = Row(a, k)
  BY PartHolds
<1>2. /\ IsPlain(s) /\ ToSet(s) \subseteq ToSet(b)
      /\ k \in KeysOf(s) <=> k \in KeysOf(b)
      /\ k \in KeysOf(s) => Row(s, k) = Row(b, k)
  BY <1>1, PartHolds
<1>3. CASE k \notin KeysOf(s) \/ k \notin KeysOf(p)
  BY <1>1, <1>2, <1>3 DEF RowOfKey
<1>4. CASE k \in KeysOf(s) /\ k \in KeysOf(p)
  <2> DEFINE r == Row(a, k)
             t == Row(b, k)
             few == Columns(p) \cup Columns(s)
             all == Columns(a) \cup Columns(b)
             timed == IsTimed(p, s, named)
             timed2 == IsTimed(a, b, named)
  <2>1. r \in ToSet(p) /\ t \in ToSet(s)
    BY <1>1, <1>2, <1>4, PlainRow
  <2>2. few \subseteq all /\ DOMAIN r.cells \subseteq few /\ DOMAIN t.cells \subseteq few
    BY <1>1, <1>2, <2>1 DEF Columns
  <2>3. p # <<>> /\ s # <<>> /\ p[1] \in ToSet(p) /\ s[1] \in ToSet(s)
    BY <1>1, <1>2, <2>1, FirstRow
  <2>4. a # <<>> /\ b # <<>> /\ a[1] \in ToSet(a) /\ b[1] \in ToSet(b)
    BY <1>1, <1>2, <2>1, FirstRow
  <2>5. timed = timed2
    <3>1. CASE named
      BY <3>1 DEF IsTimed
    <3>2. CASE ~ named /\ \A x \in ToSet(a) \cup ToSet(b) : TimeColumn \notin DOMAIN x.cells
      <4>1. timed = FALSE
        BY <1>1, <1>2, <2>3, <3>2 DEF IsTimed
      <4>2. timed2 = FALSE
        BY <2>4, <3>2 DEF IsTimed
      <4> QED BY <4>1, <4>2
    <3>3. CASE \A x \in ToSet(a) \cup ToSet(b) : TimeColumn \in DOMAIN x.cells
      <4>1. timed = TRUE
        BY <1>1, <1>2, <2>3, <3>3 DEF IsTimed
      <4>2. timed2 = TRUE
        BY <2>4, <3>3 DEF IsTimed
      <4> QED BY <4>1, <4>2
    <3> QED BY <3>1, <3>2, <3>3 DEF TimesAgree
  <2> HIDE DEF r, t, few, all, timed, timed2
  <2>6. Shown(MergeRows(r, t, few, timed)) = Shown(MergeRows(r, t, all, timed2))
    BY <2>2, <2>5, MoreColumns
  <2>7. RowOfKey(p, s, k, timed) = MergeRows(r, t, few, timed)
    BY <1>1, <1>2, <1>4 DEF RowOfKey, r, t, few
  <2>8. RowOfKey(a, b, k, timed2) = MergeRows(r, t, all, timed2)
    BY <1>1, <1>2, <1>4 DEF RowOfKey, r, t, all
  <2> QED BY <2>6, <2>7, <2>8 DEF timed, timed2
<1> QED BY <1>3, <1>4

-----------------------------------------------------------------------------
(* Lists with the same rows *)

(* One row for another: the row of the key, or the same row without a key   *)
Same(x, y) == Shown(x) = Shown(y) /\ (x.key = NoKey => x = y)

IsDistinct(s) ==
    \A i, j \in DOMAIN s : s[i].key = s[j].key /\ (s[i].key = NoKey => s[i] = s[j]) => i = j

BagOf(t) ==
    [r \in {Shown(x) : x \in ToSet(t)} |-> Cardinality({i \in DOMAIN t : Shown(t[i]) = r})]

LEMMA ShownKey ==
    ASSUME NEW x, NEW y, Shown(x) = Shown(y)
    PROVE  x.key = y.key
<1>1. Shown(x).key = x.key
  BY DEF Shown
<1>2. Shown(y).key = y.key
  BY DEF Shown
<1> QED BY <1>1, <1>2

Matches(s, t) == \A i \in DOMAIN s : \E j \in DOMAIN t : Same(s[i], t[j])

Backed(s, t) == \A j \in DOMAIN t : \E i \in DOMAIN s : Same(s[i], t[j])

LEMMA SameBag ==
    ASSUME NEW s, NEW t, IsList(s), IsList(t), IsDistinct(s), IsDistinct(t),
           Matches(s, t), Backed(s, t)
    PROVE  BagOf(s) = BagOf(t)
<1>1. \A i \in DOMAIN s : \A j, l \in DOMAIN t : Same(s[i], t[j]) /\ Same(s[i], t[l]) => j = l
  BY ShownKey DEF Same, IsDistinct
<1>2. \A i, l \in DOMAIN s : \A j \in DOMAIN t : Same(s[i], t[j]) /\ Same(s[l], t[j]) => i = l
  BY ShownKey DEF Same, IsDistinct
<1>3. {Shown(x) : x \in ToSet(s)} = {Shown(x) : x \in ToSet(t)}
  BY DEF ToSet, Matches, Backed, Same
<1>4. ASSUME NEW r
      PROVE  Cardinality({i \in DOMAIN s : Shown(s[i]) = r}) = Cardinality({j \in DOMAIN t : Shown(t[j]) = r})
  <2> DEFINE I == {i \in DOMAIN s : Shown(s[i]) = r}
             J == {j \in DOMAIN t : Shown(t[j]) = r}
             f == [i \in I |-> CHOOSE j \in DOMAIN t : Same(s[i], t[j])]
  <2>1. \A i \in I : f[i] \in DOMAIN t /\ Same(s[i], t[f[i]])
    BY DEF Matches
  <2>2. \A i \in I : f[i] \in J
    BY <2>1 DEF Same
  <2>3. DOMAIN f = I /\ f = [i \in I |-> f[i]]
    OBVIOUS
  <2> HIDE DEF f
  <2>4. \A i, l \in I : f[i] = f[l] => i = l
    BY <1>2, <2>1
  <2>5. ASSUME NEW j \in J
        PROVE  \E i \in I : f[i] = j
    <3>1. PICK i \in DOMAIN s : Same(s[i], t[j])
      BY DEF Backed
    <3>2. i \in I
      BY <3>1 DEF Same
    <3> QED BY <1>1, <2>1, <3>1, <3>2
  <2>6. IsFiniteSet(I)
    <3>1. Len(s) \in Nat /\ I \subseteq 1 .. Len(s)
      BY DEF IsList
    <3> HIDE DEF I
    <3> QED BY <3>1, PlacesFinite
  <2> HIDE DEF I, J
  <2>7. f \in Bijection(I, J)
    <3>1. f \in [I -> J]
      BY <2>2, <2>3
    <3> QED BY <2>4, <2>5, <3>1 DEF Bijection, Injection, Surjection, IsInjective
  <2>8. ExistsBijection(I, J)
    BY <2>7 DEF ExistsBijection
  <2>9. Cardinality(J) = Cardinality(I)
    BY <2>6, <2>8, FS_Bijection
  <2> QED BY <2>9 DEF I, J
<1> DEFINE D == {Shown(x) : x \in ToSet(s)}
<1>5. BagOf(s) = [r \in D |-> Cardinality({i \in DOMAIN s : Shown(s[i]) = r})]
  BY DEF BagOf
<1>6. BagOf(t) = [r \in D |-> Cardinality({i \in DOMAIN t : Shown(t[i]) = r})]
  BY <1>3 DEF BagOf
<1> HIDE DEF D
<1> QED BY <1>4, <1>5, <1>6

(* A merge has one row for a key, and each row without one once. *)
LEMMA MergeDistinct ==
    ASSUME NEW a, NEW b, IsPlain(a), IsPlain(b), NEW named, NEW t, t = MergeTables(a, b, named)
    PROVE  /\ IsList(t) /\ IsDistinct(t) /\ t \in Seq(ToSet(t))
           /\ \A r \in ToSet(t) :
                \/ /\ r.key \in KeysOf(a) \cup KeysOf(b) /\ r.key # NoKey
                   /\ r = RowOfKey(a, b, r.key, IsTimed(a, b, named))
                \/ r \in Loose(a, b) /\ r.key = NoKey
           /\ \A k \in KeysOf(a) \cup KeysOf(b) : RowOfKey(a, b, k, IsTimed(a, b, named)) \in ToSet(t)
           /\ Loose(a, b) \subseteq ToSet(t)
<1> DEFINE K == KeysOf(a) \cup KeysOf(b)
           row(k) == RowOfKey(a, b, k, IsTimed(a, b, named))
<1>1. /\ ToSet(t) = {row(k) : k \in K} \cup Loose(a, b)
      /\ t \in Seq(ToSet(t)) /\ \A m, n \in DOMAIN t : t[m] = t[n] => m = n
  BY MergeHolds
<1>2. \A k \in K : row(k).key = k /\ k # NoKey
  BY RowOfKeyHasKey
<1>3. IsList(t)
  <2>1. \A S : t \in Seq(S) => Len(t) \in Nat /\ DOMAIN t = 1 .. Len(t)
    OBVIOUS
  <2> QED BY <1>1, <2>1 DEF IsList
<1> HIDE DEF K, row
<1>4. \A r \in ToSet(t) : \/ r.key \in K /\ r.key # NoKey /\ r = row(r.key)
                          \/ r \in Loose(a, b) /\ r.key = NoKey
  BY <1>1, <1>2, LooseRows
<1>5. IsDistinct(t)
  <2> SUFFICES ASSUME NEW i \in DOMAIN t, NEW j \in DOMAIN t, t[i].key = t[j].key,
                      t[i].key = NoKey => t[i] = t[j]
               PROVE  i = j
    BY DEF IsDistinct
  <2>1. t[i] \in ToSet(t) /\ t[j] \in ToSet(t)
    BY DEF ToSet
  <2>2. t[i] = t[j]
    BY <1>4, <2>1
  <2> QED BY <1>1, <2>2
<1> QED BY <1>1, <1>3, <1>4, <1>5 DEF K, row

-----------------------------------------------------------------------------
(* Chunks of two tables *)

Spelled(a, b) == {r.key : r \in ToSet(a) \cup ToSet(b)}

IsNumbering(num, a, b) ==
    Chunks(a, b) = {<<Part(a, num, n), Part(b, num, n)>> : n \in {num[k] : k \in Spelled(a, b)}}

LEMMA ChunksAreParts ==
    ASSUME NEW a, NEW b
    PROVE  \E num : IsNumbering(num, a, b)
<1> DEFINE spelled == {r.key : r \in ToSet(a) \cup ToSet(b)}
           order == InOrder(spelled \ {NoKey}) \o (IF NoKey \in spelled THEN <<NoKey>> ELSE <<>>)
           number(k) == (CHOOSE i \in DOMAIN order : order[i] = k) - 1
           at(k) == number(k) \div ChunkSize
           part(t, n) == At(t, {i \in DOMAIN t : at(t[i].key) = n})
           num == [k \in spelled |-> at(k)]
<1>1. Chunks(a, b) = {<<part(a, n), part(b, n)>> : n \in {at(k) : k \in spelled}}
  BY DEF Chunks
<1>2. spelled = Spelled(a, b)
  BY DEF Spelled
<1> HIDE DEF at, spelled
<1>3. \A k \in spelled : num[k] = at(k)
  OBVIOUS
<1>4. \A i \in DOMAIN a : a[i].key \in spelled
  BY DEF spelled, ToSet
<1>5. \A i \in DOMAIN b : b[i].key \in spelled
  BY DEF spelled, ToSet
<1> HIDE DEF num
<1>6. \A n : Part(a, num, n) = part(a, n)
  <2> TAKE n
  <2>1. {i \in DOMAIN a : num[a[i].key] = n} = {i \in DOMAIN a : at(a[i].key) = n}
    BY <1>3, <1>4
  <2> QED BY <2>1 DEF Part
<1>7. \A n : Part(b, num, n) = part(b, n)
  <2> TAKE n
  <2>1. {i \in DOMAIN b : num[b[i].key] = n} = {i \in DOMAIN b : at(b[i].key) = n}
    BY <1>3, <1>5
  <2> QED BY <2>1 DEF Part
<1>8. {at(k) : k \in spelled} = {num[k] : k \in spelled}
  BY <1>3
<1> HIDE DEF part
<1>9. {<<part(a, n), part(b, n)>> : n \in {num[k] : k \in spelled}}
        = {<<Part(a, num, n), Part(b, num, n)>> : n \in {num[k] : k \in spelled}}
  BY <1>6, <1>7
<1>10. IsNumbering(num, a, b)
  BY <1>1, <1>2, <1>8, <1>9 DEF IsNumbering
<1> QED BY <1>10

(* Tables, and timestamps, for which a merge in chunks is the merge *)
Aligned(a, b, named) ==
    IsPlain(a) /\ IsPlain(b) /\ named \in BOOLEAN /\ TimesAgree(a, b, named)

Whole(a, b, k, named) == RowOfKey(a, b, k, IsTimed(a, b, named))

ChunkMerge(c, named) == MergeTables(c[1], c[2], named)

(* m has the rows of the keys that have number n. *)
HasRowsOf(m, n, a, b, named, num) ==
    /\ m \in Seq(ToSet(m)) /\ IsDistinct(m)
    /\ \A r \in ToSet(m) :
         /\ num[r.key] = n
         /\ \/ /\ r.key \in KeysOf(a) \cup KeysOf(b) /\ r.key # NoKey
               /\ Shown(r) = Shown(Whole(a, b, r.key, named))
            \/ r \in Loose(a, b) /\ r.key = NoKey
    /\ \A k \in KeysOf(a) \cup KeysOf(b) :
         num[k] = n => \E r \in ToSet(m) : Shown(r) = Shown(Whole(a, b, k, named)) /\ r.key = k
    /\ num[NoKey] = n => Loose(a, b) \subseteq ToSet(m)

LEMMA ChunkHasRows ==
    ASSUME NEW a, NEW b, NEW named, Aligned(a, b, named), NEW num, NEW n,
           NEW c, c = <<Part(a, num, n), Part(b, num, n)>>
    PROVE  HasRowsOf(ChunkMerge(c, named), n, a, b, named, num)
<1> DEFINE p == Part(a, num, n)
           s == Part(b, num, n)
           m == MergeTables(p, s, named)
<1>1. IsPlain(a) /\ IsPlain(b) /\ named \in BOOLEAN /\ TimesAgree(a, b, named)
  BY DEF Aligned
<1>2. ChunkMerge(c, named) = m
  BY DEF ChunkMerge
<1> HIDE DEF p, s, m
<1>3. /\ IsPlain(p) /\ \A k : k \in KeysOf(p) <=> k \in KeysOf(a) /\ num[k] = n
      /\ NoKeyRows(p) = IF num[NoKey] = n THEN NoKeyRows(a) ELSE {}
      /\ FirstRows(p) = IF num[NoKey] = n THEN FirstRows(a) ELSE {}
  BY <1>1, PartHolds DEF p
<1>4. /\ IsPlain(s) /\ \A k : k \in KeysOf(s) <=> k \in KeysOf(b) /\ num[k] = n
      /\ FirstRows(s) = IF num[NoKey] = n THEN FirstRows(b) ELSE {}
  BY <1>1, PartHolds DEF s
<1>5. /\ IsDistinct(m) /\ m \in Seq(ToSet(m))
      /\ \A r \in ToSet(m) :
           \/ /\ r.key \in KeysOf(p) \cup KeysOf(s) /\ r.key # NoKey
              /\ r = RowOfKey(p, s, r.key, IsTimed(p, s, named))
           \/ r \in Loose(p, s) /\ r.key = NoKey
      /\ \A k \in KeysOf(p) \cup KeysOf(s) : RowOfKey(p, s, k, IsTimed(p, s, named)) \in ToSet(m)
      /\ Loose(p, s) \subseteq ToSet(m)
  <2>1. IsPlain(p) /\ IsPlain(s) /\ m = MergeTables(p, s, named)
    BY <1>3, <1>4 DEF m
  <2> QED BY <2>1, MergeDistinct
<1>6. \A k \in KeysOf(p) \cup KeysOf(s) :
        /\ RowOfKey(p, s, k, IsTimed(p, s, named)).key = k
        /\ Shown(RowOfKey(p, s, k, IsTimed(p, s, named))) = Shown(Whole(a, b, k, named))
  <2> TAKE k \in KeysOf(p) \cup KeysOf(s)
  <2>1. RowOfKey(p, s, k, IsTimed(p, s, named)).key = k
    BY <1>3, <1>4, RowOfKeyHasKey
  <2>2. Shown(RowOfKey(p, s, k, IsTimed(p, s, named)))
          = Shown(RowOfKey(a, b, k, IsTimed(a, b, named)))
    BY <1>1, RowOfChunk DEF p, s
  <2> QED BY <2>1, <2>2 DEF Whole
<1>6a. Loose(p, s) = IF num[NoKey] = n THEN Loose(a, b) ELSE {}
  BY <1>3, <1>4 DEF Loose
<1>7. \A r \in ToSet(m) :
        /\ num[r.key] = n
        /\ \/ /\ r.key \in KeysOf(a) \cup KeysOf(b) /\ r.key # NoKey
              /\ Shown(r) = Shown(Whole(a, b, r.key, named))
           \/ r \in Loose(a, b) /\ r.key = NoKey
  <2> TAKE r \in ToSet(m)
  <2>1. CASE r.key \in KeysOf(p) \cup KeysOf(s) /\ r.key # NoKey
             /\ r = RowOfKey(p, s, r.key, IsTimed(p, s, named))
    BY <1>3, <1>4, <1>6, <2>1
  <2>2. CASE r \in Loose(p, s) /\ r.key = NoKey
    BY <1>6a, <2>2
  <2> QED BY <1>5, <2>1, <2>2
<1>8. \A k \in KeysOf(a) \cup KeysOf(b) :
        num[k] = n => \E r \in ToSet(m) : Shown(r) = Shown(Whole(a, b, k, named)) /\ r.key = k
  BY <1>3, <1>4, <1>5, <1>6
<1>9. num[NoKey] = n => Loose(a, b) \subseteq ToSet(m)
  BY <1>5, <1>6a
<1> QED BY <1>2, <1>5, <1>7, <1>8, <1>9 DEF HasRowsOf

(* The rows of some chunks, one after the other *)
Collected(list, D, named) ==
    /\ list \in Seq(ToSet(list)) /\ IsDistinct(list)
    /\ ToSet(list) = UNION {ToSet(ChunkMerge(c, named)) : c \in D}

LEMMA SeqInMore ==
    ASSUME NEW S, NEW T, S \subseteq T, NEW s \in Seq(S)
    PROVE  s \in Seq(T)
OBVIOUS

LEMMA NothingCollected ==
    ASSUME NEW named
    PROVE  Collected(<<>>, {}, named)
<1>1. ToSet(<<>>) = {}
  BY DEF ToSet
<1>2. IsDistinct(<<>>)
  BY DEF IsDistinct
<1>3. <<>> \in Seq(ToSet(<<>>))
  OBVIOUS
<1> QED BY <1>1, <1>2, <1>3 DEF Collected

LEMMA OneMoreCollected ==
    ASSUME NEW a, NEW b, NEW named, Aligned(a, b, named),
           NEW list, NEW D, D \subseteq Chunks(a, b), Collected(list, D, named),
           NEW c \in Chunks(a, b), c \notin D
    PROVE  Collected(list \o ChunkMerge(c, named), D \cup {c}, named)
<1> DEFINE m == ChunkMerge(c, named)
           S == ToSet(list) \cup ToSet(m)
           u == list \o m
<1>1. PICK num : IsNumbering(num, a, b)
  BY ChunksAreParts
<1>2. \A d \in Chunks(a, b) : \E n : d = <<Part(a, num, n), Part(b, num, n)>>
  BY <1>1 DEF IsNumbering
<1>3. PICK n : c = <<Part(a, num, n), Part(b, num, n)>>
  BY <1>2
<1>4. HasRowsOf(m, n, a, b, named, num)
  BY <1>3, ChunkHasRows
<1>5. \A r \in ToSet(list) : num[r.key] # n
  <2> SUFFICES ASSUME NEW r \in ToSet(list), num[r.key] = n PROVE FALSE
    OBVIOUS
  <2>1. PICK d \in D : r \in ToSet(ChunkMerge(d, named))
    BY DEF Collected
  <2>2. PICK l : d = <<Part(a, num, l), Part(b, num, l)>>
    BY <1>2
  <2>3. HasRowsOf(ChunkMerge(d, named), l, a, b, named, num)
    BY <2>2, ChunkHasRows
  <2>4. l = n
    BY <2>1, <2>3 DEF HasRowsOf
  <2> QED BY <1>3, <2>2, <2>4
<1> HIDE DEF m, S
<1>6. list \in Seq(S) /\ m \in Seq(S)
  BY <1>4, SeqInMore DEF Collected, HasRowsOf, S
<1>7. ToSet(u) = S /\ u \in Seq(S)
  <2>1. ToSet(u) = ToSet(list) \cup ToSet(m) /\ u \in Seq(S)
    BY <1>6, ToSetOfTwo
  <2> QED BY <2>1 DEF S
<1>8. Appends(u, list, Len(list), m, Len(m))
  BY <1>6, AppendAt
<1> HIDE DEF u
<1>9. DOMAIN list = 1 .. Len(list) /\ DOMAIN m = 1 .. Len(m)
  BY <1>6
<1>10. IsDistinct(u)
  <2> DEFINE L == Len(list)
             N == Len(m)
  <2>1. /\ DOMAIN u = 1 .. (L + N)
        /\ \A i \in DOMAIN list : u[i] = list[i]
        /\ \A i \in DOMAIN m : u[L + i] = m[i]
        /\ \A i \in DOMAIN u : i \in DOMAIN list \/ \E j \in DOMAIN m : i = L + j
    BY <1>8, <1>9 DEF Appends
  <2> HIDE DEF L, N
  <2>2. \A i \in DOMAIN list : num[u[i].key] # n
    BY <1>5, <2>1 DEF ToSet
  <2>3. \A j \in DOMAIN m : num[u[L + j].key] = n
    BY <1>4, <2>1 DEF ToSet, HasRowsOf
  <2> SUFFICES ASSUME NEW i \in DOMAIN u, NEW j \in DOMAIN u, u[i].key = u[j].key,
                      u[i].key = NoKey => u[i] = u[j]
               PROVE  i = j
    BY DEF IsDistinct
  <2>4. CASE i \in DOMAIN list
    <3>1. j \in DOMAIN list
      BY <2>1, <2>2, <2>3, <2>4
    <3> QED BY <2>1, <2>4, <3>1 DEF Collected, IsDistinct
  <2>5. CASE i \notin DOMAIN list
    <3>1. PICK k \in DOMAIN m : i = L + k
      BY <2>1, <2>5
    <3>2. PICK l \in DOMAIN m : j = L + l
      BY <2>1, <2>2, <2>3, <3>1
    <3>3. m[k].key = m[l].key /\ (m[k].key = NoKey => m[k] = m[l])
      BY <2>1, <3>1, <3>2
    <3>4. k = l
      BY <1>4, <3>3 DEF HasRowsOf, IsDistinct
    <3> QED BY <3>1, <3>2, <3>4
  <2> QED BY <2>4, <2>5
<1>11. S = UNION {ToSet(ChunkMerge(d, named)) : d \in D \cup {c}}
  <2>1. ToSet(list) = UNION {ToSet(ChunkMerge(d, named)) : d \in D}
    BY DEF Collected
  <2> QED BY <2>1 DEF S, m
<1> QED BY <1>7, <1>10, <1>11 DEF Collected, u, m

(* All of them together are the merge, as a bag of what its rows show. *)
LEMMA AllCollected ==
    ASSUME NEW a, NEW b, NEW named, Aligned(a, b, named),
           NEW list, Collected(list, Chunks(a, b), named)
    PROVE  BagOf(list) = BagOf(MergeTables(a, b, named))
<1> DEFINE t == MergeTables(a, b, named)
           K == KeysOf(a) \cup KeysOf(b)
           U == Loose(a, b)
<1>1. PICK num : IsNumbering(num, a, b)
  BY ChunksAreParts
<1>2. IsPlain(a) /\ IsPlain(b)
  BY DEF Aligned
<1>3. /\ IsList(t) /\ IsDistinct(t)
      /\ \A r \in ToSet(t) : \/ r.key \in K /\ r.key # NoKey /\ r = Whole(a, b, r.key, named)
                             \/ r \in U /\ r.key = NoKey
      /\ \A k \in K : Whole(a, b, k, named) \in ToSet(t)
      /\ U \subseteq ToSet(t)
  BY <1>2, MergeDistinct DEF Whole
<1> HIDE DEF t
<1>4. IsList(list) /\ IsDistinct(list)
  <2>1. \A S : list \in Seq(S) => Len(list) \in Nat /\ DOMAIN list = 1 .. Len(list)
    OBVIOUS
  <2> QED BY <2>1 DEF IsList, Collected
<1>5. \A k \in K : Whole(a, b, k, named).key = k /\ k # NoKey /\ k \in Spelled(a, b)
  <2> TAKE k \in K
  <2>1. Whole(a, b, k, named).key = k /\ k # NoKey
    BY <1>2, RowOfKeyHasKey DEF Whole
  <2>2. k \in Spelled(a, b)
    BY <1>2, PlainRow DEF Spelled
  <2> QED BY <2>1, <2>2
<1>6. \A r \in U : r.key = NoKey /\ NoKey \in Spelled(a, b)
  BY LooseRows DEF NoKeyRows, Spelled
<1> HIDE DEF K, U
<1>7. ASSUME NEW r \in ToSet(list)
      PROVE  \E x \in ToSet(t) : Same(r, x)
  <2>1. PICK c \in Chunks(a, b) : r \in ToSet(ChunkMerge(c, named))
    BY DEF Collected
  <2>2. PICK n : c = <<Part(a, num, n), Part(b, num, n)>>
    BY <1>1 DEF IsNumbering
  <2>3. HasRowsOf(ChunkMerge(c, named), n, a, b, named, num)
    BY <2>2, ChunkHasRows
  <2>4. \/ r.key \in K /\ r.key # NoKey /\ Shown(r) = Shown(Whole(a, b, r.key, named))
        \/ r \in U
    BY <2>1, <2>3 DEF HasRowsOf, K, U
  <2> QED BY <1>3, <2>4 DEF Same
<1>8. ASSUME NEW n \in {num[k] : k \in Spelled(a, b)}
      PROVE  \E m : HasRowsOf(m, n, a, b, named, num) /\ ToSet(m) \subseteq ToSet(list)
  <2> DEFINE c == <<Part(a, num, n), Part(b, num, n)>>
  <2>1. c \in Chunks(a, b)
    BY <1>1 DEF IsNumbering
  <2>2. HasRowsOf(ChunkMerge(c, named), n, a, b, named, num)
    BY ChunkHasRows
  <2> HIDE DEF c
  <2>3. ToSet(ChunkMerge(c, named)) \subseteq ToSet(list)
    BY <2>1 DEF Collected
  <2> QED BY <2>2, <2>3
<1>9. ASSUME NEW x \in ToSet(t)
      PROVE  \E r \in ToSet(list) : Same(r, x)
  <2>1. CASE x.key \in K /\ x.key # NoKey /\ x = Whole(a, b, x.key, named)
    <3>1. PICK m : HasRowsOf(m, num[x.key], a, b, named, num) /\ ToSet(m) \subseteq ToSet(list)
      BY <1>5, <1>8, <2>1
    <3>2. PICK r \in ToSet(m) : Shown(r) = Shown(Whole(a, b, x.key, named)) /\ r.key = x.key
      BY <2>1, <3>1 DEF HasRowsOf, K
    <3> QED BY <2>1, <3>1, <3>2 DEF Same
  <2>2. CASE x \in U
    <3>1. PICK m : HasRowsOf(m, num[NoKey], a, b, named, num) /\ ToSet(m) \subseteq ToSet(list)
      BY <1>6, <1>8, <2>2
    <3>2. x \in ToSet(list)
      BY <2>2, <3>1 DEF HasRowsOf, U
    <3> QED BY <3>2 DEF Same
  <2> QED BY <1>3, <2>1, <2>2
<1>10. Matches(list, t) /\ Backed(list, t)
  BY <1>7, <1>9 DEF Matches, Backed, ToSet
<1> QED BY <1>3, <1>4, <1>10, SameBag DEF t

-----------------------------------------------------------------------------
(* A pool of threads *)

ParallelInv ==
    /\ pair \in [a : LeftTable, b : RightTable, named : BOOLEAN]
    /\ pool \subseteq Chunks(pair.a, pair.b)
    /\ errors = {} /\ Aligned(pair.a, pair.b, pair.named)
         => Collected(rows, Chunks(pair.a, pair.b) \ pool, pair.named)

LEMMA ParallelInvHolds == ParallelSpec => []ParallelInv
<1>1. ParallelInit => ParallelInv
  <2> SUFFICES ASSUME ParallelInit PROVE ParallelInv
    OBVIOUS
  <2>1. Chunks(pair.a, pair.b) \ pool = {} /\ rows = <<>>
    BY DEF ParallelInit
  <2>2. Collected(<<>>, {}, pair.named)
    BY NothingCollected
  <2> QED BY <2>1, <2>2 DEF ParallelInit, ParallelInv
<1>2. ASSUME ParallelInv, FinishChunk
      PROVE  ParallelInv'
  <2> DEFINE a == pair.a
             b == pair.b
             named == pair.named
             C == Chunks(a, b)
  <2>1. PICK c \in pool : /\ pool' = pool \ {c}
                          /\ rows' = rows \o MergeTables(c[1], c[2], pair.named)
                          /\ pair' = pair /\ errors' = errors
    BY <1>2 DEF FinishChunk
  <2>2. rows' = rows \o ChunkMerge(c, named)
    BY <2>1 DEF ChunkMerge
  <2>3. c \in C /\ c \notin C \ pool /\ C \ pool \subseteq C /\ C \ (pool \ {c}) = (C \ pool) \cup {c}
    BY <1>2 DEF ParallelInv
  <2> HIDE DEF C
  <2>4. errors = {} /\ Aligned(a, b, named) => Collected(rows, C \ pool, named)
    BY <1>2 DEF ParallelInv, C
  <2> HIDE DEF a, b, named
  <2>5. errors = {} /\ Aligned(a, b, named) => Collected(rows', C \ pool', named)
    <3> SUFFICES ASSUME errors = {}, Aligned(a, b, named)
                 PROVE  Collected(rows', C \ pool', named)
      OBVIOUS
    <3> DEFINE D == C \ pool
    <3>1. D \subseteq Chunks(a, b) /\ c \in Chunks(a, b) /\ c \notin D /\ Collected(rows, D, named)
      BY <2>3, <2>4 DEF C
    <3>2. C \ pool' = D \cup {c}
      BY <2>1, <2>3
    <3> HIDE DEF D
    <3>3. Collected(rows \o ChunkMerge(c, named), D \cup {c}, named)
      BY <3>1, OneMoreCollected
    <3> QED BY <2>2, <3>2, <3>3
  <2>6. pool' \subseteq C
    BY <1>2, <2>1 DEF ParallelInv, C, a, b
  <2> QED BY <1>2, <2>1, <2>5, <2>6 DEF ParallelInv, C, a, b, named
<1>3. ASSUME ParallelInv, RaiseInChunk
      PROVE  ParallelInv'
  <2>1. PICK c \in pool : /\ pool' = pool \ {c} /\ errors' = errors \cup {c}
                          /\ pair' = pair /\ rows' = rows
    BY <1>3 DEF RaiseInChunk
  <2>2. errors' # {}
    BY <2>1
  <2> QED BY <1>3, <2>1, <2>2 DEF ParallelInv
<1>4. ParallelInv /\ [ParallelNext]_parallelVars => ParallelInv'
  <2>1. ParallelInv /\ UNCHANGED parallelVars => ParallelInv'
    BY DEF ParallelInv, parallelVars
  <2> QED BY <1>2, <1>3, <2>1 DEF ParallelNext
<1> QED BY <1>1, <1>4, PTL DEF ParallelSpec

LEMMA TwoTables ==
    ASSUME NEW a, NEW b, IsTable(a), IsTable(b)
    PROVE  ToSet(a \o b) = ToSet(a) \cup ToSet(b)
<1> DEFINE S == ToSet(a) \cup ToSet(b)
<1>1. a \in Seq(ToSet(a)) /\ b \in Seq(ToSet(b))
  BY DEF IsTable
<1>2. a \in Seq(S) /\ b \in Seq(S)
  BY <1>1, SeqInMore
<1> HIDE DEF S
<1>3. ToSet(a \o b) = ToSet(a) \cup ToSet(b) /\ a \o b \in Seq(S)
  BY <1>2, ToSetOfTwo, Zenon
<1> QED BY <1>3

(* What the property asks of the tables, as the proof above has it *)
LEMMA TablesAligned ==
    ASSUME NEW a, NEW b, IsTable(a), IsTable(b), NEW named \in BOOLEAN,
           NEW both, both = a \o b,
           \A r \in ToSet(both) : r.key # NoKey => NFC[r.key] = r.key,
           named \/ {r \in ToSet(both) : TimeColumn \in DOMAIN r.cells} \in {{}, ToSet(both)}
    PROVE  Aligned(a, b, named)
<1>4. ToSet(both) = ToSet(a) \cup ToSet(b)
  BY TwoTables
<1>5. IsPlain(a) /\ IsPlain(b)
  BY <1>4 DEF IsPlain, ToSet
<1>6. TimesAgree(a, b, named)
  BY <1>4 DEF TimesAgree
<1> QED BY <1>5, <1>6 DEF Aligned

(* When no thread raised and all have finished, in whatever order, the rows *)
(* are those of the sequential merge and each as often, for any tables with *)
(* keys in normal form and any size of a chunk.                             *)
THEOREM ParallelMergeIsMerge == ParallelSpec => []ParallelAsSequential
<1>1. ASSUME ParallelInv
      PROVE  ParallelAsSequential
  <2> DEFINE a == pair.a
             b == pair.b
             named == pair.named
             both == a \o b
             timed == {r \in ToSet(both) : TimeColumn \in DOMAIN r.cells}
             merged == MergeTables(a, b, named)
  <2>1. ASSUME pool = {}, errors = {},
               \A r \in ToSet(both) : r.key # NoKey => NFC[r.key] = r.key,
               named \/ timed \in {{}, ToSet(both)}
        PROVE  BagOf(rows) = BagOf(merged)
    <3>1. IsTable(a) /\ IsTable(b) /\ named \in BOOLEAN
      BY <1>1, ParallelAssumption DEF ParallelInv, ParallelAssumption
    <3> HIDE DEF a, b, named
    <3>2. Aligned(a, b, named)
      BY <2>1, <3>1, TablesAligned
    <3>3. Collected(rows, Chunks(a, b), named)
      <4>1. Chunks(a, b) \ pool = Chunks(a, b)
        BY <2>1
      <4> QED BY <1>1, <2>1, <3>2, <4>1 DEF ParallelInv, a, b, named
    <3> QED BY <3>2, <3>3, AllCollected
  <2> QED BY <2>1 DEF ParallelAsSequential, BagOf
<1> QED BY <1>1, ParallelInvHolds, PTL

-----------------------------------------------------------------------------
(* Tables in which a key identifies a row *)

IsClean(t) == IsTable(t) /\ IsKeyed(t) /\ IsUniform(t)

OwnKeys(t) == {t[i].key : i \in DOMAIN t}

LEMMA TheOnly ==
    ASSUME NEW i \in Nat
    PROVE  Max({i}) = i /\ Min({i}) = i
BY DEF Max, Min

LEMMA CleanRows ==
    ASSUME NEW t, IsClean(t), NEW i \in DOMAIN t
    PROVE  /\ LastWith(t[i].key, t) = t[i] /\ Row(t, t[i].key) = t[i]
           /\ t[i].key \in Spelling /\ t[i].key # NoKey /\ NFC[t[i].key] = t[i].key
<1>1. /\ t[i].key \in Spelling /\ t[i].key # NoKey /\ NFC[t[i].key] = t[i].key
      /\ \A j \in DOMAIN t : t[j].key = t[i].key => j = i
      /\ \A j \in DOMAIN t : t[j].key # NoKey /\ NFC[t[j].key] = t[j].key
      /\ i \in Nat
  BY TableIsList DEF IsClean, IsKeyed, ToSet
<1>2. {j \in DOMAIN t : t[j].key = t[i].key} = {i}
  BY <1>1
<1>3. {j \in DOMAIN t : t[j].key # NoKey /\ NFC[t[j].key] = t[i].key} = {i}
  BY <1>1
<1> QED BY <1>1, <1>2, <1>3, TheOnly DEF LastWith, Row

LEMMA CleanKeys ==
    ASSUME NEW t, IsClean(t)
    PROVE  IsPlain(t) /\ KeysOf(t) = OwnKeys(t) /\ FirstRows(t) = {}
<1>1. \A i \in DOMAIN t : t[i].key # NoKey /\ NFC[t[i].key] = t[i].key
  BY CleanRows
<1>2. IsPlain(t)
  BY <1>1 DEF IsClean, IsPlain
<1>3. KeysOf(t) = OwnKeys(t)
  BY <1>1 DEF KeysOf, OwnKeys, ToSet
<1>4. FirstRows(t) = {}
  BY <1>1 DEF FirstRows
<1> QED BY <1>2, <1>3, <1>4

LEMMA UniformColumns ==
    ASSUME NEW t, IsClean(t), NEW i \in DOMAIN t
    PROVE  Columns(t) = DOMAIN t[i].cells
BY DEF IsClean, IsUniform, Columns, ToSet

(* The rows of a merge by key *)
MergedRow(a, b, k, timed) ==
    IF k \notin OwnKeys(b) THEN Row(a, k)
    ELSE IF k \notin OwnKeys(a) THEN Row(b, k)
    ELSE MergeRows(Row(a, k), Row(b, k), Columns(a) \cup Columns(b), timed)

LEMMA MergeTablesHolds ==
    ASSUME NEW a, NEW b, IsClean(a), IsClean(b), NEW named
    PROVE  ToSet(MergeTables(a, b, named)) =
             {MergedRow(a, b, k, IsTimed(a, b, named)) : k \in OwnKeys(a) \cup OwnKeys(b)}
<1> DEFINE timed == IsTimed(a, b, named)
           K == OwnKeys(a) \cup OwnKeys(b)
<1>1. IsPlain(a) /\ KeysOf(a) = OwnKeys(a) /\ FirstRows(a) = {}
  BY CleanKeys
<1>2. IsPlain(b) /\ KeysOf(b) = OwnKeys(b) /\ FirstRows(b) = {}
  BY CleanKeys
<1>3. ToSet(MergeTables(a, b, named))
        = {RowOfKey(a, b, k, timed) : k \in KeysOf(a) \cup KeysOf(b)}
            \cup Loose(a, b)
  BY <1>1, <1>2, MergeHolds
<1>3a. Loose(a, b) = {}
  BY <1>1, <1>2 DEF Loose
<1> HIDE DEF timed
<1>4. \A k : RowOfKey(a, b, k, timed) = MergedRow(a, b, k, timed)
  BY <1>1, <1>2 DEF RowOfKey, MergedRow
<1>5. ToSet(MergeTables(a, b, named)) = {RowOfKey(a, b, k, timed) : k \in K}
  BY <1>1, <1>2, <1>3, <1>3a
<1>6. {RowOfKey(a, b, k, timed) : k \in K} = {MergedRow(a, b, k, timed) : k \in K}
  BY <1>4
<1> QED BY <1>5, <1>6 DEF timed

Cols(a, b) == Columns(a) \cup Columns(b)

(* What the merge makes of a key, and what it writes down about it *)
JoinedRecord(a, b, k, named) ==
    IF k \notin OwnKeys(b) THEN Single("a", Row(a, k))
    ELSE IF k \notin OwnKeys(a) THEN Single("b", Row(b, k))
    ELSE DecideRows(Row(a, k), Row(b, k), Cols(a, b), named)

JoinedRow(a, b, k, named) ==
    IF k \notin OwnKeys(b) THEN Row(a, k)
    ELSE IF k \notin OwnKeys(a) THEN Row(b, k)
    ELSE RowOf(DecideRows(Row(a, k), Row(b, k), Cols(a, b), named))

IsJoin(result, a, b, named) ==
    LET made == result.rows
        log == result.log
    IN /\ IsList(made) /\ IsList(log) /\ DOMAIN log = DOMAIN made
       /\ \A n \in DOMAIN made :
            /\ made[n].key \in OwnKeys(a) \cup OwnKeys(b)
            /\ made[n] = JoinedRow(a, b, made[n].key, named)
            /\ log[n] = JoinedRecord(a, b, made[n].key, named)
       /\ \A k \in OwnKeys(a) \cup OwnKeys(b) : \E n \in DOMAIN made : made[n].key = k
       /\ \A m, n \in DOMAIN made : made[m].key = made[n].key => m = n

LEMMA RowHasKey ==
    ASSUME NEW t, IsClean(t), NEW k \in OwnKeys(t)
    PROVE  /\ Row(t, k).key = k
           /\ \E i \in DOMAIN t : t[i].key = k /\ Row(t, k) = t[i] /\ LastWith(k, t) = t[i]
<1>1. PICK i \in DOMAIN t : t[i].key = k
  BY DEF OwnKeys
<1> QED BY <1>1, CleanRows

LEMMA RecordHasKey ==
    ASSUME NEW a, NEW b, IsClean(a), IsClean(b), NEW k \in OwnKeys(a) \cup OwnKeys(b), NEW named
    PROVE  JoinedRow(a, b, k, named).key = k /\ JoinedRecord(a, b, k, named).key = k
<1>1. k \in OwnKeys(a) => Row(a, k).key = k
  BY RowHasKey
<1>2. k \in OwnKeys(b) => Row(b, k).key = k
  BY RowHasKey
<1> QED BY <1>1, <1>2 DEF JoinedRow, JoinedRecord, Single, DecideRows, RowOf

MeetingColumns(a, b, meets) ==
    UNION {DOMAIN r.cells :
      r \in UNION {{a[i], LastWith(a[i].key, b)} :
                     i \in {j \in meets : \A l \in meets : j <= l}}}

(* The columns that the first two rows that meet have are those of all.     *)
LEMMA ColumnsOfMeeting ==
    ASSUME NEW a, NEW b, IsClean(a), IsClean(b), NEW meets,
           meets = {i \in DOMAIN a : a[i].key \in OwnKeys(b)}, meets # {}
    PROVE  MeetingColumns(a, b, meets) = Cols(a, b)
<1>1. meets \subseteq Nat
  BY TableIsList DEF IsClean
<1>2. PICK m \in meets : \A y \in Nat : y < m => y \notin meets
  BY <1>1, Listed!Least
<1> DEFINE least == {j \in meets : \A l \in meets : j <= l}
           pairs == UNION {{a[i], LastWith(a[i].key, b)} : i \in least}
<1>3. least = {m}
  BY <1>1, <1>2
<1>4. m \in DOMAIN a /\ a[m].key \in OwnKeys(b)
  BY <1>2
<1>5. PICK j \in DOMAIN b : LastWith(a[m].key, b) = b[j]
  BY <1>4, RowHasKey
<1>6. Columns(a) = DOMAIN a[m].cells /\ Columns(b) = DOMAIN b[j].cells
  BY <1>4, UniformColumns
<1>7. pairs = {a[m], b[j]}
  <2> HIDE DEF least
  <2> QED BY <1>3, <1>5
<1> HIDE DEF pairs
<1>8. UNION {DOMAIN r.cells : r \in pairs} = Cols(a, b)
  BY <1>6, <1>7 DEF Cols
<1> QED BY <1>8 DEF pairs, MeetingColumns

(* The rows of the second table that meet none *)
LEMMA RestOfTable ==
    ASSUME NEW b, IsClean(b), NEW P, P \subseteq DOMAIN b
    PROVE  LET rest == [n \in 1 .. Cardinality(P) |-> LastWith(At(b, P)[n].key, b)]
               q == InOrder(P)
           IN /\ Cardinality(P) \in Nat
              /\ \A n \in 1 .. Cardinality(P) : q[n] \in P /\ rest[n] = b[q[n]]
              /\ \A j \in P : \E n \in 1 .. Cardinality(P) : q[n] = j
              /\ \A m, n \in 1 .. Cardinality(P) : q[m] = q[n] => m = n
<1> DEFINE N == Cardinality(P)
           q == InOrder(P)
           u == At(b, P)
<1>1. Len(b) \in Nat /\ DOMAIN b = 1 .. Len(b)
  BY TableIsList DEF IsClean
<1>2. IsFiniteSet(P) /\ P \subseteq Int /\ N \in Nat
  BY <1>1, PlacesFinite
<1>3. IsListing(q, P)
  BY <1>2, InOrderSorted
<1>4. u = [n \in 1 .. N |-> b[q[n]]]
  BY DEF At
<1> HIDE DEF q, u
<1>5. /\ \A n \in 1 .. N : q[n] \in P
      /\ \A i, j \in 1 .. N : i < j => q[i] < q[j]
      /\ \A x \in P : \E n \in 1 .. N : q[n] = x
  BY <1>3 DEF IsListing
<1>6. \A n \in 1 .. N : LastWith(u[n].key, b) = b[q[n]]
  <2> TAKE n \in 1 .. N
  <2>1. q[n] \in DOMAIN b /\ u[n] = b[q[n]]
    BY <1>4, <1>5
  <2> QED BY <2>1, CleanRows
<1>7. \A m, n \in 1 .. N : q[m] = q[n] => m = n
  <2> HIDE DEF N
  <2> QED BY <1>2, <1>5
<1> QED BY <1>2, <1>5, <1>6, <1>7 DEF q, u

ByFirst(a, b, named, s, f) ==
    \A i \in DOMAIN a : /\ s[i] = JoinedRow(a, b, a[i].key, named)
                        /\ f[i] = JoinedRecord(a, b, a[i].key, named)

ByRest(a, b, named, N, q, t, g) ==
    /\ \A n \in 1 .. N : /\ q[n] \in DOMAIN b /\ b[q[n]].key \notin OwnKeys(a)
                          /\ t[n] = JoinedRow(a, b, b[q[n]].key, named)
                          /\ g[n] = JoinedRecord(a, b, b[q[n]].key, named)
    /\ \A j \in DOMAIN b : b[j].key \notin OwnKeys(a) => \E n \in 1 .. N : q[n] = j
    /\ \A m, n \in 1 .. N : q[m] = q[n] => m = n

(* The places of two lists end to end, by the key that each has             *)
LEMMA PlacesByKey ==
    ASSUME NEW a, NEW b, IsClean(a), IsClean(b), NEW named,
           NEW N \in Nat, NEW q, NEW S, NEW T,
           NEW s \in Seq(S), NEW t \in Seq(S), NEW f \in Seq(T), NEW g \in Seq(T),
           Len(s) = Len(a), Len(f) = Len(a), Len(t) = N, Len(g) = N,
           ByFirst(a, b, named, s, f), ByRest(a, b, named, N, q, t, g)
    PROVE  IsJoin([rows |-> s \o t, log |-> f \o g], a, b, named)
<1> DEFINE K == OwnKeys(a) \cup OwnKeys(b)
           u == s \o t
           v == f \o g
           L == Len(a)
<1>1. L \in Nat /\ DOMAIN a = 1 .. L
  BY TableIsList DEF IsClean
<1>2. Appends(u, s, L, t, N)
  <2>1. Appends(s \o t, s, Len(s), t, Len(t))
    BY AppendAt, Zenon
  <2> QED BY <2>1
<1>3. Appends(v, f, L, g, N)
  <2>1. Appends(f \o g, f, Len(f), g, Len(g))
    BY AppendAt, Zenon
  <2> QED BY <2>1
<1> HIDE DEF u, v, L
<1>4. \A i \in 1 .. L : /\ a[i].key \in OwnKeys(a) /\ u[i].key = a[i].key
                        /\ u[i] = JoinedRow(a, b, a[i].key, named)
                        /\ v[i] = JoinedRecord(a, b, a[i].key, named)
  <2> TAKE i \in 1 .. L
  <2>1. i \in DOMAIN a /\ a[i].key \in OwnKeys(a)
    BY <1>1 DEF OwnKeys
  <2>2. u[i] = JoinedRow(a, b, a[i].key, named) /\ v[i] = JoinedRecord(a, b, a[i].key, named)
    BY <1>2, <1>3, <2>1 DEF Appends, ByFirst
  <2>3. JoinedRow(a, b, a[i].key, named).key = a[i].key
    BY <2>1, RecordHasKey
  <2> QED BY <2>1, <2>2, <2>3
<1>5. \A i \in 1 .. N : /\ b[q[i]].key \in OwnKeys(b) /\ u[L + i].key = b[q[i]].key
                        /\ u[L + i] = JoinedRow(a, b, b[q[i]].key, named)
                        /\ v[L + i] = JoinedRecord(a, b, b[q[i]].key, named)
  <2> TAKE i \in 1 .. N
  <2>1. q[i] \in DOMAIN b /\ b[q[i]].key \in OwnKeys(b)
    BY DEF OwnKeys, ByRest
  <2>2. /\ u[L + i] = JoinedRow(a, b, b[q[i]].key, named)
        /\ v[L + i] = JoinedRecord(a, b, b[q[i]].key, named)
    BY <1>2, <1>3 DEF Appends, ByRest
  <2>3. JoinedRow(a, b, b[q[i]].key, named).key = b[q[i]].key
    BY <2>1, RecordHasKey
  <2> QED BY <2>1, <2>2, <2>3
<1>6. ASSUME NEW n \in DOMAIN u
      PROVE  /\ u[n].key \in K
             /\ u[n] = JoinedRow(a, b, u[n].key, named)
             /\ v[n] = JoinedRecord(a, b, u[n].key, named)
  <2>1. CASE n \in 1 .. L
    BY <1>4, <2>1
  <2>2. CASE \E i \in 1 .. N : n = L + i
    BY <1>5, <2>2
  <2> QED BY <1>2, <2>1, <2>2 DEF Appends
<1>7. ASSUME NEW k \in K
      PROVE  \E n \in DOMAIN u : u[n].key = k
  <2>1. CASE k \in OwnKeys(a)
    <3>1. PICK i \in 1 .. L : a[i].key = k
      BY <1>1, <2>1 DEF OwnKeys
    <3>2. i \in DOMAIN u
      BY <1>1, <1>2 DEF Appends
    <3> QED BY <1>4, <3>1, <3>2
  <2>2. CASE k \notin OwnKeys(a)
    <3>1. PICK j \in DOMAIN b : b[j].key = k
      BY <2>2 DEF OwnKeys
    <3>2. PICK i \in 1 .. N : q[i] = j
      BY <2>2, <3>1 DEF ByRest
    <3>3. L + i \in DOMAIN u
      BY <1>1, <1>2 DEF Appends
    <3> QED BY <1>5, <3>1, <3>2, <3>3
  <2> QED BY <2>1, <2>2
<1>8. ASSUME NEW m \in DOMAIN u, NEW n \in DOMAIN u, u[m].key = u[n].key
      PROVE  m = n
  <2>1. \A i, j \in 1 .. L : a[i].key = a[j].key => i = j
    BY <1>1 DEF IsClean, IsKeyed
  <2>2. \A i, j \in 1 .. N : b[q[i]].key = b[q[j]].key => i = j
    BY DEF IsClean, IsKeyed, ByRest
  <2>3. \A i \in 1 .. L, j \in 1 .. N : a[i].key # b[q[j]].key
    BY <1>4 DEF ByRest
  <2>4. CASE m \in 1 .. L /\ n \in 1 .. L
    BY <1>4, <1>8, <2>1, <2>4
  <2>5. ASSUME NEW i \in 1 .. N, NEW j \in 1 .. N, m = L + i, n = L + j
        PROVE  m = n
    BY <1>5, <1>8, <2>2, <2>5
  <2>6. \A i \in 1 .. N : /\ ~ (m \in 1 .. L /\ n = L + i)
                          /\ ~ (n \in 1 .. L /\ m = L + i)
    BY <1>4, <1>5, <1>8, <2>3
  <2>7. m \in 1 .. L \/ \E i \in 1 .. N : m = L + i
    BY <1>2 DEF Appends
  <2>8. n \in 1 .. L \/ \E i \in 1 .. N : n = L + i
    BY <1>2 DEF Appends
  <2>9. CASE m \in 1 .. L
    BY <2>4, <2>6, <2>8, <2>9
  <2>10. CASE m \notin 1 .. L
    BY <2>5, <2>6, <2>7, <2>8, <2>10
  <2> QED BY <2>9, <2>10
<1> DEFINE result == [rows |-> u, log |-> v]
<1>9. result.rows = u /\ result.log = v
  OBVIOUS
<1>10. IsJoin(result, a, b, named)
  <2> HIDE DEF result
  <2> QED BY <1>2, <1>3, <1>6, <1>7, <1>8, <1>9 DEF IsJoin, Appends
<1> QED BY <1>10 DEF u, v

LEMMA JoinHolds ==
    ASSUME NEW a, NEW b, IsClean(a), IsClean(b), NEW named
    PROVE  IsJoin(MergeWithProvenance(a, b, named), a, b, named)
<1> DEFINE meets == Meeting(a, b)
           met == {a[i].key : i \in meets}
           columns == UNION {DOMAIN r.cells :
                        r \in UNION {{a[i], LastWith(a[i].key, b)} :
                                       i \in {j \in meets : \A l \in meets : j <= l}}}
           first == [i \in DOMAIN a |->
                       IF i \in meets
                       THEN DecideRows(a[i], LastWith(a[i].key, b), columns, named)
                       ELSE Single("a", a[i])]
           made == [i \in DOMAIN a |-> IF i \in meets THEN RowOf(first[i]) ELSE a[i]]
           places == {j \in DOMAIN b : b[j].key \notin met
                                         /\ \A l \in 1 .. j - 1 : b[l].key # b[j].key}
           N == Cardinality(places)
           rest == [n \in 1 .. N |-> LastWith(At(b, places)[n].key, b)]
           after == [n \in DOMAIN rest |-> Single("b", rest[n])]
           q == InOrder(places)
           L == Len(a)
<1>1. MergeWithProvenance(a, b, named) = [rows |-> made \o rest, log |-> first \o after]
  BY DEF MergeWithProvenance
<1>2. L \in Nat /\ DOMAIN a = 1 .. L /\ Len(b) \in Nat /\ DOMAIN b = 1 .. Len(b)
  BY TableIsList DEF IsClean
<1>3. \A i \in DOMAIN a : (\E s \in ToSet(b) : s.key = a[i].key) <=> a[i].key \in OwnKeys(b)
  BY DEF OwnKeys, ToSet
<1>4. meets = {i \in DOMAIN a : a[i].key \in OwnKeys(b)}
  <2>1. \A i \in DOMAIN a : a[i].key # NoKey
    BY CleanRows
  <2>2. \A i \in DOMAIN a : \A j \in 1 .. i - 1 : a[j].key # a[i].key
    <3> TAKE i \in DOMAIN a
    <3> TAKE j \in 1 .. i - 1
    <3>1. j \in DOMAIN a /\ j # i
      BY <1>2
    <3> QED BY <3>1 DEF IsClean, IsKeyed
  <2> QED BY <1>3, <2>1, <2>2 DEF Meeting
<1>5. met = OwnKeys(a) \cap OwnKeys(b)
  <2> HIDE DEF meets
  <2> QED BY <1>4 DEF OwnKeys
<1>6. places = {j \in DOMAIN b : b[j].key \notin OwnKeys(a)}
  <2>1. \A j \in DOMAIN b : \A l \in 1 .. j - 1 : b[l].key # b[j].key
    <3> TAKE j \in DOMAIN b
    <3> TAKE l \in 1 .. j - 1
    <3>1. l \in DOMAIN b /\ l # j
      BY <1>2
    <3> QED BY <3>1 DEF IsClean, IsKeyed
  <2>2. \A j \in DOMAIN b : b[j].key \in OwnKeys(b)
    BY DEF OwnKeys
  <2> HIDE DEF met
  <2> QED BY <1>5, <2>1, <2>2
<1>7. meets # {} => columns = Cols(a, b)
  <2> HIDE DEF meets
  <2>1. columns = MeetingColumns(a, b, meets)
    BY DEF MeetingColumns
  <2>2. meets # {} => MeetingColumns(a, b, meets) = Cols(a, b)
    <3> HIDE DEF columns
    <3> QED BY <1>4, ColumnsOfMeeting
  <2> QED BY <2>1, <2>2
<1> HIDE DEF columns, meets, met
<1>8. \A i \in DOMAIN a : /\ made[i] = JoinedRow(a, b, a[i].key, named)
                          /\ first[i] = JoinedRecord(a, b, a[i].key, named)
  <2> TAKE i \in DOMAIN a
  <2>1. a[i].key \in OwnKeys(a) /\ Row(a, a[i].key) = a[i]
    BY CleanRows DEF OwnKeys
  <2>2. CASE i \in meets
    <3>1. a[i].key \in OwnKeys(b)
      BY <1>4, <2>2
    <3>2. Row(b, a[i].key) = LastWith(a[i].key, b)
      BY <3>1, RowHasKey
    <3>3. first[i] = DecideRows(a[i], Row(b, a[i].key), Cols(a, b), named)
      BY <1>7, <2>2, <3>2
    <3>4. made[i] = RowOf(first[i])
      BY <2>2
    <3>5. made[i] = RowOf(DecideRows(a[i], Row(b, a[i].key), Cols(a, b), named))
      BY <3>3, <3>4
    <3> HIDE DEF made, first
    <3> QED BY <2>1, <3>1, <3>3, <3>5 DEF JoinedRow, JoinedRecord
  <2>3. CASE i \notin meets
    <3>1. a[i].key \notin OwnKeys(b)
      BY <1>4, <2>3
    <3>2. made[i] = a[i] /\ first[i] = Single("a", a[i])
      BY <2>3
    <3> HIDE DEF made, first
    <3> QED BY <2>1, <3>1, <3>2 DEF JoinedRow, JoinedRecord
  <2> QED BY <2>2, <2>3
<1>9. /\ N \in Nat
      /\ \A n \in 1 .. N : q[n] \in places /\ rest[n] = b[q[n]]
      /\ \A j \in places : \E n \in 1 .. N : q[n] = j
      /\ \A m, n \in 1 .. N : q[m] = q[n] => m = n
  <2> HIDE DEF places
  <2>1. places \subseteq DOMAIN b
    BY <1>6
  <2> QED BY <2>1, RestOfTable
<1>10. \A n \in 1 .. N : after[n] = Single("b", rest[n])
  OBVIOUS
<1>11. /\ made = [i \in 1 .. L |-> made[i]] /\ first = [i \in 1 .. L |-> first[i]]
       /\ rest = [n \in 1 .. N |-> rest[n]] /\ after = [n \in 1 .. N |-> after[n]]
  <2> HIDE DEF L, N, places
  <2> QED BY <1>2
<1> HIDE DEF q, N, made, first, rest, after, places, L
<1>12. \A n \in 1 .. N : /\ q[n] \in DOMAIN b /\ b[q[n]].key \notin OwnKeys(a)
                         /\ rest[n] = JoinedRow(a, b, b[q[n]].key, named)
                         /\ after[n] = JoinedRecord(a, b, b[q[n]].key, named)
  <2> TAKE n \in 1 .. N
  <2>1. q[n] \in DOMAIN b /\ b[q[n]].key \notin OwnKeys(a)
    BY <1>6, <1>9
  <2>2. b[q[n]].key \in OwnKeys(b) /\ Row(b, b[q[n]].key) = b[q[n]]
    BY <2>1, CleanRows DEF OwnKeys
  <2>3. rest[n] = b[q[n]] /\ after[n] = Single("b", b[q[n]])
    BY <1>9, <1>10
  <2> QED BY <2>1, <2>2, <2>3 DEF JoinedRow, JoinedRecord
<1>13. \A j \in DOMAIN b : b[j].key \notin OwnKeys(a) => \E n \in 1 .. N : q[n] = j
  BY <1>6, <1>9
<1> DEFINE S == {made[i] : i \in 1 .. L} \cup {rest[n] : n \in 1 .. N}
           T == {first[i] : i \in 1 .. L} \cup {after[n] : n \in 1 .. N}
<1>14. /\ \A i \in 1 .. L : made[i] \in S /\ first[i] \in T
       /\ \A n \in 1 .. N : rest[n] \in S /\ after[n] \in T
  OBVIOUS
<1> HIDE DEF S, T
<1>15. made \in Seq(S) /\ Len(made) = L
  BY <1>2, <1>11, <1>14, ListOf
<1>16. first \in Seq(T) /\ Len(first) = L
  BY <1>2, <1>11, <1>14, ListOf
<1>17. rest \in Seq(S) /\ Len(rest) = N
  BY <1>9, <1>11, <1>14, ListOf
<1>18. after \in Seq(T) /\ Len(after) = N
  BY <1>9, <1>11, <1>14, ListOf
<1>19. IsJoin([rows |-> made \o rest, log |-> first \o after], a, b, named)
  <2>1. L = Len(a)
    BY DEF L
  <2>2. ByFirst(a, b, named, made, first)
    BY <1>8 DEF ByFirst
  <2>3. N \in Nat /\ ByRest(a, b, named, N, q, rest, after)
    BY <1>9, <1>12, <1>13 DEF ByRest
  <2> QED BY <1>15, <1>16, <1>17, <1>18, <2>1, <2>2, <2>3, PlacesByKey
<1> QED BY <1>1, <1>19


LEMMA JoinedRows ==
    ASSUME NEW result, NEW a, NEW b, NEW named, IsJoin(result, a, b, named)
    PROVE  ToSet(result.rows) = {JoinedRow(a, b, k, named) : k \in OwnKeys(a) \cup OwnKeys(b)}
<1> DEFINE made == result.rows
           K == OwnKeys(a) \cup OwnKeys(b)
<1>1. /\ \A n \in DOMAIN made : /\ made[n].key \in K
                                /\ made[n] = JoinedRow(a, b, made[n].key, named)
      /\ \A k \in K : \E n \in DOMAIN made : made[n].key = k
  BY DEF IsJoin
<1> HIDE DEF made, K
<1>2. ToSet(made) = {JoinedRow(a, b, k, named) : k \in K}
  BY <1>1 DEF ToSet
<1> QED BY <1>2 DEF made, K

(* The log has one record of a key, at the place of the row. *)
LEMMA RecordOfRow ==
    ASSUME NEW result, NEW a, NEW b, NEW named, IsClean(a), IsClean(b),
           IsJoin(result, a, b, named), NEW i \in DOMAIN result.rows
    PROVE  /\ result.log[i].key = result.rows[i].key
           /\ LastWith(result.rows[i].key, result.log) = result.log[i]
<1> DEFINE made == result.rows
           log == result.log
<1>1. /\ DOMAIN log = DOMAIN made /\ DOMAIN made = 1 .. Len(made)
      /\ \A n \in DOMAIN made :
            /\ made[n].key \in OwnKeys(a) \cup OwnKeys(b)
            /\ log[n] = JoinedRecord(a, b, made[n].key, named)
      /\ \A m, n \in DOMAIN made : made[m].key = made[n].key => m = n
  BY DEF IsJoin, IsList
<1> HIDE DEF made, log
<1>2. \A n \in DOMAIN made : log[n].key = made[n].key
  BY <1>1, RecordHasKey
<1>3. i \in DOMAIN made
  BY DEF made
<1>4. {n \in DOMAIN log : log[n].key = made[i].key} = {i}
  BY <1>1, <1>2, <1>3
<1>5. LastWith(made[i].key, log) = log[i]
  <2>1. i \in Nat
    BY <1>1, <1>3
  <2> QED BY <1>4, <2>1, TheOnly DEF LastWith
<1> QED BY <1>2, <1>3, <1>5 DEF made, log

Left(result, i, side) ==
    IF result.log[i].origin = "merged" THEN Reconstruct(result.log[i], side) ELSE result.rows[i]

(* The rows of u are those of the result that are not of one side, with     *)
(* what is left of those that are of both.                                  *)
IsLeft(u, result, side) ==
    LET kept == {i \in DOMAIN result.rows : result.log[i].origin # side}
    IN /\ DOMAIN u \subseteq Nat
       /\ \A n \in DOMAIN u : \E i \in kept : u[n] = Left(result, i, side)
       /\ \A i \in kept : \E n \in DOMAIN u : u[n] = Left(result, i, side)

LEMMA UnmergeHolds ==
    ASSUME NEW result, NEW a, NEW b, NEW named, IsClean(a), IsClean(b),
           IsJoin(result, a, b, named), NEW side
    PROVE  IsLeft(Unmerge(result, side), result, side)
<1> DEFINE made == result.rows
           log == result.log
           P == {i \in DOMAIN made : LastWith(made[i].key, log).origin # side}
           u == At(made, P)
           row(r) == IF LastWith(r.key, log).origin = "merged"
                     THEN Reconstruct(LastWith(r.key, log), side) ELSE r
           w == [n \in DOMAIN u |-> row(u[n])]
           q == InOrder(P)
           N == Cardinality(P)
<1>1. Unmerge(result, side) = w
  BY DEF Unmerge
<1>2. \A i \in DOMAIN made : LastWith(made[i].key, log) = log[i]
  BY RecordOfRow
<1>3. Len(made) \in Nat /\ DOMAIN made = 1 .. Len(made)
  BY DEF IsJoin, IsList
<1>4. P = {i \in DOMAIN made : log[i].origin # side}
  BY <1>2
<1> DEFINE S == {made[i] : i \in P}
<1>5. AllIn(made, P, S)
  BY DEF AllIn
<1> HIDE DEF S
<1>6. Lists(u, q, made, P)
  <2> HIDE DEF P, made
  <2>1. P \subseteq 1 .. Len(made)
    BY <1>3, <1>4
  <2> QED BY <1>3, <1>5, <2>1, AtPlaces
<1>7. \A i \in DOMAIN made : row(made[i]) = Left(result, i, side)
  BY <1>2 DEF Left
<1> HIDE DEF q, u, P, made, log, row
<1>8. N \in Nat /\ DOMAIN u = 1 .. N
      /\ (\A n \in 1 .. N : q[n] \in P /\ u[n] = made[q[n]])
      /\ \A i \in P : \E n \in 1 .. N : q[n] = i
  <2>1. P \subseteq 1 .. Len(made)
    BY <1>3, <1>4
  <2>2. N \in Nat
    BY <1>3, <2>1, PlacesFinite
  <2> QED BY <1>6, <2>2 DEF Lists
<1> HIDE DEF N
<1>9. \A n \in 1 .. N : w[n] = Left(result, q[n], side)
  BY <1>4, <1>7, <1>8
<1>10. DOMAIN w = 1 .. N
  BY <1>8
<1> HIDE DEF w
<1>11. IsLeft(w, result, side)
  <2>1. \A n \in DOMAIN w : \E i \in P : w[n] = Left(result, i, side)
    BY <1>8, <1>9, <1>10
  <2>2. \A i \in P : \E n \in DOMAIN w : w[n] = Left(result, i, side)
    BY <1>8, <1>9, <1>10
  <2>3. DOMAIN w \subseteq Nat
    BY <1>8, <1>10
  <2> QED BY <1>4, <2>1, <2>2, <2>3 DEF IsLeft, made, log
<1> QED BY <1>1, <1>11

-----------------------------------------------------------------------------
(* What is left of a cell *)

Stays(d, side) == d.source # (IF side = "a" THEN "a_only" ELSE "b_only")

Cell(d, side) == IF d.source = "conflict_resolved" /\ side = "b" THEN d.lost ELSE d.value

LEMMA CellKept ==
    ASSUME NEW v, NEW w, NEW atV, NEW atW, NEW side \in Side, NEW d, d = Decide(v, w, atV, atW),
           ~ (d.source = "conflict_resolved" /\ d.value \in {v} \cup NaN), NEW keep,
           keep = IF side = "a" THEN w ELSE v
    PROVE  /\ Stays(d, side) /\ Cell(d, side) # None <=> keep # None
           /\ Stays(d, side) /\ Cell(d, side) # None => Cell(d, side) = keep
           /\ d.source = "conflict_resolved" =>
                /\ Stays(d, side) /\ Cell(d, side) # (IF side = "b" THEN d.value ELSE d.lost)
BY DEF Decide, Latest, Stays, Cell, Side

(* r, s: two rows with a key that the second wins *)
SecondWins(r, s, columns, named) ==
    \A c \in columns :
        LET d == Decide(LookUp(r.cells, c, None), LookUp(s.cells, c, None),
                        Float(r, named), Float(s, named))
        IN ~ (d.source = "conflict_resolved" /\ d.value \in {LookUp(r.cells, c, None)} \cup NaN)

LEMMA RowKept ==
    ASSUME NEW r, NEW s, r.key = s.key, NEW columns, NEW named, NEW side \in Side,
           DOMAIN r.cells \subseteq columns, DOMAIN s.cells \subseteq columns,
           SecondWins(r, s, columns, named), NEW record,
           record = DecideRows(r, s, columns, named)
    PROVE  /\ Shown(Reconstruct(record, side)) = Shown(IF side = "a" THEN s ELSE r)
           /\ \A c \in DOMAIN record.decisions :
                LET d == record.decisions[c]
                IN d.source = "conflict_resolved"
                     => LookUp(Reconstruct(record, side).cells, c, None)
                          # (IF side = "b" THEN d.value ELSE d.lost)
<1> DEFINE v(c) == LookUp(r.cells, c, None)
           w(c) == LookUp(s.cells, c, None)
           ds == [c \in columns |-> Decide(v(c), w(c), Float(r, named), Float(s, named))]
           keep == IF side = "a" THEN s ELSE r
           kept(c) == LookUp(keep.cells, c, None)
           stays == {c \in columns : Stays(ds[c], side)}
           cells == [c \in stays |-> Cell(ds[c], side)]
<1>1. record.key = r.key /\ record.decisions = ds
  BY DEF DecideRows
<1>2. Reconstruct(record, side) = [key |-> r.key, cells |-> cells]
  <2> HIDE DEF v, w
  <2> QED BY <1>1 DEF Reconstruct, Stays, Cell
<1>3. \A c \in columns :
        /\ Stays(ds[c], side) /\ Cell(ds[c], side) # None <=> kept(c) # None
        /\ Stays(ds[c], side) /\ Cell(ds[c], side) # None => Cell(ds[c], side) = kept(c)
        /\ ds[c].source = "conflict_resolved" =>
             /\ Stays(ds[c], side)
             /\ Cell(ds[c], side) # (IF side = "b" THEN ds[c].value ELSE ds[c].lost)
  <2> TAKE c \in columns
  <2>1. ds[c] = Decide(v(c), w(c), Float(r, named), Float(s, named))
    OBVIOUS
  <2>2. ~ (ds[c].source = "conflict_resolved" /\ ds[c].value \in {v(c)} \cup NaN)
    BY <2>1 DEF SecondWins
  <2>3. kept(c) = IF side = "a" THEN w(c) ELSE v(c)
    OBVIOUS
  <2> HIDE DEF ds, v, w, kept
  <2> QED BY <2>1, <2>2, <2>3, CellKept
<1>4. keep.key = r.key /\ DOMAIN keep.cells \subseteq columns
  OBVIOUS
<1>5. DOMAIN ds = columns
  OBVIOUS
<1> HIDE DEF ds, keep
<1>6. {c \in DOMAIN cells : cells[c] # None} = {c \in DOMAIN keep.cells : keep.cells[c] # None}
  BY <1>3, <1>4 DEF LookUp
<1>7. \A c \in {c \in DOMAIN cells : cells[c] # None} : cells[c] = keep.cells[c]
  BY <1>3, <1>4 DEF LookUp
<1>8. \A c \in columns : ds[c].source = "conflict_resolved"
        => LookUp(cells, c, None) # (IF side = "b" THEN ds[c].value ELSE ds[c].lost)
  BY <1>3 DEF LookUp
<1> HIDE DEF cells
<1>9. Shown([key |-> r.key, cells |-> cells]) = Shown(keep)
  BY <1>4, <1>6, <1>7 DEF Shown, Restrict
<1> QED BY <1>1, <1>2, <1>5, <1>8, <1>9 DEF keep


WonBy(a, record) ==
    \E r \in ToSet(a), c \in DOMAIN record.decisions :
        /\ r.key = record.key /\ record.decisions[c].source = "conflict_resolved"
        /\ record.decisions[c].value \in {LookUp(r.cells, c, None)} \cup NaN

(* The row left says what the row of its key in the source that stays says, *)
(* and nothing that the other source won or lost with.                      *)
IsKept(result, i, side, t) ==
    LET k == result.rows[i].key
    IN /\ k \in OwnKeys(t) /\ Left(result, i, side).key = k
       /\ Shown(Left(result, i, side)) = Shown(Row(t, k))
       /\ \A c \in DOMAIN result.log[i].decisions :
            LET d == result.log[i].decisions[c]
            IN d.source = "conflict_resolved"
                 => LookUp(Left(result, i, side).cells, c, None)
                      # (IF side = "b" THEN d.value ELSE d.lost)

LEMMA LeftIsKept ==
    ASSUME NEW result, NEW a, NEW b, NEW named, IsClean(a), IsClean(b),
           IsJoin(result, a, b, named), NEW i \in DOMAIN result.rows, NEW side \in Side,
           NEW t, t = IF side = "a" THEN b ELSE a, ~ WonBy(a, result.log[i])
    PROVE  /\ result.log[i].origin # side <=> result.rows[i].key \in OwnKeys(t)
           /\ result.log[i].origin # side => IsKept(result, i, side, t)
<1> DEFINE k == result.rows[i].key
           record == result.log[i]
           row == result.rows[i]
<1>1. /\ k \in OwnKeys(a) \cup OwnKeys(b)
      /\ row = JoinedRow(a, b, k, named) /\ record = JoinedRecord(a, b, k, named)
  BY DEF IsJoin
<1>2. record.key = k
  BY RecordOfRow
<1> HIDE DEF k, record, row
<1>3. ASSUME NEW x, NEW o, o # "merged", k \in OwnKeys(x), row = Row(x, k), IsClean(x),
             record = Single(o, row), t = x
      PROVE  IsKept(result, i, side, t)
  <2>1. row.key = k
    BY <1>3, RowHasKey
  <2>2. record.origin = o /\ DOMAIN record.decisions = {}
    BY <1>3 DEF Single, EmptyDict
  <2>3. Left(result, i, side) = row
    BY <1>3, <2>2 DEF Left, record, row
  <2> QED BY <1>3, <2>1, <2>2, <2>3 DEF IsKept, record, k
<1>4. CASE k \notin OwnKeys(b)
  <2>1. k \in OwnKeys(a) /\ row = Row(a, k) /\ record = Single("a", row)
    BY <1>1, <1>4 DEF JoinedRow, JoinedRecord
  <2>2. record.origin = "a"
    BY <2>1 DEF Single
  <2>3. CASE side = "a"
    BY <1>4, <2>2, <2>3 DEF record, k
  <2>4. CASE side = "b"
    <3>1. t = a
      BY <2>4
    <3>2. IsKept(result, i, side, t)
      BY <1>3, <2>1, <3>1
    <3> QED BY <2>1, <2>2, <2>4, <3>1, <3>2 DEF record, k
  <2> QED BY <2>3, <2>4 DEF Side
<1>5. CASE k \notin OwnKeys(a)
  <2>1. k \in OwnKeys(b) /\ row = Row(b, k) /\ record = Single("b", row)
    BY <1>1, <1>5 DEF JoinedRow, JoinedRecord
  <2>2. record.origin = "b"
    BY <2>1 DEF Single
  <2>3. CASE side = "b"
    <3>1. t = a
      BY <2>3
    <3> QED BY <1>5, <2>2, <2>3, <3>1 DEF record, k
  <2>4. CASE side = "a"
    <3>1. t = b
      BY <2>4
    <3>2. IsKept(result, i, side, t)
      BY <1>3, <2>1, <3>1
    <3> QED BY <2>1, <2>2, <2>4, <3>1, <3>2 DEF record, k
  <2> QED BY <2>3, <2>4 DEF Side
<1>6. CASE k \in OwnKeys(a) /\ k \in OwnKeys(b)
  <2> DEFINE r == Row(a, k)
             s == Row(b, k)
             columns == Cols(a, b)
             remains == Reconstruct(record, side)
             kept == IF side = "a" THEN s ELSE r
  <2>1. record = DecideRows(r, s, columns, named)
    BY <1>1, <1>6 DEF JoinedRecord
  <2>2. r.key = k /\ s.key = k
    BY <1>6, RowHasKey
  <2>3. DOMAIN r.cells \subseteq columns /\ DOMAIN s.cells \subseteq columns
    BY <1>6, RowHasKey, UniformColumns DEF Cols
  <2>4. r \in ToSet(a)
    BY <1>6, RowHasKey DEF ToSet
  <2>5. SecondWins(r, s, columns, named)
    <3> SUFFICES ASSUME NEW c \in columns, NEW d,
                        d = Decide(LookUp(r.cells, c, None), LookUp(s.cells, c, None),
                                   Float(r, named), Float(s, named)),
                        d.source = "conflict_resolved" /\ d.value \in {LookUp(r.cells, c, None)} \cup NaN
                 PROVE  FALSE
      BY DEF SecondWins
    <3>1. c \in DOMAIN record.decisions /\ record.decisions[c] = d
      <4> HIDE DEF r, s, columns
      <4> QED BY <2>1 DEF DecideRows
    <3> HIDE DEF r, s, columns
    <3> QED BY <1>2, <2>2, <2>4, <3>1 DEF WonBy, record
  <2>6. record.origin = "merged" /\ record.key = k
    BY <1>2, <2>1 DEF DecideRows
  <2>7. remains.key = k
    BY <2>6 DEF Reconstruct
  <2> HIDE DEF r, s, columns, remains
  <2>8. /\ Shown(remains) = Shown(kept)
        /\ \A c \in DOMAIN record.decisions :
             LET d == record.decisions[c]
             IN d.source = "conflict_resolved"
                  => LookUp(remains.cells, c, None) # (IF side = "b" THEN d.value ELSE d.lost)
    BY <2>1, <2>2, <2>3, <2>5, RowKept DEF remains
  <2>9. Left(result, i, side) = remains
    BY <2>6 DEF Left, record, remains
  <2>10. kept = Row(t, k) /\ k \in OwnKeys(t)
    BY <1>6 DEF r, s
  <2>11. record.origin # side
    BY <2>6 DEF Side
  <2> HIDE DEF kept
  <2> QED BY <2>7, <2>8, <2>9, <2>10, <2>11 DEF IsKept, record, k
<1> QED BY <1>1, <1>4, <1>5, <1>6

(* VerifyUnmerge, for a record *)
Verifies(made, side, record) ==
    LET found == {i \in DOMAIN made : made[i].key = record.key}
    IN found # {} =>
         /\ record.origin # side
         /\ \A c \in DOMAIN record.decisions :
              LET d == record.decisions[c]
                  removed == IF side = "b" THEN d.value ELSE d.lost
              IN d.source = "conflict_resolved" /\ removed \notin NaN
                   => LookUp(made[Min(found)].cells, c, None) # removed

(* What is remains is the source that stays. *)
LEMMA LeftRestores ==
    ASSUME NEW result, NEW a, NEW b, NEW named, IsClean(a), IsClean(b),
           IsJoin(result, a, b, named), NEW side \in Side,
           NEW t, t = IF side = "a" THEN b ELSE a,
           \A record \in ToSet(result.log) : ~ WonBy(a, record),
           NEW u, IsLeft(u, result, side)
    PROVE  AllShown(u) = AllShown(t) /\ VerifyUnmerge(u, side, result.log)
<1> DEFINE made == result.rows
           log == result.log
           kept == {i \in DOMAIN made : log[i].origin # side}
<1>1. /\ DOMAIN log = DOMAIN made
      /\ \A k \in OwnKeys(t) : \E i \in DOMAIN made : made[i].key = k
      /\ \A i, j \in DOMAIN made : made[i].key = made[j].key => i = j
  BY DEF IsJoin
<1>2. \A i \in DOMAIN made : ~ WonBy(a, log[i])
  BY <1>1 DEF ToSet
<1>3. \A i \in DOMAIN made : /\ log[i].origin # side <=> made[i].key \in OwnKeys(t)
                             /\ log[i].origin # side => IsKept(result, i, side, t)
                             /\ log[i].key = made[i].key
  BY <1>2, LeftIsKept, RecordOfRow
<1>4. /\ DOMAIN u \subseteq Nat
      /\ \A n \in DOMAIN u : \E i \in kept : u[n] = Left(result, i, side)
      /\ \A i \in kept : \E n \in DOMAIN u : u[n] = Left(result, i, side)
  BY DEF IsLeft
<1>5. IsClean(t)
  OBVIOUS
<1> HIDE DEF made, log
<1>6. \A i \in kept : /\ made[i].key \in OwnKeys(t)
                      /\ Left(result, i, side).key = made[i].key
                      /\ Shown(Left(result, i, side)) = Shown(Row(t, made[i].key))
  BY <1>3 DEF IsKept, made
<1>7. AllShown(u) = AllShown(t)
  <2>1. ASSUME NEW n \in DOMAIN u
        PROVE  \E j \in DOMAIN t : Shown(u[n]) = Shown(t[j])
    <3>1. PICK i \in kept : u[n] = Left(result, i, side)
      BY <1>4
    <3>2. PICK j \in DOMAIN t : Row(t, made[i].key) = t[j]
      BY <1>5, <1>6, RowHasKey
    <3> QED BY <1>6, <3>1, <3>2
  <2>2. ASSUME NEW j \in DOMAIN t
        PROVE  \E n \in DOMAIN u : Shown(u[n]) = Shown(t[j])
    <3>1. t[j].key \in OwnKeys(t) /\ Row(t, t[j].key) = t[j]
      BY <1>5, CleanRows DEF OwnKeys
    <3>2. PICK i \in DOMAIN made : made[i].key = t[j].key
      BY <1>1, <3>1
    <3>3. i \in kept
      BY <1>3, <3>1, <3>2
    <3> QED BY <1>4, <1>6, <3>1, <3>2, <3>3
  <2>3. AllShown(u) = {Shown(u[n]) : n \in DOMAIN u} /\ AllShown(t) = {Shown(t[j]) : j \in DOMAIN t}
    BY DEF AllShown, ToSet
  <2> QED BY <2>1, <2>2, <2>3
<1>8. VerifyUnmerge(u, side, log)
  <2>10. VerifyUnmerge(u, side, log) <=> \A record \in ToSet(log) : Verifies(u, side, record)
    BY DEF VerifyUnmerge, Verifies
  <2>11. SUFFICES ASSUME NEW i \in DOMAIN made PROVE Verifies(u, side, log[i])
    BY <1>1, <2>10 DEF ToSet
  <2> DEFINE found == {n \in DOMAIN u : u[n].key = log[i].key}
  <2>12. SUFFICES ASSUME found # {}
                  PROVE  /\ log[i].origin # side
                         /\ \A c \in DOMAIN log[i].decisions :
                              LET d == log[i].decisions[c]
                              IN d.source = "conflict_resolved"
                                   => LookUp(u[Min(found)].cells, c, None)
                                        # (IF side = "b" THEN d.value ELSE d.lost)
    BY DEF Verifies
  <2>1. Min(found) \in found
    <3>1. found \subseteq Nat
      BY <1>4
    <3>2. PICK m \in found : \A y \in Nat : y < m => y \notin found
      BY <2>12, <3>1, Listed!Least
    <3>3. \A y \in found : m <= y
      BY <3>1, <3>2
    <3> QED BY <3>2, <3>3 DEF Min
  <2> DEFINE n == Min(found)
  <2>2. n \in DOMAIN u /\ u[n].key = made[i].key
    BY <1>3, <2>1
  <2> HIDE DEF n
  <2>3. PICK j \in kept : u[n] = Left(result, j, side)
    BY <1>4, <2>2
  <2>4. j = i
    BY <1>1, <1>6, <2>2, <2>3
  <2>5. IsKept(result, i, side, t)
    BY <1>3, <2>3, <2>4
  <2>6. \A c \in DOMAIN log[i].decisions :
          LET d == log[i].decisions[c]
          IN d.source = "conflict_resolved"
               => LookUp(u[n].cells, c, None) # (IF side = "b" THEN d.value ELSE d.lost)
    BY <2>3, <2>4, <2>5 DEF IsKept, log
  <2> QED BY <2>3, <2>4, <2>6 DEF n
<1> QED BY <1>7, <1>8 DEF log

-----------------------------------------------------------------------------
(* Merges with provenance, and what is left of them *)

ProvenanceInv ==
    /\ given \in [a : TableA, b : TableB, named : BOOLEAN]
    /\ joined \subseteq {MergeWithProvenance(given.a, given.b, given.named)}
    /\ joined # {} => ~ Raises(given.a, given.b, given.named)
    /\ DOMAIN cleaned \subseteq Side
    /\ joined = {} => DOMAIN cleaned = {}
    /\ \A side \in DOMAIN cleaned, result \in joined : cleaned[side] = Unmerge(result, side)

LEMMA ProvenanceInvHolds == ProvenanceSpec => []ProvenanceInv
<1>1. ProvenanceInit => ProvenanceInv
  BY DEF ProvenanceInit, ProvenanceInv, EmptyDict
<1>2. ASSUME ProvenanceInv, MergeSources
      PROVE  ProvenanceInv'
  BY <1>2 DEF ProvenanceInv, MergeSources
<1>3. ASSUME ProvenanceInv, NEW side \in Side, RemoveSource(side)
      PROVE  ProvenanceInv'
  <2>1. PICK result \in joined : cleaned' = Put(cleaned, side, Unmerge(result, side))
    BY <1>3 DEF RemoveSource
  <2>2. given' = given /\ joined' = joined
    BY <1>3 DEF RemoveSource
  <2>3. joined = {result}
    BY <1>3, <2>1 DEF ProvenanceInv
  <2>4. /\ DOMAIN cleaned' = DOMAIN cleaned \cup {side}
        /\ \A x \in DOMAIN cleaned' :
             cleaned'[x] = IF x = side THEN Unmerge(result, side) ELSE cleaned[x]
    BY <2>1 DEF Put
  <2> QED BY <1>3, <2>2, <2>3, <2>4 DEF ProvenanceInv
<1>4. ProvenanceInv /\ [ProvenanceNext]_provenanceVars => ProvenanceInv'
  <2>1. ProvenanceInv /\ UNCHANGED provenanceVars => ProvenanceInv'
    BY DEF ProvenanceInv, provenanceVars
  <2> QED BY <1>2, <1>3, <2>1 DEF ProvenanceNext
<1> QED BY <1>1, <1>4, PTL DEF ProvenanceSpec

LEMMA CleanTables ==
    ASSUME ProvenanceInv, Clean
    PROVE  IsClean(given.a) /\ IsClean(given.b)
BY ProvenanceAssumption DEF ProvenanceInv, ProvenanceAssumption, Clean, IsClean

(* Both read the same times, or the same order of texts.                    *)
ReadSame(v, w, timed, atV, atW, fromV, fromW) ==
    IF timed THEN atV = fromV /\ atW = fromW
    ELSE /\ fromV = 0 /\ fromW = 0
         /\ v # None /\ w # None /\ Norm[v] # Norm[w]
              => (Text[v] >= Text[w] <=> Text[Norm[v]] >= Text[Norm[w]])

(* The two decisions about a cell come to the same, up to normal forms.     *)
LEMMA CellAgrees ==
    ASSUME NEW v \in Value \cup {None}, NEW w \in Value \cup {None}, NEW timed \in BOOLEAN,
           NEW atV, NEW atW, NEW fromV, NEW fromW,
           ReadSame(v, w, timed, atV, atW, fromV, fromW),
           NEW x, x = Decide(v, w, fromV, fromW).value,
           NEW y, y = MergeCell(v, w, timed, atV, atW)
    PROVE  (x = None <=> y = None) /\ (x # None => Norm[x] = Norm[y])
<1>1. CASE v = None \/ w = None
  BY <1>1 DEF Decide, MergeCell, Latest
<1>2. CASE v # None /\ w # None /\ Norm[v] = Norm[w]
  <2>1. y = v
    BY <1>2 DEF MergeCell
  <2>2. x \in {v, w}
    BY <1>2 DEF Decide, Latest
  <2> QED BY <1>2, <2>1, <2>2
<1>3. CASE v # None /\ w # None /\ Norm[v] # Norm[w]
  <2>1. x = Latest(v, w, fromV, fromW)
    BY <1>3 DEF Decide
  <2>2. x \in {v, w}
    BY <2>1 DEF Latest
  <2>3. CASE timed
    <3>1. y = Latest(v, w, atV, atW)
      BY <1>3, <2>3 DEF MergeCell
    <3> QED BY <1>3, <2>1, <2>2, <2>3, <3>1 DEF ReadSame
  <2>4. CASE ~ timed
    <3>1. y = IF Text[Norm[v]] >= Text[Norm[w]] THEN v ELSE w
      BY <1>3, <2>4 DEF MergeCell
    <3>2. x = IF Text[v] >= Text[w] THEN v ELSE w
      BY <2>1, <2>4 DEF Latest, ReadSame
    <3> QED BY <1>3, <2>2, <2>4, <3>1, <3>2 DEF ReadSame
  <2> QED BY <2>3, <2>4
<1> QED BY <1>1, <1>2, <1>3

SameReading(r, s, named) ==
    IF named
    THEN \A x \in {r, s} : IsFloat(x) /\ SameTimes({x})
    ELSE SameOrder({r, s})

LEMMA FloatIsStamp ==
    ASSUME NEW r, IsFloat(r), SameTimes({r})
    PROVE  Float(r, TRUE) = Stamp(r, TRUE)
<1>1. CASE TimeColumn \in DOMAIN r.cells
  <2>1. r.cells[TimeColumn] \in DOMAIN Number
    BY <1>1 DEF IsFloat
  <2>2. r.cells[TimeColumn] # None
    BY <2>1, ProvenanceAssumption, TablesAssumption DEF ProvenanceAssumption, TablesAssumption
  <2>3. Number[r.cells[TimeColumn]] = Moment[r.cells[TimeColumn]]
    BY <1>1 DEF SameTimes
  <2> QED BY <1>1, <2>2, <2>3 DEF Float, Stamp, LookUp
<1>2. CASE TimeColumn \notin DOMAIN r.cells
  BY <1>2 DEF Float, Stamp, LookUp
<1> QED BY <1>1, <1>2

HasCells(r) == \A c \in DOMAIN r.cells : r.cells[c] \in Value \cup {None}

LEMMA RowAgrees ==
    ASSUME NEW r, NEW s, HasCells(r), HasCells(s), NEW named \in BOOLEAN, SameReading(r, s, named),
           NEW columns
    PROVE  Form(RowOf(DecideRows(r, s, columns, named))) = Form(MergeRows(r, s, columns, named))
<1> DEFINE v(c) == LookUp(r.cells, c, None)
           w(c) == LookUp(s.cells, c, None)
           d(c) == Decide(v(c), w(c), Float(r, named), Float(s, named))
           x == [c \in columns |-> d(c).value]
           y == [c \in columns |-> MergeCell(v(c), w(c), named, Stamp(r, named), Stamp(s, named))]
           ds == [c \in columns |-> d(c)]
<1>1. named => Float(r, named) = Stamp(r, named) /\ Float(s, named) = Stamp(s, named)
  BY FloatIsStamp DEF SameReading
<1>2. ~ named => Float(r, named) = 0 /\ Float(s, named) = 0
  BY DEF Float
<1>3. \A c \in columns : v(c) \in Value \cup {None} /\ w(c) \in Value \cup {None}
  BY DEF HasCells, LookUp
<1>4. ASSUME NEW c \in columns, ~ named, v(c) # None, w(c) # None, Norm[v(c)] # Norm[w(c)]
      PROVE  Text[v(c)] >= Text[w(c)] <=> Text[Norm[v(c)]] >= Text[Norm[w(c)]]
  <2>1. v(c) \in Value /\ \E e \in DOMAIN r.cells : r.cells[e] = v(c)
    BY <1>3, <1>4 DEF LookUp
  <2>2. w(c) \in Value /\ \E e \in DOMAIN s.cells : s.cells[e] = w(c)
    BY <1>3, <1>4 DEF LookUp
  <2>3. SameOrder({r, s})
    BY <1>4 DEF SameReading
  <2> HIDE DEF v, w
  <2> QED BY <1>4, <2>1, <2>2, <2>3 DEF SameOrder
<1> HIDE DEF v, w
<1>5. ASSUME NEW c \in columns
      PROVE  (x[c] = None <=> y[c] = None) /\ (x[c] # None => Norm[x[c]] = Norm[y[c]])
  <2>1. x[c] = Decide(v(c), w(c), Float(r, named), Float(s, named)).value
    OBVIOUS
  <2>2. y[c] = MergeCell(v(c), w(c), named, Stamp(r, named), Stamp(s, named))
    OBVIOUS
  <2> HIDE DEF x, y
  <2>3. ReadSame(v(c), w(c), named, Stamp(r, named), Stamp(s, named),
                 Float(r, named), Float(s, named))
    BY <1>1, <1>2, <1>4 DEF ReadSame
  <2>5. v(c) \in Value \cup {None} /\ w(c) \in Value \cup {None}
    BY <1>3
  <2> QED BY <2>1, <2>2, <2>3, <2>5, CellAgrees
<1>6. DecideRows(r, s, columns, named) = [key |-> r.key, origin |-> "merged", decisions |-> ds]
  BY DEF DecideRows, v, w
<1>7. MergeRows(r, s, columns, named) = [key |-> r.key, cells |-> y]
  BY DEF MergeRows, v, w
<1>8. [c \in DOMAIN ds |-> ds[c].value] = x
  <2> HIDE DEF d
  <2> QED OBVIOUS
<1>9. DOMAIN x = columns /\ DOMAIN y = columns
  OBVIOUS
<1> HIDE DEF x, y, ds
<1>10. RowOf(DecideRows(r, s, columns, named)) = [key |-> r.key, cells |-> x]
  BY <1>6, <1>8 DEF RowOf
<1>11. {c \in DOMAIN x : x[c] # None} = {c \in DOMAIN y : y[c] # None}
  BY <1>5, <1>9
<1>12. [c \in {e \in DOMAIN x : x[e] # None} |-> Norm[x[c]]]
         = [c \in {e \in DOMAIN y : y[e] # None} |-> Norm[y[c]]]
  BY <1>5, <1>9, <1>11
<1> QED BY <1>7, <1>10, <1>12 DEF Form

(* What both need to read the same *)
SameInput(a, b, named) ==
    LET all == ToSet(a) \cup ToSet(b)
    IN IF named THEN SameTimes(all) ELSE ~ IsTimed(a, b, FALSE) /\ SameOrder(all)

LEMMA JoinIsMerge ==
    ASSUME NEW a, NEW b, IsClean(a), IsClean(b), NEW named \in BOOLEAN,
           SameInput(a, b, named), ~ Raises(a, b, named),
           NEW result, IsJoin(result, a, b, named)
    PROVE  Forms(result.rows) = Forms(MergeTables(a, b, named))
<1> DEFINE timed == IsTimed(a, b, named)
           K == OwnKeys(a) \cup OwnKeys(b)
<1>1. timed = named
  BY DEF IsTimed, SameInput
<1>2. ASSUME NEW k \in OwnKeys(a) \cap OwnKeys(b)
      PROVE  Form(RowOf(DecideRows(Row(a, k), Row(b, k), Cols(a, b), named)))
               = Form(MergeRows(Row(a, k), Row(b, k), Cols(a, b), named))
  <2> DEFINE r == Row(a, k)
             s == Row(b, k)
  <2>1. PICK i \in DOMAIN a : a[i].key = k /\ r = a[i]
    BY RowHasKey
  <2>2. PICK j \in DOMAIN b : b[j].key = k /\ s = b[j] /\ LastWith(k, b) = b[j]
    BY RowHasKey
  <2>3. r \in ToSet(a) /\ s \in ToSet(b)
    BY <2>1, <2>2 DEF ToSet
  <2>4. HasCells(r) /\ HasCells(s)
    BY <2>3 DEF HasCells, IsClean, IsTable
  <2>5. i \in Meeting(a, b)
    <3>1. a[i].key # NoKey
      BY CleanRows
    <3>2. \E x \in ToSet(b) : x.key = a[i].key
      BY <2>1, <2>2 DEF ToSet
    <3>3. \A l \in 1 .. i - 1 : a[l].key # a[i].key
      <4> TAKE l \in 1 .. i - 1
      <4>1. Len(a) \in Nat /\ DOMAIN a = 1 .. Len(a)
        BY TableIsList DEF IsClean
      <4>2. l \in DOMAIN a /\ l # i
        BY <4>1
      <4> QED BY <4>2 DEF IsClean, IsKeyed
    <3> QED BY <3>1, <3>2, <3>3 DEF Meeting
  <2>6. named => IsFloat(r) /\ IsFloat(s)
    BY <2>1, <2>2, <2>5 DEF Raises
  <2> HIDE DEF r, s
  <2>7. SameReading(r, s, named)
    <3>1. CASE named
      BY <2>3, <2>6, <3>1 DEF SameReading, SameInput, SameTimes
    <3>2. CASE ~ named
      BY <2>3, <3>2 DEF SameReading, SameInput, SameOrder
    <3> QED BY <3>1, <3>2
  <2> QED BY <2>4, <2>7, RowAgrees DEF r, s
<1>3. \A k \in K : Form(JoinedRow(a, b, k, named)) = Form(MergedRow(a, b, k, named))
  BY <1>2 DEF JoinedRow, MergedRow, Cols
<1>4. ToSet(result.rows) = {JoinedRow(a, b, k, named) : k \in K}
  BY JoinedRows
<1>5. ToSet(MergeTables(a, b, named)) = {MergedRow(a, b, k, timed) : k \in K}
  BY MergeTablesHolds
<1> HIDE DEF timed, K
<1> QED BY <1>1, <1>3, <1>4, <1>5 DEF Forms

(* merge_with_provenance comes to the rows of merge(), up to normal forms,  *)
(* for any tables whose keys identify their rows, rows of a table having    *)
(* the same columns: with a named timestamp column where float() and        *)
(* _parse_timestamp() read the same, and without timestamps where normal    *)
(* forms are in the order of the texts.                                     *)
THEOREM ProvenanceAgreesWithMerge == ProvenanceSpec => []ProvenanceIsMerge
<1>1. ASSUME ProvenanceInv
      PROVE  ProvenanceIsMerge
  <2> SUFFICES ASSUME NEW result \in joined, Clean, SameInput(given.a, given.b, given.named)
               PROVE  Forms(result.rows) = Forms(MergeTables(given.a, given.b, given.named))
    BY DEF ProvenanceIsMerge, SameInput
  <2>1. IsClean(given.a) /\ IsClean(given.b)
    BY <1>1, CleanTables
  <2>2. /\ result = MergeWithProvenance(given.a, given.b, given.named) /\ given.named \in BOOLEAN
        /\ ~ Raises(given.a, given.b, given.named)
    BY <1>1 DEF ProvenanceInv
  <2>3. IsJoin(result, given.a, given.b, given.named)
    BY <2>1, <2>2, JoinHolds
  <2> QED BY <2>1, <2>2, <2>3, JoinIsMerge
<1> QED BY <1>1, ProvenanceInvHolds, PTL

(* What unmerge leaves of a merge of such tables is the source that was not *)
(* removed, row by row, and verify_unmerge agrees, if the second source won *)
(* all conflicts and with no NaN.                                           *)
THEOREM UnmergeRestoresTheOther == ProvenanceSpec => []UnmergeRestores
<1>1. ASSUME ProvenanceInv
      PROVE  UnmergeRestores
  <2> SUFFICES ASSUME NEW side \in DOMAIN cleaned, NEW result \in joined, Clean,
                      \A record \in ToSet(result.log) : ~ Misread(record)
               PROVE  /\ AllShown(cleaned[side]) = AllShown(KeptBy(side))
                      /\ VerifyUnmerge(cleaned[side], side, result.log)
    BY DEF UnmergeRestores
  <2> DEFINE a == given.a
             b == given.b
             t == KeptBy(side)
             u == cleaned[side]
  <2>1. IsClean(a) /\ IsClean(b)
    BY <1>1, CleanTables
  <2>2. result = MergeWithProvenance(a, b, given.named) /\ u = Unmerge(result, side) /\ side \in Side
    BY <1>1 DEF ProvenanceInv
  <2>3. \A record \in ToSet(result.log) : ~ WonBy(a, record)
    BY DEF WonBy, Misread
  <2>4. t = IF side = "a" THEN b ELSE a
    BY DEF KeptBy
  <2> HIDE DEF a, b, t, u
  <2>5. IsJoin(result, a, b, given.named)
    BY <2>1, <2>2, JoinHolds
  <2>6. IsLeft(u, result, side)
    BY <2>1, <2>2, <2>5, UnmergeHolds
  <2>7. AllShown(u) = AllShown(t) /\ VerifyUnmerge(u, side, result.log)
    BY <2>1, <2>2, <2>3, <2>4, <2>5, <2>6, LeftRestores
  <2> QED BY <2>7 DEF t, u
<1> QED BY <1>1, ProvenanceInvHolds, PTL

=============================================================================
