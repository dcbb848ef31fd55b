------------------------------ MODULE Folding ------------------------------
(***************************************************************************)
(* What a fold over a finite set of indices computes, step by step, for an *)
(* operator and an order of the indices that are parameters, and what the  *)
(* lists of Listing hold: lemmas for the proofs about definitions that     *)
(* fold or list.                                                           *)
(***************************************************************************)
EXTENDS Listing, FiniteSetTheorems, WellFoundedInduction, TLAPS

CONSTANTS
    Op(_, _),    \* the result so far, and one more element
    Ch(_)        \* the index of a set that comes last

(* MapThenFoldSet of the community modules, for a function of the indices   *)
FoldOver(base, fun, S) ==
    LET iter[s \in SUBSET S] ==
          IF s = {} THEN base
          ELSE Op(iter[s \ {Ch(s)}], fun[Ch(s)])
    IN iter[S]

Chooses(S) == IsFiniteSet(S) /\ \A s \in SUBSET S : s # {} => Ch(s) \in s

IsFold(f, base, fun, S) ==
    f = [s \in SUBSET S |->
           IF s = {} THEN base ELSE Op(f[s \ {Ch(s)}], fun[Ch(s)])]

-----------------------------------------------------------------------------
LEMMA Least ==
    ASSUME NEW T, T \subseteq Nat, T # {}
    PROVE  \E x \in T : \A y \in Nat : y < x => y \notin T
<1> DEFINE R == OpToRel(<, Nat)
<1>1. IsWellFoundedOn(R, Nat)
  BY NatLessThanWellFounded, Zenon DEF R
<1>2. \A x, y \in Nat : y < x => <<y, x>> \in R
  BY Zenon DEF R, OpToRel
<1> HIDE DEF R
<1>3. PICK x \in T : \A y \in T : ~ (<<y, x>> \in R)
  BY <1>1, WFMin
<1> QED BY <1>2, <1>3

LEMMA SmallerSet ==
    ASSUME NEW s, IsFiniteSet(s), NEW x \in s
    PROVE  /\ IsFiniteSet(s \ {x})
           /\ Cardinality(s) \in Nat /\ Cardinality(s \ {x}) \in Nat
           /\ Cardinality(s) = Cardinality(s \ {x}) + 1
<1>1. /\ IsFiniteSet(s \ {x})
      /\ Cardinality(s \ {x}) = Cardinality(s) - 1
  BY FS_RemoveElement
<1>2. Cardinality(s) \in Nat /\ Cardinality(s \ {x}) \in Nat
  BY <1>1, FS_CardinalityType
<1> QED BY <1>1, <1>2

(* The fold as a function on the sets of at most n elements, for every n    *)
LEMMA FoldExists ==
    ASSUME NEW base, NEW fun, NEW S, Chooses(S)
    PROVE  \E f : IsFold(f, base, fun, S)
<1> DEFINE
      UpTo(n) == {s \in SUBSET S : Cardinality(s) <= n}
      Part(f, n) == f = [s \in UpTo(n) |->
                           IF s = {} THEN base ELSE Op(f[s \ {Ch(s)}], fun[Ch(s)])]
      Bad == {n \in Nat : ~ \E f : Part(f, n)}
<1>1. \A s \in SUBSET S : IsFiniteSet(s) /\ Cardinality(s) \in Nat
  BY FS_Subset, FS_CardinalityType DEF Chooses
<1>2. \A s \in SUBSET S : s # {} =>
        /\ Ch(s) \in s
        /\ s \ {Ch(s)} \in SUBSET S
        /\ Cardinality(s) = Cardinality(s \ {Ch(s)}) + 1
  BY <1>1, SmallerSet DEF Chooses
<1>3. ASSUME NEW n \in Bad, \A m \in Nat : m < n => m \notin Bad
      PROVE  FALSE
  <2>1. CASE n = 0
    <3>1. ASSUME NEW s \in SUBSET S, Cardinality(s) <= 0
          PROVE  s = {}
      <4>1. CASE s # {}
        <5>1. /\ s \ {Ch(s)} \in SUBSET S
              /\ Cardinality(s) = Cardinality(s \ {Ch(s)}) + 1
          BY <4>1, <1>2
        <5>2. Cardinality(s \ {Ch(s)}) \in Nat
          BY <5>1, <1>1
        <5> QED BY <3>1, <5>1, <5>2
      <4> QED BY <4>1
    <3> DEFINE f == [s \in UpTo(0) |-> base]
    <3>2. f = [s \in UpTo(0) |-> IF s = {} THEN base ELSE Op(f[s \ {Ch(s)}], fun[Ch(s)])]
      BY <3>1
    <3> QED BY <3>2, <2>1
  <2>2. CASE n # 0
    <3>1. n - 1 \in Nat /\ n - 1 \notin Bad
      <4>1. n \in Nat
        OBVIOUS
      <4> HIDE DEF Bad
      <4> QED BY <4>1, <1>3, <2>2
    <3>2. PICK g : Part(g, n - 1)
      BY <3>1
    <3> DEFINE f == [s \in UpTo(n) |->
                       IF s = {} THEN base ELSE Op(g[s \ {Ch(s)}], fun[Ch(s)])]
    <3>3. ASSUME NEW s \in UpTo(n - 1)
          PROVE  s \in UpTo(n) /\ f[s] = g[s]
      <4>1. s \in UpTo(n)
        BY <1>1
      <4>2. g[s] = IF s = {} THEN base ELSE Op(g[s \ {Ch(s)}], fun[Ch(s)])
        BY <3>2
      <4> QED BY <4>1, <4>2
    <3>4. ASSUME NEW s \in UpTo(n), s # {}
          PROVE  f[s \ {Ch(s)}] = g[s \ {Ch(s)}]
      <4>1. s \ {Ch(s)} \in UpTo(n - 1)
        BY <3>4, <1>1, <1>2
      <4> QED BY <4>1, <3>3
    <3>5. f = [s \in UpTo(n) |->
                 IF s = {} THEN base ELSE Op(f[s \ {Ch(s)}], fun[Ch(s)])]
      BY <3>4
    <3> QED BY <3>5
  <2> QED BY <2>1, <2>2
<1>4. Bad = {}
  <2>1. Bad \subseteq Nat
    OBVIOUS
  <2> HIDE DEF Bad
  <2>2. Bad # {} => \E n \in Bad : \A m \in Nat : m < n => m \notin Bad
    BY <2>1, Least
  <2> QED BY <2>2, <1>3
<1> DEFINE n == Cardinality(S)
<1>5. n \in Nat
  BY FS_CardinalityType DEF Chooses
<1>6. UpTo(n) = SUBSET S
  <2>1. \A s \in SUBSET S : Cardinality(s) <= n
    BY FS_Subset DEF Chooses
  <2> QED BY <2>1
<1>7. PICK f : Part(f, n)
  BY <1>4, <1>5
<1>8. IsFold(f, base, fun, S)
  BY <1>6, <1>7 DEF IsFold
<1> QED BY <1>8

SameOn(fun, gun, S) == \A x \in S : fun[x] = gun[x]

(* Folds agree where the sets and the elements are the same. *)
LEMMA FoldUnique ==
    ASSUME NEW base, NEW S, NEW T, NEW R, R \subseteq S, R \subseteq T, Chooses(R),
           NEW fun, NEW gun, SameOn(fun, gun, R),
           NEW f, NEW g, IsFold(f, base, fun, S), IsFold(g, base, gun, T)
    PROVE  f[R] = g[R]
<1> DEFINE Bad == {n \in Nat : \E s \in SUBSET R : Cardinality(s) = n /\ f[s] # g[s]}
<1>1. \A s \in SUBSET R : IsFiniteSet(s) /\ Cardinality(s) \in Nat
  BY FS_Subset, FS_CardinalityType DEF Chooses
<1>2. ASSUME NEW n \in Bad, \A m \in Nat : m < n => m \notin Bad
      PROVE  FALSE
  <2>1. PICK s \in SUBSET R : Cardinality(s) = n /\ f[s] # g[s]
    OBVIOUS
  <2>2. s \in SUBSET S /\ s \in SUBSET T
    OBVIOUS
  <2>3. /\ f[s] = IF s = {} THEN base ELSE Op(f[s \ {Ch(s)}], fun[Ch(s)])
        /\ g[s] = IF s = {} THEN base ELSE Op(g[s \ {Ch(s)}], gun[Ch(s)])
    BY <2>2 DEF IsFold
  <2>4. s # {}
    BY <2>1, <2>3
  <2>5. Ch(s) \in s
    BY <2>4 DEF Chooses
  <2> DEFINE u == s \ {Ch(s)}
  <2>6. Cardinality(u) \in Nat /\ Cardinality(s) = Cardinality(u) + 1
    BY <1>1, <2>5, SmallerSet
  <2>7. Cardinality(u) \notin Bad
    <3>1. n \in Nat /\ Cardinality(u) < n
      BY <2>1, <2>6
    <3> HIDE DEF Bad
    <3> QED BY <3>1, <1>2, <2>6
  <2>8. f[u] = g[u]
    BY <2>7, <2>6
  <2>9. fun[Ch(s)] = gun[Ch(s)]
    BY <2>5 DEF SameOn
  <2> QED BY <2>1, <2>3, <2>4, <2>8, <2>9
<1>3. Bad = {}
  <2>1. Bad \subseteq Nat
    OBVIOUS
  <2> HIDE DEF Bad
  <2>2. Bad # {} => \E n \in Bad : \A m \in Nat : m < n => m \notin Bad
    BY <2>1, Least
  <2> QED BY <2>2, <1>2
<1>4. Cardinality(R) \in Nat
  BY <1>1
<1> QED BY <1>3, <1>4

LEMMA FoldIsFold ==
    ASSUME NEW base, NEW fun, NEW S, Chooses(S)
    PROVE  \E f : IsFold(f, base, fun, S) /\ FoldOver(base, fun, S) = f[S]
<1> DEFINE
      f == CHOOSE f : f = [s \in SUBSET S |->
                             IF s = {} THEN base ELSE Op(f[s \ {Ch(s)}], fun[Ch(s)])]
<1>1. \E g : g = [s \in SUBSET S |->
                    IF s = {} THEN base ELSE Op(g[s \ {Ch(s)}], fun[Ch(s)])]
  <2>1. \E g : IsFold(g, base, fun, S)
    BY FoldExists
  <2> QED BY <2>1 DEF IsFold
<1>2. f = [s \in SUBSET S |-> IF s = {} THEN base ELSE Op(f[s \ {Ch(s)}], fun[Ch(s)])]
  BY <1>1
<1>3. FoldOver(base, fun, S) = f[S]
  BY DEF FoldOver
<1> QED BY <1>2, <1>3 DEF IsFold

-----------------------------------------------------------------------------
(* What is used elsewhere *)

LEMMA FoldSame ==
    ASSUME NEW base, NEW fun, NEW gun, NEW S, Chooses(S), \A x \in S : fun[x] = gun[x]
    PROVE  FoldOver(base, fun, S) = FoldOver(base, gun, S)
<1>1. PICK f : IsFold(f, base, fun, S) /\ FoldOver(base, fun, S) = f[S]
  BY FoldIsFold
<1>2. PICK g : IsFold(g, base, gun, S) /\ FoldOver(base, gun, S) = g[S]
  BY FoldIsFold
<1>3. f[S] = g[S]
  <2>1. SameOn(fun, gun, S)
    BY DEF SameOn
  <2> QED BY <2>1, <1>1, <1>2, FoldUnique
<1> QED BY <1>1, <1>2, <1>3

LEMMA FoldEmpty ==
    ASSUME NEW base, NEW fun
    PROVE  FoldOver(base, fun, {}) = base
<1>1. Chooses({})
  BY FS_EmptySet DEF Chooses
<1>2. PICK f : IsFold(f, base, fun, {}) /\ FoldOver(base, fun, {}) = f[{}]
  BY <1>1, FoldIsFold
<1> QED BY <1>2 DEF IsFold

LEMMA FoldStep ==
    ASSUME NEW base, NEW fun, NEW S, Chooses(S), S # {}
    PROVE  FoldOver(base, fun, S) = Op(FoldOver(base, fun, S \ {Ch(S)}), fun[Ch(S)])
<1> DEFINE R == S \ {Ch(S)}
<1>1. Chooses(R) /\ R \subseteq S
  BY FS_Subset DEF Chooses
<1>2. PICK f : IsFold(f, base, fun, S) /\ FoldOver(base, fun, S) = f[S]
  BY FoldIsFold
<1>3. PICK g : IsFold(g, base, fun, R) /\ FoldOver(base, fun, R) = g[R]
  BY <1>1, FoldIsFold
<1>4. f[R] = g[R]
  <2>1. SameOn(fun, fun, R)
    BY DEF SameOn
  <2> QED BY <2>1, <1>1, <1>2, <1>3, FoldUnique
<1>5. f[S] = Op(f[R], fun[Ch(S)])
  BY <1>2 DEF IsFold
<1> QED BY <1>2, <1>3, <1>4, <1>5

(* The results so far of a fold over a sequence of n elements *)
IsRun(st, base, seq, n) ==
    /\ st[0] = base
    /\ \A i \in 1 .. n : st[i] = Op(st[i - 1], seq[i])

LastIsChosen(n) == \A k \in 1 .. n : Ch(1 .. k) = k

LEMMA FoldRuns ==
    ASSUME NEW base, NEW seq, NEW n \in Nat, Chooses(1 .. n), LastIsChosen(n)
    PROVE  \E st : IsRun(st, base, seq, n) /\ st[n] = FoldOver(base, seq, 1 .. n)
<1> DEFINE st == [i \in 0 .. n |-> FoldOver(base, seq, 1 .. i)]
<1>1. st[0] = base
  <2>1. 1 .. 0 = {}
    OBVIOUS
  <2> QED BY <2>1, FoldEmpty
<1>2. ASSUME NEW i \in 1 .. n
      PROVE  st[i] = Op(st[i - 1], seq[i])
  <2>1. 1 .. i \subseteq 1 .. n /\ 1 .. i # {}
    <3>1. i \in Nat /\ i <= n /\ i \in 1 .. i
      OBVIOUS
    <3>2. \A k \in 1 .. i : k \in 1 .. n
      BY <3>1
    <3> QED BY <3>1, <3>2
  <2>2. Chooses(1 .. i)
    BY <2>1, FS_Subset DEF Chooses
  <2>3. Ch(1 .. i) = i
    BY DEF LastIsChosen
  <2>4. (1 .. i) \ {i} = 1 .. (i - 1)
    OBVIOUS
  <2>5. FoldOver(base, seq, 1 .. i) = Op(FoldOver(base, seq, (1 .. i) \ {Ch(1 .. i)}),
                                         seq[Ch(1 .. i)])
    BY <2>1, <2>2, FoldStep
  <2>6. FoldOver(base, seq, 1 .. i) = Op(FoldOver(base, seq, 1 .. (i - 1)), seq[i])
    BY <2>3, <2>4, <2>5
  <2>7. i \in 0 .. n /\ i - 1 \in 0 .. n
    OBVIOUS
  <2> QED BY <2>6, <2>7
<1>3. st[n] = FoldOver(base, seq, 1 .. n)
  OBVIOUS
<1> QED BY <1>1, <1>2, <1>3 DEF IsRun

LEMMA RunIsFold ==
    ASSUME NEW base, NEW seq, NEW n \in Nat, Chooses(1 .. n), LastIsChosen(n),
           NEW st, IsRun(st, base, seq, n)
    PROVE  FoldOver(base, seq, 1 .. n) = st[n]
<1>1. PICK f : IsRun(f, base, seq, n) /\ f[n] = FoldOver(base, seq, 1 .. n)
  BY FoldRuns
<1> DEFINE Bad == {i \in 0 .. n : f[i] # st[i]}
<1>2. ASSUME NEW i \in Bad, \A j \in Nat : j < i => j \notin Bad
      PROVE  FALSE
  <2>1. i # 0
    BY <1>1 DEF IsRun
  <2>2. i \in 1 .. n /\ i - 1 \in 0 .. n /\ i - 1 \notin Bad
    BY <2>1, <1>2
  <2> QED BY <1>1, <1>2, <2>2 DEF IsRun
<1>3. Bad = {}
  <2>1. Bad \subseteq Nat
    OBVIOUS
  <2> HIDE DEF Bad
  <2>2. Bad # {} => \E i \in Bad : \A j \in Nat : j < i => j \notin Bad
    BY <2>1, Least
  <2> QED BY <2>2, <1>2
<1> QED BY <1>1, <1>3

(* What every element preserves, the fold preserves. *)
LEMMA FoldStays ==
    ASSUME NEW base, NEW seq, NEW n \in Nat, Chooses(1 .. n), LastIsChosen(n),
           NEW G, base \in G, \A g \in G : \A i \in 1 .. n : Op(g, seq[i]) \in G
    PROVE  FoldOver(base, seq, 1 .. n) \in G
<1>1. PICK st : IsRun(st, base, seq, n) /\ st[n] = FoldOver(base, seq, 1 .. n)
  BY FoldRuns
<1> DEFINE Bad == {i \in 0 .. n : st[i] \notin G}
<1>2. ASSUME NEW i \in Bad, \A j \in Nat : j < i => j \notin Bad
      PROVE  FALSE
  <2>1. i \in 0 .. n /\ st[i] \notin G
    OBVIOUS
  <2>2. i \in 1 .. n /\ i - 1 \in 0 .. n /\ i - 1 < i
    BY <1>1, <2>1 DEF IsRun
  <2>3. i - 1 \notin Bad
    <3> HIDE DEF Bad
    <3> QED BY <1>2, <2>2
  <2> QED BY <1>1, <2>1, <2>2, <2>3 DEF IsRun
<1>3. Bad = {}
  <2>1. Bad \subseteq Nat
    OBVIOUS
  <2> HIDE DEF Bad
  <2>2. Bad # {} => \E i \in Bad : \A j \in Nat : j < i => j \notin Bad
    BY <2>1, Least
  <2> QED BY <2>2, <1>2
<1>4. n \in 0 .. n /\ n \notin Bad
  BY <1>3
<1> QED BY <1>1, <1>4

-----------------------------------------------------------------------------
(* Sorted lists *)

IsSorted(q, S) ==
    /\ q \in [1 .. Cardinality(S) -> S]
    /\ \A i, j \in 1 .. Cardinality(S) : i < j => q[i] < q[j]
    /\ \A x \in S : \E n \in 1 .. Cardinality(S) : q[n] = x

UpTo(S, x) == {y \in S : y <= x}

LEMMA Ranks ==
    ASSUME NEW S, IsFiniteSet(S), S \subseteq Int
    PROVE  /\ \A x \in S : Cardinality(UpTo(S, x)) \in 1 .. Cardinality(S)
           /\ \A x, y \in S : x < y => Cardinality(UpTo(S, x)) < Cardinality(UpTo(S, y))
           /\ \A n \in 1 .. Cardinality(S) : \E x \in S : Cardinality(UpTo(S, x)) = n
<1> DEFINE N == Cardinality(S)
           rank == [x \in S |-> Cardinality(UpTo(S, x))]
<1>1. N \in Nat
  BY FS_CardinalityType
<1>2. ASSUME NEW x \in S
      PROVE  IsFiniteSet(UpTo(S, x)) /\ Cardinality(UpTo(S, x)) \in 1 .. N
  <2>1. UpTo(S, x) \in SUBSET S /\ x \in UpTo(S, x)
    BY DEF UpTo
  <2>2. IsFiniteSet(UpTo(S, x)) /\ Cardinality(UpTo(S, x)) <= N
    BY <2>1, FS_Subset
  <2>3. Cardinality(UpTo(S, x)) \in Nat /\ Cardinality(UpTo(S, x)) # 0
    BY <2>1, <2>2, FS_CardinalityType, FS_EmptySet
  <2> QED BY <1>1, <2>2, <2>3
<1>3. ASSUME NEW x \in S, NEW y \in S, x < y
      PROVE  Cardinality(UpTo(S, x)) < Cardinality(UpTo(S, y))
  <2>0. x \in Int /\ y \in Int /\ \A z \in S : z \in Int
    OBVIOUS
  <2>1. UpTo(S, x) \in SUBSET UpTo(S, y) /\ y \in UpTo(S, y) /\ y \notin UpTo(S, x)
    <3>1. ASSUME NEW z \in UpTo(S, x) PROVE z \in UpTo(S, y)
      <4>1. z \in S /\ z <= x
        BY DEF UpTo
      <4>2. z \in Int /\ z <= y
        BY <1>3, <2>0, <4>1
      <4> QED BY <4>1, <4>2 DEF UpTo
    <3>2. y <= y /\ ~ (y <= x)
      BY <1>3, <2>0
    <3>3. y \in UpTo(S, y) /\ y \notin UpTo(S, x)
      BY <3>2 DEF UpTo
    <3> QED BY <3>1, <3>3
  <2>2. /\ Cardinality(UpTo(S, x)) <= Cardinality(UpTo(S, y))
        /\ Cardinality(UpTo(S, y)) # Cardinality(UpTo(S, x))
    BY <1>2, <2>1, FS_Subset
  <2> QED BY <1>2, <2>2
<1>4. rank \in [S -> 1 .. N]
  BY <1>2
<1>5. ASSUME NEW x \in S, NEW y \in S, rank[x] = rank[y]
      PROVE  x = y
  <2>1. ~ (x < y) /\ ~ (y < x)
    BY <1>2, <1>3, <1>5
  <2> QED BY <2>1
<1> HIDE DEF rank
<1>6. rank \in Injection(S, 1 .. N)
  BY <1>4, <1>5 DEF Injection, IsInjective
<1>7. IsFiniteSet(1 .. N) /\ Cardinality(1 .. N) = N
  BY <1>1, FS_Interval
<1>8. rank \in Surjection(S, 1 .. N)
  BY <1>6, <1>7, FS_Injection
<1>9. \A n \in 1 .. N : \E x \in S : rank[x] = n
  BY <1>8 DEF Surjection
<1> QED BY <1>2, <1>3, <1>9 DEF rank

LEMMA InOrderIsSorted ==
    ASSUME NEW S, IsFiniteSet(S), S \subseteq Int
    PROVE  IsSorted(InOrder(S), S)
<1> DEFINE N == Cardinality(S)
           q == InOrder(S)
<1>1. N \in Nat
  BY FS_CardinalityType
<1>2. ASSUME NEW n \in 1 .. N
      PROVE  q[n] \in S /\ Cardinality(UpTo(S, q[n])) = n
  <2>1. \E x \in S : Cardinality({y \in S : y <= x}) = n
    BY Ranks DEF UpTo
  <2> QED BY <2>1 DEF InOrder, UpTo
<1>3. ASSUME NEW i \in 1 .. N, NEW j \in 1 .. N, i < j
      PROVE  q[i] < q[j]
  <2>1. q[i] \in S /\ q[j] \in S
    BY <1>2
  <2>2. q[i] # q[j]
    BY <1>2, <1>3
  <2>3. q[j] < q[i] => j < i
    BY <1>2, <2>1, Ranks
  <2>4. q[i] \in Int /\ q[j] \in Int /\ i \in Int /\ j \in Int
    <3>1. \A z \in S : z \in Int
      OBVIOUS
    <3>2. \A k \in 1 .. N : k \in Int
      BY <1>1
    <3> HIDE DEF q, N
    <3> QED BY <2>1, <3>1, <3>2
  <2> HIDE DEF q, N
  <2> QED BY <1>3, <2>2, <2>3, <2>4
<1>4. ASSUME NEW x \in S
      PROVE  \E n \in 1 .. N : q[n] = x
  <2> DEFINE n == Cardinality(UpTo(S, x))
  <2>1. n \in 1 .. N
    BY Ranks
  <2>2. q[n] \in S /\ Cardinality(UpTo(S, q[n])) = n
    BY <1>2, <2>1
  <2> DEFINE z == q[n]
  <2>3. n \in Int /\ z \in S /\ z \in Int /\ x \in Int /\ Cardinality(UpTo(S, z)) = n
    <3>1. \A y \in S : y \in Int
      OBVIOUS
    <3>2. \A k \in 1 .. N : k \in Int
      BY <1>1
    <3> HIDE DEF q, N, n
    <3> QED BY <2>1, <2>2, <3>1, <3>2
  <2> HIDE DEF z
  <2>4. z < x => Cardinality(UpTo(S, z)) < n
    BY <2>3, Ranks
  <2>5. x < z => n < Cardinality(UpTo(S, z))
    BY <2>3, Ranks
  <2> HIDE DEF n
  <2>6. z = x
    BY <2>3, <2>4, <2>5
  <2> QED BY <2>1, <2>6 DEF z
<1>5. q \in [1 .. N -> S]
  BY <1>2 DEF InOrder
<1> QED BY <1>3, <1>4, <1>5 DEF IsSorted

=============================================================================
