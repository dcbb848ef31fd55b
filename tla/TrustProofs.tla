---------------------------- MODULE TrustProofs ----------------------------
(***************************************************************************)
(* Proofs about TrustContext, for any peers, evidence and writes.          *)
(***************************************************************************)
EXTENDS TrustContext, FiniteSetTheorems, TLAPS

-----------------------------------------------------------------------------
(* Sums *)

Plus(sum, x) == x + sum

AnyOf(S) == CHOOSE x \in S : TRUE

Summing == INSTANCE Folding WITH Op <- Plus, Ch <- AnyOf

LEMMA SumIsFold ==
    ASSUME NEW f
    PROVE  SumOf(f) = Summing!FoldOver(0, f, DOMAIN f)
BY DEF SumOf, FoldFunction, FoldFunctionOnSet, MapThenFoldSet, Summing!FoldOver, Plus, AnyOf

LEMMA AnyChooses ==
    ASSUME NEW S, IsFiniteSet(S)
    PROVE  Summing!Chooses(S)
<1>1. \A s : s # {} => AnyOf(s) \in s
  BY DEF AnyOf
<1> QED BY <1>1 DEF Summing!Chooses, Summing!IsFiniteSet, IsFiniteSet

LEMMA SumStep ==
    ASSUME NEW f, NEW S, IsFiniteSet(S), S # {}
    PROVE  Summing!FoldOver(0, f, S)
             = f[AnyOf(S)] + Summing!FoldOver(0, f, S \ {AnyOf(S)})
<1>1. Summing!FoldOver(0, f, S)
        = Plus(Summing!FoldOver(0, f, S \ {AnyOf(S)}), f[AnyOf(S)])
  BY AnyChooses, Summing!FoldStep
<1> QED BY <1>1 DEF Plus

Sum(f, S) == Summing!FoldOver(0, f, S)

(* A sum does not depend on the order in which its elements are chosen.     *)
LEMMA SumsAreNat ==
    ASSUME NEW f, NEW S, IsFiniteSet(S), \A x \in S : f[x] \in Nat
    PROVE  /\ Sum(f, S) \in Nat
           /\ \A x \in S : Sum(f, S) = f[x] + Sum(f, S \ {x})
<1> DEFINE
      Right(s) == /\ Sum(f, s) \in Nat
                  /\ \A x \in s : Sum(f, s) = f[x] + Sum(f, s \ {x})
      Bad == {n \in Nat : \E s \in SUBSET S : Cardinality(s) = n /\ ~ Right(s)}
<1>1. \A s \in SUBSET S : IsFiniteSet(s) /\ Cardinality(s) \in Nat
  BY FS_Subset, FS_CardinalityType
<1>2. ASSUME NEW n \in Bad, \A m \in Nat : m < n => m \notin Bad
      PROVE  FALSE
  <2>1. PICK s \in SUBSET S : Cardinality(s) = n /\ ~ Right(s)
    OBVIOUS
  <2>2. \A u \in SUBSET S : Cardinality(u) < n => Right(u)
    <3> TAKE u \in SUBSET S
    <3> SUFFICES ASSUME Cardinality(u) < n, ~ Right(u)
                 PROVE  FALSE
      OBVIOUS
    <3>1. Cardinality(u) \in Nat
      BY <1>1
    <3>2. Cardinality(u) \in Bad
      BY <3>1
    <3> HIDE DEF Bad
    <3> QED BY <1>2, <3>1, <3>2
  <2>3. CASE s = {}
    <3>1. Sum(f, s) = 0
      BY <2>3, Summing!FoldEmpty DEF Sum
    <3> QED BY <2>1, <2>3, <3>1
  <2>4. CASE s # {}
    <3> DEFINE c == AnyOf(s)
    <3>1. c \in s
      BY <2>4 DEF AnyOf
    <3>2. \A x \in s : /\ s \ {x} \in SUBSET S
                       /\ Cardinality(s \ {x}) < n
      <4> TAKE x \in s
      <4>1. /\ IsFiniteSet(s) /\ s \ {x} \in SUBSET S
        BY <1>1
      <4>2. Cardinality(s \ {x}) = Cardinality(s) - 1
        BY <4>1, FS_RemoveElement
      <4>3. Cardinality(s) \in Nat /\ Cardinality(s) = n
        BY <1>1, <2>1
      <4> QED BY <4>1, <4>2, <4>3
    <3>3. Sum(f, s) = f[c] + Sum(f, s \ {c})
      <4>1. IsFiniteSet(s)
        BY <1>1
      <4> QED BY <4>1, <2>4, SumStep DEF Sum
    <3>4. \A x \in s : Right(s \ {x}) /\ f[x] \in Nat
      BY <2>2, <3>2
    <3> HIDE DEF c
    <3>5. ASSUME NEW x \in s, x # c
          PROVE  Sum(f, s) = f[x] + Sum(f, s \ {x})
      <4>1. Sum(f, s \ {c}) = f[x] + Sum(f, (s \ {c}) \ {x})
        <5>1. Right(s \ {c}) /\ x \in s \ {c}
          BY <3>1, <3>4, <3>5
        <5> QED BY <5>1
      <4>2. Sum(f, s \ {x}) = f[c] + Sum(f, (s \ {x}) \ {c})
        <5>1. Right(s \ {x}) /\ c \in s \ {x}
          BY <3>1, <3>4, <3>5
        <5> QED BY <5>1
      <4>3. (s \ {c}) \ {x} = (s \ {x}) \ {c}
        OBVIOUS
      <4>4. (s \ {x}) \ {c} \in SUBSET S /\ Cardinality((s \ {x}) \ {c}) < n
        <5>1. IsFiniteSet(s \ {x}) /\ c \in s \ {x}
          BY <3>1, <3>2, <3>5, <1>1
        <5>2. Cardinality((s \ {x}) \ {c}) = Cardinality(s \ {x}) - 1
          BY <5>1, FS_RemoveElement
        <5>3. /\ s \ {x} \in SUBSET S /\ Cardinality(s \ {x}) < n
              /\ Cardinality(s \ {x}) \in Nat /\ n \in Nat
          BY <3>2, <1>1
        <5> QED BY <5>2, <5>3
      <4>5. Sum(f, (s \ {x}) \ {c}) \in Nat
        BY <2>2, <4>4
      <4>6. f[x] \in Nat /\ f[c] \in Nat
        BY <3>1, <3>4
      <4> HIDE DEF Right, Bad
      <4> QED BY <3>3, <4>1, <4>2, <4>3, <4>5, <4>6
    <3>6. Sum(f, s) \in Nat
      <4>1. Sum(f, s \ {c}) \in Nat /\ f[c] \in Nat
        BY <3>1, <3>4
      <4> QED BY <3>3, <4>1
    <3> QED BY <2>1, <3>3, <3>5, <3>6
  <2> QED BY <2>3, <2>4
<1>3. Bad = {}
  <2>1. Bad \subseteq Nat
    OBVIOUS
  <2> HIDE DEF Bad
  <2>2. Bad # {} => \E n \in Bad : \A m \in Nat : m < n => m \notin Bad
    BY <2>1, Summing!Least
  <2> QED BY <2>2, <1>2
<1>4. Cardinality(S) \in Nat
  BY <1>1
<1> QED BY <1>3, <1>4

LEMMA SumOfIsNat ==
    ASSUME NEW f, IsFiniteSet(DOMAIN f), \A x \in DOMAIN f : f[x] \in Nat
    PROVE  SumOf(f) \in Nat
<1>1. SumOf(f) = Sum(f, DOMAIN f)
  BY SumIsFold DEF Sum
<1> QED BY <1>1, SumsAreNat

LEMMA SumAtLeast ==
    ASSUME NEW f, IsFiniteSet(DOMAIN f), \A x \in DOMAIN f : f[x] \in Nat, NEW x \in DOMAIN f
    PROVE  f[x] <= SumOf(f)
<1>1. SumOf(f) = Sum(f, DOMAIN f)
  BY SumIsFold DEF Sum
<1>2. Sum(f, DOMAIN f) = f[x] + Sum(f, DOMAIN f \ {x})
  BY SumsAreNat
<1>3. IsFiniteSet(DOMAIN f \ {x})
  BY FS_Subset
<1>4. Sum(f, DOMAIN f \ {x}) \in Nat
  BY <1>3, SumsAreNat
<1> QED BY <1>1, <1>2, <1>4

LEMMA SumOfNothing ==
    ASSUME NEW f, IsFiniteSet(DOMAIN f), \A x \in DOMAIN f : f[x] = 0
    PROVE  SumOf(f) = 0
<1> DEFINE
      S == DOMAIN f
      Bad == {n \in Nat : \E s \in SUBSET S : Cardinality(s) = n /\ Sum(f, s) # 0}
<1>1. \A s \in SUBSET S : IsFiniteSet(s) /\ Cardinality(s) \in Nat
  BY FS_Subset, FS_CardinalityType
<1>2. ASSUME NEW n \in Bad, \A m \in Nat : m < n => m \notin Bad
      PROVE  FALSE
  <2>1. PICK s \in SUBSET S : Cardinality(s) = n /\ Sum(f, s) # 0
    OBVIOUS
  <2>2. s # {}
    BY <2>1, Summing!FoldEmpty DEF Sum
  <2>3. PICK x \in s : TRUE
    BY <2>2
  <2> DEFINE r == s \ {x}
  <2>4. IsFiniteSet(s) /\ r \in SUBSET S /\ Cardinality(s) \in Nat /\ Cardinality(r) \in Nat
    BY <1>1
  <2>5. Cardinality(r) = Cardinality(s) - 1
    BY <2>3, <2>4, FS_RemoveElement
  <2>6. Sum(f, s) = f[x] + Sum(f, r)
    <3>1. \A y \in s : f[y] \in Nat
      OBVIOUS
    <3> QED BY <2>3, <2>4, <3>1, SumsAreNat
  <2>7. Sum(f, r) = 0
    <3>1. Cardinality(r) \notin Bad
      <4>1. Cardinality(r) < n
        BY <2>1, <2>4, <2>5
      <4> HIDE DEF Bad, r
      <4> QED BY <1>2, <2>4, <4>1
    <3> QED BY <2>4, <3>1
  <2> HIDE DEF r
  <2> QED BY <2>1, <2>3, <2>6, <2>7
<1>3. Bad = {}
  <2>1. Bad \subseteq Nat
    OBVIOUS
  <2> HIDE DEF Bad
  <2>2. Bad # {} => \E n \in Bad : \A m \in Nat : m < n => m \notin Bad
    BY <2>1, Summing!Least
  <2> QED BY <2>2, <1>2
<1>4. Cardinality(S) \in Nat /\ S \in SUBSET S
  BY <1>1
<1>5. Sum(f, S) = 0
  BY <1>3, <1>4
<1> QED BY <1>5, SumIsFold DEF Sum

-----------------------------------------------------------------------------
(* Weights of evidence *)

Amounted(S) == IsFiniteSet(S) /\ \A x \in S : x.evidence.amount \in Nat

LEMMA WeightIsSum ==
    ASSUME NEW S, NEW R, R \subseteq S, Amounted(S)
    PROVE  /\ Weight(R) = Sum([x \in S |-> x.evidence.amount], R)
           /\ Weight(R) \in Nat
<1> DEFINE f == [x \in S |-> x.evidence.amount]
           g == [x \in R |-> x.evidence.amount]
<1>1. IsFiniteSet(R)
  BY FS_Subset DEF Amounted
<1>2. Weight(R) = Sum(g, R)
  <2>1. DOMAIN g = R
    OBVIOUS
  <2>2. Weight(R) = Summing!FoldOver(0, g, DOMAIN g)
    BY SumIsFold DEF Weight
  <2> QED BY <2>1, <2>2 DEF Sum
<1>3. Sum(g, R) = Sum(f, R)
  <2>1. \A x \in R : g[x] = f[x]
    OBVIOUS
  <2>2. Summing!Chooses(R)
    BY <1>1, AnyChooses
  <2> HIDE DEF f, g
  <2> QED BY <2>1, <2>2, Summing!FoldSame DEF Sum
<1>4. \A x \in R : f[x] \in Nat
  BY DEF Amounted
<1>5. Sum(f, R) \in Nat
  BY <1>1, <1>4, SumsAreNat
<1> QED BY <1>2, <1>3, <1>5

LEMMA WeightEmpty == Weight({}) = 0
<1>1. Amounted({})
  BY FS_EmptySet DEF Amounted
<1>2. Weight({}) = Sum([x \in {} |-> x.evidence.amount], {})
  BY <1>1, WeightIsSum
<1> QED BY <1>2, Summing!FoldEmpty DEF Sum

LEMMA WeightAdd ==
    ASSUME NEW S, Amounted(S), NEW x \in S
    PROVE  Weight(S) = x.evidence.amount + Weight(S \ {x})
<1> DEFINE f == [y \in S |-> y.evidence.amount]
<1>1. Weight(S) = Sum(f, S) /\ Weight(S \ {x}) = Sum(f, S \ {x})
  BY WeightIsSum
<1>2. \A y \in S : f[y] \in Nat
  BY DEF Amounted
<1>3. Sum(f, S) = f[x] + Sum(f, S \ {x})
  <2> HIDE DEF f
  <2> QED BY <1>2, SumsAreNat DEF Amounted
<1> QED BY <1>1, <1>3

LEMMA WeightGrows ==
    ASSUME NEW S, Amounted(S), NEW A, A \subseteq S
    PROVE  Weight(A) <= Weight(S)
<1> DEFINE Bad == {n \in Nat : \E B \in SUBSET S : /\ A \subseteq B /\ Cardinality(B) = n
                                                   /\ ~ (Weight(A) <= Weight(B))}
<1>1. \A B \in SUBSET S : /\ IsFiniteSet(B) /\ Cardinality(B) \in Nat /\ Amounted(B)
                          /\ Weight(B) \in Nat
  BY FS_Subset, FS_CardinalityType, WeightIsSum DEF Amounted
<1>2. ASSUME NEW n \in Bad, \A m \in Nat : m < n => m \notin Bad
      PROVE  FALSE
  <2>1. PICK B \in SUBSET S : /\ A \subseteq B /\ Cardinality(B) = n
                              /\ ~ (Weight(A) <= Weight(B))
    OBVIOUS
  <2>2. A # B
    BY <1>1, <2>1
  <2>3. PICK x \in B : x \notin A
    BY <2>1, <2>2
  <2> DEFINE C == B \ {x}
  <2>4. /\ C \in SUBSET S /\ A \subseteq C /\ IsFiniteSet(B)
        /\ Cardinality(B) \in Nat
    BY <1>1, <2>1, <2>3
  <2>5. Cardinality(C) = Cardinality(B) - 1 /\ Cardinality(C) \in Nat
    BY <1>1, <2>3, <2>4, FS_RemoveElement
  <2>6. Weight(A) <= Weight(C)
    <3>1. Cardinality(C) < n /\ Cardinality(C) \in Nat
      BY <2>1, <2>4, <2>5
    <3>2. Cardinality(C) \notin Bad
      <4> HIDE DEF Bad, C
      <4> QED BY <3>1, <1>2
    <3> QED BY <2>4, <3>1, <3>2
  <2>7. Weight(B) = x.evidence.amount + Weight(C)
    BY <1>1, <2>1, <2>3, WeightAdd
  <2>8. /\ x.evidence.amount \in Nat
        /\ Weight(A) \in Nat /\ Weight(B) \in Nat /\ Weight(C) \in Nat
    BY <1>1, <2>3, <2>4 DEF Amounted
  <2> HIDE DEF C
  <2> QED BY <2>1, <2>6, <2>7, <2>8
<1>3. Bad = {}
  <2>1. Bad \subseteq Nat
    OBVIOUS
  <2> HIDE DEF Bad
  <2>2. Bad # {} => \E n \in Bad : \A m \in Nat : m < n => m \notin Bad
    BY <2>1, Summing!Least
  <2> QED BY <2>2, <1>2
<1>4. Cardinality(S) \in Nat /\ S \in SUBSET S
  BY <1>1
<1> QED BY <1>3, <1>4

-----------------------------------------------------------------------------
(* Scores *)

Counter == UNION {[O -> Nat] : O \in {U \in SUBSET Subject : IsFiniteSet(U)}}

Score == UNION {[D -> Counter] : D \in SUBSET Dimension}

LEMMA CounterType ==
    ASSUME NEW c \in Counter
    PROVE  /\ DOMAIN c \subseteq Subject /\ IsFiniteSet(DOMAIN c)
           /\ \A o \in DOMAIN c : c[o] \in Nat
           /\ \A o : LookUp(c, o, 0) \in Nat
BY DEF Counter, LookUp

LEMMA MakeCounter ==
    ASSUME NEW O, O \subseteq Subject, IsFiniteSet(O), NEW c \in [O -> Nat]
    PROVE  c \in Counter
BY DEF Counter

LEMMA EmptyCounter == EmptyDict \in Counter
<1>1. EmptyDict \in [{} -> Nat]
  BY DEF EmptyDict
<1> QED BY <1>1, FS_EmptySet, MakeCounter

LEMMA ScoreType ==
    ASSUME NEW s \in Score
    PROVE  /\ DOMAIN s \subseteq Dimension
           /\ \A d \in DOMAIN s : s[d] \in Counter
           /\ \A d : LookUp(s, d, EmptyDict) \in Counter
           /\ \A d, o : Slot(s, d, o) \in Nat
<1>1. DOMAIN s \subseteq Dimension /\ \A d \in DOMAIN s : s[d] \in Counter
  BY DEF Score
<1>2. \A d : LookUp(s, d, EmptyDict) \in Counter
  BY <1>1, EmptyCounter DEF LookUp
<1> QED BY <1>1, <1>2, CounterType DEF Slot

LEMMA MakeScore ==
    ASSUME NEW D, D \subseteq Dimension, NEW s \in [D -> Counter]
    PROVE  s \in Score
BY DEF Score

LEMMA EmptyScore ==
    Probationary \in Score /\ \A d, o : Slot(Probationary, d, o) = 0
<1>1. Probationary \in [{} -> Counter] /\ DOMAIN EmptyDict = {}
  BY DEF Probationary, EmptyDict
<1> QED BY <1>1, MakeScore DEF Slot, LookUp, Probationary

LEMMA RecordScore ==
    ASSUME NEW s \in Score, NEW o \in Subject, NEW d \in Dimension, NEW a \in Nat
    PROVE  /\ RecordEvidence(s, o, d, a) \in Score
           /\ \A c, q : Slot(RecordEvidence(s, o, d, a), c, q)
                          = IF c = d /\ q = o THEN Slot(s, c, q) + a ELSE Slot(s, c, q)
<1> DEFINE obs == LookUp(s, d, EmptyDict)
           new == Put(obs, o, LookUp(obs, o, 0) + a)
<1>1. obs \in Counter /\ LookUp(obs, o, 0) \in Nat
  BY ScoreType, CounterType
<1>2. new \in Counter
  <2>1. /\ DOMAIN obs \cup {o} \subseteq Subject /\ IsFiniteSet(DOMAIN obs \cup {o})
    BY <1>1, CounterType, FS_AddElement
  <2>2. new \in [DOMAIN obs \cup {o} -> Nat]
    <3>1. \A q \in DOMAIN obs : obs[q] \in Nat
      BY <1>1, CounterType
    <3>2. LookUp(obs, o, 0) + a \in Nat
      BY <1>1
    <3> HIDE DEF obs
    <3> QED BY <3>1, <3>2 DEF Put
  <2> HIDE DEF obs, new
  <2> QED BY <2>1, <2>2, MakeCounter
<1>3. RecordEvidence(s, o, d, a) = Put(s, d, new)
  BY DEF RecordEvidence
<1>4. Put(s, d, new) \in Score
  <2>1. Put(s, d, new) \in [DOMAIN s \cup {d} -> Counter]
    <3>1. \A c \in DOMAIN s : s[c] \in Counter
      BY ScoreType
    <3> HIDE DEF new
    <3> QED BY <3>1, <1>2 DEF Put
  <2>2. DOMAIN s \cup {d} \subseteq Dimension
    BY ScoreType
  <2> HIDE DEF new
  <2> QED BY <2>1, <2>2, MakeScore
<1>5. ASSUME NEW c, NEW q
      PROVE  Slot(Put(s, d, new), c, q)
               = IF c = d /\ q = o THEN Slot(s, c, q) + a ELSE Slot(s, c, q)
  <2>1. LookUp(Put(s, d, new), c, EmptyDict) = IF c = d THEN new ELSE LookUp(s, c, EmptyDict)
    BY DEF LookUp, Put
  <2>2. LookUp(new, q, 0) = IF q = o THEN LookUp(obs, o, 0) + a ELSE LookUp(obs, q, 0)
    BY DEF LookUp, Put
  <2> HIDE DEF new
  <2> QED BY <2>1, <2>2 DEF Slot
<1> QED BY <1>3, <1>4, <1>5

LEMMA JoinScore ==
    ASSUME NEW a \in Score, NEW b \in Score
    PROVE  /\ JoinScores(a, b) \in Score
           /\ \A d, o : Slot(JoinScores(a, b), d, o)
                          = IF Slot(a, d, o) >= Slot(b, d, o) THEN Slot(a, d, o)
                            ELSE Slot(b, d, o)
<1> DEFINE
      A(d) == LookUp(a, d, EmptyDict)
      B(d) == LookUp(b, d, EmptyDict)
      Larger(d, o) == IF LookUp(A(d), o, 0) >= LookUp(B(d), o, 0) THEN LookUp(A(d), o, 0)
                      ELSE LookUp(B(d), o, 0)
      J(d) == [o \in DOMAIN A(d) \cup DOMAIN B(d) |-> Larger(d, o)]
<1>1. JoinScores(a, b) = [d \in DOMAIN a \cup DOMAIN b |-> J(d)]
  BY DEF JoinScores
<1>2. ASSUME NEW d
      PROVE  A(d) \in Counter /\ B(d) \in Counter
  BY ScoreType
<1>3. ASSUME NEW d
      PROVE  /\ J(d) \in Counter
             /\ \A o : LookUp(J(d), o, 0) = Larger(d, o)
  <2>1. \A o : LookUp(A(d), o, 0) \in Nat /\ LookUp(B(d), o, 0) \in Nat
    BY <1>2, CounterType
  <2>2. \A o : Larger(d, o) \in Nat
    BY <2>1
  <2>3. /\ DOMAIN A(d) \cup DOMAIN B(d) \subseteq Subject
        /\ IsFiniteSet(DOMAIN A(d) \cup DOMAIN B(d))
    BY <1>2, CounterType, FS_Union
  <2>4. \A o : o \notin DOMAIN A(d) \cup DOMAIN B(d) => Larger(d, o) = 0
    <3>1. \A o : o \notin DOMAIN A(d) \cup DOMAIN B(d)
                   => LookUp(A(d), o, 0) = 0 /\ LookUp(B(d), o, 0) = 0
      BY DEF LookUp
    <3> QED BY <3>1
  <2> HIDE DEF Larger, A, B
  <2>5. J(d) \in [DOMAIN A(d) \cup DOMAIN B(d) -> Nat]
    BY <2>2
  <2>6. J(d) \in Counter
    <3> HIDE DEF J
    <3> QED BY <2>3, <2>5, MakeCounter
  <2>7. \A o : LookUp(J(d), o, 0) = Larger(d, o)
    BY <2>4 DEF LookUp
  <2> QED BY <2>6, <2>7
<1> HIDE DEF J
<1>4. JoinScores(a, b) \in Score
  <2>1. DOMAIN a \cup DOMAIN b \subseteq Dimension
    BY ScoreType
  <2>2. [d \in DOMAIN a \cup DOMAIN b |-> J(d)] \in [DOMAIN a \cup DOMAIN b -> Counter]
    BY <1>3
  <2> QED BY <1>1, <2>1, <2>2, MakeScore
<1>5. ASSUME NEW d, NEW o
      PROVE  Slot(JoinScores(a, b), d, o) = Larger(d, o)
  <2>1. CASE d \in DOMAIN a \cup DOMAIN b
    <3>1. LookUp(JoinScores(a, b), d, EmptyDict) = J(d)
      BY <1>1, <2>1 DEF LookUp
    <3> QED BY <3>1, <1>3 DEF Slot
  <2>2. CASE d \notin DOMAIN a \cup DOMAIN b
    <3>1. /\ A(d) = EmptyDict /\ B(d) = EmptyDict
          /\ LookUp(JoinScores(a, b), d, EmptyDict) = EmptyDict
      BY <1>1, <2>2 DEF LookUp
    <3>2. LookUp(EmptyDict, o, 0) = 0
      BY DEF LookUp, EmptyDict
    <3> HIDE DEF A, B
    <3> QED BY <3>1, <3>2 DEF Slot
  <2> QED BY <2>1, <2>2
<1> QED BY <1>4, <1>5 DEF Slot

LEMMA TrustIsNat ==
    ASSUME NEW s \in Score
    PROVE  OverallTrust(s) \in Nat
<1>1. ASSUME NEW d \in Dimension
      PROVE  TrustForDimension(s, d) \in Nat
  <2>1. ASSUME d \in DOMAIN s
        PROVE  SumOf(s[d]) \in Nat
    <3>1. s[d] \in Counter
      BY <2>1, ScoreType
    <3> QED BY <3>1, CounterType, SumOfIsNat
  <2> QED BY <2>1 DEF TrustForDimension, ProbationTrust, One
<1> DEFINE f == [d \in Dimension |-> TrustForDimension(s, d)]
<1>2. IsFiniteSet(DOMAIN f) /\ \A d \in DOMAIN f : f[d] \in Nat
  BY <1>1, DimensionAssumption
<1>3. SumOf(f) \in Nat
  <2> HIDE DEF f
  <2> QED BY <1>2, SumOfIsNat
<1> QED BY <1>3 DEF OverallTrust

-----------------------------------------------------------------------------
(* One slot of a score: v is what it counts, A the evidence about it, some *)
(* of it in D, that peer p knows.                                          *)

OnePeer(A) == \E q : \A x \in A : x.by = q

By(A, p) == {x \in A : x.by = p}

Justified(v, A, D, p) ==
    /\ v \in Nat /\ IsFiniteSet(A)
    /\ \A x \in A : x.evidence.amount \in Nat \ {0}
    /\ v > 0 <=> A # {}
    /\ v >= Weight(By(A, p))
    /\ A \cap D = {} /\ OnePeer(A) => v = Weight(A)

LEMMA JustifiedAmounts ==
    ASSUME NEW v, NEW A, NEW D, NEW p, Justified(v, A, D, p)
    PROVE  Amounted(A) /\ Weight(A) \in Nat /\ Weight(By(A, p)) \in Nat
<1>1. Amounted(A)
  BY DEF Justified, Amounted
<1>2. A \subseteq A /\ By(A, p) \subseteq A
  BY DEF By
<1> QED BY <1>1, <1>2, WeightIsSum

LEMMA JustifiedNone ==
    ASSUME NEW D, NEW p
    PROVE  Justified(0, {}, D, p)
<1>1. By({}, p) = {}
  BY DEF By
<1> QED BY <1>1, WeightEmpty, FS_EmptySet DEF Justified

(* p observes x. *)
LEMMA JustifiedObserve ==
    ASSUME NEW v, NEW A, NEW D, NEW p, Justified(v, A, D, p),
           NEW x, x \notin A, x.by = p, NEW a, a = x.evidence.amount, a \in Nat \ {0}
    PROVE  Justified(v + a, A \cup {x}, D, p)
<1> DEFINE B == A \cup {x}
<1>1. /\ IsFiniteSet(B) /\ Amounted(B)
      /\ \A y \in B : y.evidence.amount \in Nat \ {0}
  BY FS_AddElement DEF Justified, Amounted
<1>2. Weight(B) = a + Weight(A)
  <2>1. B \ {x} = A /\ x \in B
    OBVIOUS
  <2> HIDE DEF B
  <2> QED BY <1>1, <2>1, WeightAdd
<1>3. Weight(By(B, p)) = a + Weight(By(A, p))
  <2>1. By(B, p) \ {x} = By(A, p) /\ x \in By(B, p) /\ By(B, p) \subseteq B
    BY DEF By
  <2>2. Amounted(By(B, p))
    BY <1>1, <2>1, FS_Subset DEF Amounted
  <2>3. Weight(By(B, p)) = x.evidence.amount + Weight(By(B, p) \ {x})
    <3> HIDE DEF B
    <3> QED BY <2>1, <2>2, WeightAdd
  <2> QED BY <2>1, <2>3
<1>4. Weight(A) \in Nat /\ Weight(By(A, p)) \in Nat
  BY JustifiedAmounts
<1>5. v + a >= Weight(By(B, p))
  BY <1>3, <1>4 DEF Justified
<1>6. B \cap D = {} /\ OnePeer(B) => v + a = Weight(B)
  <2> SUFFICES ASSUME B \cap D = {}, OnePeer(B)
               PROVE  v + a = Weight(B)
    OBVIOUS
  <2>1. A \cap D = {} /\ OnePeer(A)
    BY DEF OnePeer
  <2>2. v = Weight(A)
    BY <2>1 DEF Justified
  <2> QED BY <2>2, <1>2, <1>4
<1>7. v + a \in Nat /\ v + a > 0 /\ B # {}
  BY DEF Justified
<1> HIDE DEF B
<1>8. Justified(v + a, B, D, p)
  BY <1>1, <1>5, <1>6, <1>7 DEF Justified
<1> QED BY <1>8 DEF B

(* x comes to p in a delta. *)
LEMMA JustifiedDeliver ==
    ASSUME NEW v, NEW A, NEW D, NEW p, Justified(v, A, D, p),
           NEW x, x.by = p => x \in A, NEW a, a = x.evidence.amount, a \in Nat \ {0}
    PROVE  Justified(v + a, A \cup {x}, D \cup {x}, p)
<1> DEFINE B == A \cup {x}
<1>1. /\ IsFiniteSet(B)
      /\ \A y \in B : y.evidence.amount \in Nat \ {0}
  BY FS_AddElement DEF Justified
<1>2. By(B, p) = By(A, p)
  BY DEF By
<1>3. Weight(By(A, p)) \in Nat
  BY JustifiedAmounts
<1>4. v + a \in Nat /\ v + a > 0 /\ B # {} /\ v + a >= Weight(By(B, p))
  BY <1>2, <1>3 DEF Justified
<1>5. B \cap (D \cup {x}) # {}
  OBVIOUS
<1> HIDE DEF B
<1>6. Justified(v + a, B, D \cup {x}, p)
  BY <1>1, <1>4, <1>5 DEF Justified
<1> QED BY <1>6 DEF B

(* p takes what q has, and one of the two has all if one peer saw it. *)
LEMMA JustifiedMerge ==
    ASSUME NEW v, NEW A, NEW D, NEW p, Justified(v, A, D, p),
           NEW w, NEW B, NEW E, NEW q, Justified(w, B, E, q),
           By(B, p) \subseteq A,
           (A \cup B) \cap (D \cup E) = {} /\ OnePeer(A \cup B) => A \subseteq B \/ B \subseteq A
    PROVE  Justified(IF v >= w THEN v ELSE w, A \cup B, D \cup E, p)
<1> DEFINE m == IF v >= w THEN v ELSE w
           U == A \cup B
<1>1. /\ v \in Nat /\ w \in Nat /\ m \in Nat /\ m >= v /\ m >= w
      /\ IsFiniteSet(U) /\ Amounted(U)
      /\ \A x \in U : x.evidence.amount \in Nat \ {0}
  <2>1. v \in Nat /\ w \in Nat /\ IsFiniteSet(A) /\ IsFiniteSet(B)
    BY DEF Justified
  <2>2. IsFiniteSet(U)
    BY <2>1, FS_Union
  <2>3. \A x \in U : x.evidence.amount \in Nat \ {0}
    BY DEF Justified
  <2> QED BY <2>1, <2>2, <2>3 DEF Amounted
<1>2. m > 0 <=> U # {}
  BY DEF Justified
<1>3. m >= Weight(By(U, p))
  <2>1. By(U, p) = By(A, p)
    BY DEF By
  <2>2. v >= Weight(By(A, p)) /\ Weight(By(A, p)) \in Nat
    BY JustifiedAmounts DEF Justified
  <2> HIDE DEF m
  <2> QED BY <1>1, <2>1, <2>2
<1>4. U \cap (D \cup E) = {} /\ OnePeer(U) => m = Weight(U)
  <2> SUFFICES ASSUME U \cap (D \cup E) = {}, OnePeer(U)
               PROVE  m = Weight(U)
    OBVIOUS
  <2>1. A \cap D = {} /\ B \cap E = {} /\ OnePeer(A) /\ OnePeer(B)
    BY DEF OnePeer
  <2>2. v = Weight(A) /\ w = Weight(B)
    BY <2>1 DEF Justified
  <2>3. CASE A \subseteq B
    <3>1. U = B
      BY <2>3
    <3>2. Weight(A) <= Weight(B)
      BY <2>3, JustifiedAmounts, WeightGrows
    <3> HIDE DEF U
    <3> QED BY <1>1, <2>2, <3>1, <3>2
  <2>4. CASE B \subseteq A
    <3>1. U = A
      BY <2>4
    <3>2. Weight(B) <= Weight(A)
      BY <2>4, JustifiedAmounts, WeightGrows
    <3> HIDE DEF U
    <3> QED BY <1>1, <2>2, <3>1, <3>2
  <2> QED BY <2>3, <2>4
<1> HIDE DEF m, U
<1>5. Justified(m, U, D \cup E, p)
  BY <1>1, <1>2, <1>3, <1>4 DEF Justified
<1> QED BY <1>5 DEF m, U

-----------------------------------------------------------------------------
(* The lattices: N the peers' objects, M the deltas that were made, P the  *)
(* payloads                                                                *)

Known == [id : Nat, by : Peer, evidence : Evidence]

Delta == [known : Known, source : Subject, originator : Peer, passes : 0 .. 3,
          decodes : BOOLEAN]

Node(M) ==
    [scores : [Subject -> Score], queue : Seq(M), pending : Seq(M), velocity : Seq(Nat),
     tripped : BOOLEAN, known : SUBSET Known, delivered : SUBSET Known]

IsAbout(x, s, d, o) ==
    /\ x.evidence.target = s /\ x.evidence.dimension = d /\ x.evidence.observer = o

About(n, s, d, o) == {x \in n.known : IsAbout(x, s, d, o)}

Explained(n, p) ==
    \A s \in Subject, d \in Dimension, o \in Subject :
        Justified(Slot(n.scores[s], d, o), About(n, s, d, o), n.delivered, p)

(* What came from a peer by merges alone is a beginning of what it saw.     *)
Ordered(n, N) ==
    \A s \in Subject, d \in Dimension, o \in Subject :
        About(n, s, d, o) \cap n.delivered = {} =>
            \A x \in About(n, s, d, o) : \A y \in About(N[x.by], s, d, o) :
                y.by = x.by /\ y.id < x.id => y \in n.known

Lattices(N, M, P) ==
    /\ N \in [Peer -> Node(M)]
    /\ IsFiniteSet(M) /\ M \subseteq Delta
    /\ \A delta \in M : delta.known \in N[delta.known.by].known
    /\ \A p \in Peer : Explained(N[p], p) /\ Ordered(N[p], N)
    /\ \A p \in Peer : \A x \in N[p].known :
         x \in N[x.by].known /\ x.id <= Cardinality(M)
    /\ \A p \in Peer : \A x, y \in N[p].known :
         x.by = p /\ y.by = p /\ x.id = y.id => x = y
    /\ \A payload \in P :
         payload.data \subseteq M /\ IsFiniteSet(payload.data) /\ payload.trust \in Seq(M)

LatticeInv == Lattices(node, made, payloads)

LEMMA JustifiedSame ==
    ASSUME NEW v, NEW A, NEW D, NEW E, NEW p, Justified(v, A, D, p), A \cap D = A \cap E
    PROVE  Justified(v, A, E, p)
BY DEF Justified

LEMMA NodeFields ==
    ASSUME NEW M, NEW n \in Node(M)
    PROVE  /\ n.scores \in [Subject -> Score] /\ n.queue \in Seq(M) /\ n.pending \in Seq(M)
           /\ n.velocity \in Seq(Nat) /\ n.tripped \in BOOLEAN
           /\ n.known \subseteq Known /\ n.delivered \subseteq Known
           /\ \A x \in n.known : x.by \in Peer /\ x.id \in Nat /\ x.evidence \in Evidence
           /\ \A s \in Subject : n.scores[s] \in Score
<1>1. /\ n.scores \in [Subject -> Score] /\ n.queue \in Seq(M) /\ n.pending \in Seq(M)
      /\ n.velocity \in Seq(Nat) /\ n.tripped \in BOOLEAN
      /\ n.known \subseteq Known /\ n.delivered \subseteq Known
  BY DEF Node
<1> QED BY <1>1 DEF Known

LEMMA EvidenceFields ==
    ASSUME NEW e \in Evidence
    PROVE  /\ e.observer \in Subject /\ e.target \in Subject /\ e.dimension \in Dimension
           /\ e.amount \in Nat \ {0}
BY TrustAssumption DEF One

(* p learns what others know. *)
LEMMA Learn ==
    ASSUME NEW N, NEW M, NEW P, Lattices(N, M, P), NEW p \in Peer, NEW n \in Node(M),
           N[p].known \subseteq n.known,
           \A x \in n.known \ N[p].known : x \in N[x.by].known,
           \A x \in n.known : x.id <= Cardinality(M),
           Explained(n, p), Ordered(n, N)
    PROVE  Lattices([N EXCEPT ![p] = n], M, P)
<1> DEFINE F == [N EXCEPT ![p] = n]
<1>1. N \in [Peer -> Node(M)]
  BY DEF Lattices
<1>2. F \in [Peer -> Node(M)] /\ F[p] = n /\ \A q \in Peer \ {p} : F[q] = N[q]
  BY <1>1
<1> HIDE DEF F
<1>3. ASSUME NEW q \in Peer
      PROVE  /\ N[q].known \subseteq F[q].known
             /\ \A x \in F[q].known : /\ x.by = q => x \in N[q].known
                                      /\ x.by \in Peer
  <2>1. \A x \in F[q].known : x.by \in Peer
    BY <1>2, NodeFields
  <2> QED BY <1>2, <2>1
<1>4. ASSUME NEW q \in Peer
      PROVE  Ordered(F[q], N)
  BY <1>2 DEF Lattices
<1>5. ASSUME NEW q \in Peer
      PROVE  Ordered(F[q], F)
  <2> SUFFICES ASSUME NEW s \in Subject, NEW d \in Dimension, NEW o \in Subject,
                      About(F[q], s, d, o) \cap F[q].delivered = {},
                      NEW x \in About(F[q], s, d, o), NEW y \in About(F[x.by], s, d, o),
                      y.by = x.by, y.id < x.id
               PROVE  y \in F[q].known
    BY DEF Ordered
  <2>1. x \in F[q].known /\ x.by \in Peer
    BY <1>3 DEF About
  <2>2. y \in F[x.by].known /\ IsAbout(y, s, d, o)
    BY DEF About
  <2>3. y \in N[x.by].known
    BY <1>3, <2>1, <2>2
  <2>4. y \in About(N[x.by], s, d, o)
    BY <2>2, <2>3 DEF About
  <2> QED BY <1>4, <2>4 DEF Ordered
<1>6. \A q \in Peer : Explained(F[q], q)
  BY <1>2 DEF Lattices
<1>7. \A delta \in M : delta.known \in F[delta.known.by].known
  <2> TAKE delta \in M
  <2>1. delta.known.by \in Peer /\ delta.known \in N[delta.known.by].known
    BY DEF Lattices, Delta, Known
  <2> QED BY <1>3, <2>1
<1>8. ASSUME NEW q \in Peer, NEW x \in F[q].known
      PROVE  x \in F[x.by].known /\ x.id <= Cardinality(M)
  <2>1. x \in N[x.by].known /\ x.id <= Cardinality(M)
    BY <1>2 DEF Lattices
  <2> QED BY <1>3, <2>1
<1>9. ASSUME NEW q \in Peer, NEW x \in F[q].known, NEW y \in F[q].known,
             x.by = q, y.by = q, x.id = y.id
      PROVE  x = y
  BY <1>3, <1>9 DEF Lattices
<1>10. Lattices(F, M, P)
  BY <1>2, <1>5, <1>6, <1>7, <1>8, <1>9 DEF Lattices
<1> QED BY <1>10 DEF F

LEMMA Quiet ==
    ASSUME NEW N, NEW M, NEW P, Lattices(N, M, P), NEW p \in Peer, NEW n \in Node(M),
           n.scores = N[p].scores, n.known = N[p].known, n.delivered = N[p].delivered
    PROVE  Lattices([N EXCEPT ![p] = n], M, P)
<1>1. \A s, d, o : About(n, s, d, o) = About(N[p], s, d, o)
  BY DEF About
<1>2. Explained(N[p], p) /\ Ordered(N[p], N)
  BY DEF Lattices
<1>3. Explained(n, p)
  BY <1>1, <1>2 DEF Explained
<1>4. Ordered(n, N)
  BY <1>1, <1>2 DEF Ordered
<1>5. \A x \in n.known : x.id <= Cardinality(M)
  BY DEF Lattices
<1> QED BY <1>3, <1>4, <1>5, Learn

LEMMA LastOfType ==
    ASSUME NEW S, NEW s \in Seq(S), NEW k \in Nat
    PROVE  LastOf(k, s) \in Seq(S)
<1>1. Len(s) \in Nat /\ Len(s) <= Len(s)
  OBVIOUS
<1> DEFINE i == IF Len(s) > k THEN Len(s) - k + 1 ELSE 1
<1>2. i \in Nat \ {0}
  BY <1>1
<1> HIDE DEF i
<1>3. SubSeq(s, i, Len(s)) \in Seq(S)
  BY <1>1, <1>2
<1> QED BY <1>3 DEF LastOf, i

LEMMA RecordTrustChangeKeeps ==
    ASSUME NEW M, NEW n \in Node(M), NEW old \in Score, NEW new \in Score
    PROVE  LET m == RecordTrustChange(n, old, new)
           IN /\ m \in Node(M) /\ m.queue = n.queue
              /\ m.scores = n.scores /\ m.known = n.known /\ m.delivered = n.delivered
<1> DEFINE change == OverallTrust(new) - OverallTrust(old)
           v == IF change < 0 THEN -change ELSE change
           velocity == LastOf(Window, Append(n.velocity, v))
           tripped == n.tripped \/ Anomalous(velocity)
<1>1. v \in Nat
  <2>1. OverallTrust(new) \in Nat /\ OverallTrust(old) \in Nat
    BY TrustIsNat
  <2> QED BY <2>1
<1>2. velocity \in Seq(Nat)
  <2>1. n.velocity \in Seq(Nat)
    BY NodeFields
  <2> HIDE DEF v
  <2>2. Append(n.velocity, v) \in Seq(Nat)
    BY <1>1, <2>1
  <2>3. Window \in Nat
    BY TrustAssumption
  <2> QED BY <2>2, <2>3, LastOfType
<1>3. tripped \in BOOLEAN
  BY DEF Anomalous
<1>4. RecordTrustChange(n, old, new) = [n EXCEPT !.velocity = velocity, !.tripped = tripped]
  BY DEF RecordTrustChange
<1> HIDE DEF velocity, tripped
<1> QED BY <1>2, <1>3, <1>4 DEF Node

(* A slot is one more piece of evidence; its new score has it. *)
LEMMA JoinRecorded ==
    ASSUME NEW s \in Score, NEW o \in Subject, NEW d \in Dimension, NEW a \in Nat
    PROVE  LET new == JoinScores(s, RecordEvidence(s, o, d, a))
           IN /\ new \in Score
              /\ \A c, q : Slot(new, c, q) = IF c = d /\ q = o THEN Slot(s, c, q) + a
                                             ELSE Slot(s, c, q)
<1> DEFINE r == RecordEvidence(s, o, d, a)
           new == JoinScores(s, r)
<1>1. /\ r \in Score
      /\ \A c, q : Slot(r, c, q) = IF c = d /\ q = o THEN Slot(s, c, q) + a
                                   ELSE Slot(s, c, q)
  BY RecordScore
<1> HIDE DEF r
<1>2. /\ new \in Score
      /\ \A c, q : Slot(new, c, q) = IF Slot(s, c, q) >= Slot(r, c, q) THEN Slot(s, c, q)
                                     ELSE Slot(r, c, q)
  BY <1>1, JoinScore
<1> HIDE DEF new
<1>3. ASSUME NEW c, NEW q
      PROVE  Slot(new, c, q) = IF c = d /\ q = o THEN Slot(s, c, q) + a ELSE Slot(s, c, q)
  <2>1. Slot(s, c, q) \in Nat
    BY ScoreType
  <2> QED BY <1>1, <1>2, <2>1
<1>4. new \in Score
  BY <1>2
<1> QED BY <1>3, <1>4 DEF new, r

(* n with another score of t, and x among what it knows *)
Scored(n, t, new, x, D) ==
    [n EXCEPT !.scores[t] = new, !.known = @ \cup {x}, !.delivered = D]

LEMMA NewNodeType ==
    ASSUME NEW M, NEW n \in Node(M), NEW t \in Subject, NEW new \in Score,
           NEW x \in Known, NEW D, D \subseteq Known
    PROVE  /\ Scored(n, t, new, x, D) \in Node(M)
           /\ Scored(n, t, new, x, D).known = n.known \cup {x}
           /\ Scored(n, t, new, x, D).delivered = D
           /\ Scored(n, t, new, x, D).queue = n.queue
           /\ Scored(n, t, new, x, D).scores[t] = new
           /\ \A s \in Subject \ {t} : Scored(n, t, new, x, D).scores[s] = n.scores[s]
<1> DEFINE scores == [n.scores EXCEPT ![t] = new]
           known == n.known \cup {x}
           m == [n EXCEPT !.scores = scores, !.known = known, !.delivered = D]
<1>1. /\ scores \in [Subject -> Score] /\ scores[t] = new
      /\ \A s \in Subject \ {t} : scores[s] = n.scores[s]
  BY NodeFields
<1>2. known \subseteq Known
  BY NodeFields
<1> HIDE DEF scores, known
<1>3. /\ m \in Node(M) /\ m.scores = scores /\ m.known = known /\ m.delivered = D
      /\ m.queue = n.queue
  BY <1>1, <1>2 DEF Node
<1>4. m = Scored(n, t, new, x, D)
  BY DEF Node, scores, known, Scored
<1>5. m.known = n.known \cup {x}
  BY <1>3 DEF known
<1> HIDE DEF m
<1> QED BY <1>1, <1>3, <1>4, <1>5

LEMMA Deliver ==
    ASSUME NEW N, NEW M, NEW P, Lattices(N, M, P), NEW p \in Peer, NEW delta \in M
    PROVE  Lattices([N EXCEPT ![p] = ApplyEvidence(N[p], delta)], M, P)
<1> DEFINE n == N[p]
           x == delta.known
           e == x.evidence
           old == n.scores[e.target]
           new == JoinScores(old, RecordEvidence(old, e.observer, e.dimension, e.amount))
           m == [n EXCEPT !.scores[e.target] = new, !.known = @ \cup {x},
                          !.delivered = @ \cup {x}]
           r == RecordTrustChange(m, old, new)
<1>1. /\ n \in Node(M) /\ x \in Known /\ x \in N[x.by].known /\ x.by \in Peer
      /\ Explained(n, p) /\ Ordered(n, N) /\ e \in Evidence
  BY DEF Lattices, Delta, Known
<1>2. /\ e.observer \in Subject /\ e.target \in Subject /\ e.dimension \in Dimension
      /\ e.amount \in Nat \ {0}
  BY <1>1, EvidenceFields
<1>3. old \in Score
  BY <1>1, <1>2, NodeFields
<1>4. /\ new \in Score
      /\ \A c, q : Slot(new, c, q) = IF c = e.dimension /\ q = e.observer
                                     THEN Slot(old, c, q) + e.amount ELSE Slot(old, c, q)
  BY <1>2, <1>3, JoinRecorded
<1>5. ApplyEvidence(n, delta) = r
  BY DEF ApplyEvidence
<1> HIDE DEF new
<1>6. /\ m \in Node(M) /\ m.known = n.known \cup {x} /\ m.delivered = n.delivered \cup {x}
      /\ m.scores[e.target] = new
      /\ \A s \in Subject \ {e.target} : m.scores[s] = n.scores[s]
  <2>1. n.delivered \cup {x} \subseteq Known
    BY <1>1, NodeFields
  <2> DEFINE t == e.target
             D == n.delivered \cup {x}
             k == Scored(n, t, new, x, D)
  <2>2. k = m /\ n \in Node(M) /\ t \in Subject /\ D \subseteq Known
    BY <1>1, <1>2, <2>1 DEF Scored
  <2>3. /\ k \in Node(M) /\ k.known = n.known \cup {x} /\ k.delivered = D
        /\ k.scores[t] = new
        /\ \A s \in Subject \ {t} : k.scores[s] = n.scores[s]
    <3>1. /\ n \in Node(M) /\ t \in Subject /\ new \in Score /\ x \in Known
          /\ D \subseteq Known
      BY <1>1, <1>4, <2>2
    <3> HIDE DEF n, x, t, D
    <3> QED BY <3>1, NewNodeType
  <2> QED BY <2>2, <2>3
<1> HIDE DEF m
<1>7. /\ r \in Node(M) /\ r.scores = m.scores /\ r.known = m.known
      /\ r.delivered = m.delivered
  <2> HIDE DEF n, x, e, old
  <2> QED BY <1>3, <1>4, <1>6, RecordTrustChangeKeeps
<1> HIDE DEF r
<1>8. ASSUME NEW s \in Subject, NEW d \in Dimension, NEW o \in Subject
      PROVE  /\ Justified(Slot(r.scores[s], d, o), About(r, s, d, o), r.delivered, p)
             /\ IsAbout(x, s, d, o) => About(r, s, d, o) \cap r.delivered # {}
             /\ ~ IsAbout(x, s, d, o) =>
                  /\ About(r, s, d, o) = About(n, s, d, o)
                  /\ About(r, s, d, o) \cap r.delivered
                       = About(n, s, d, o) \cap n.delivered
  <2> DEFINE A == About(n, s, d, o)
             v == Slot(n.scores[s], d, o)
  <2>1. Justified(v, A, n.delivered, p)
    BY <1>1 DEF Explained
  <2>2. r.delivered = n.delivered \cup {x} /\ r.known = n.known \cup {x}
    BY <1>6, <1>7
  <2>3. CASE IsAbout(x, s, d, o)
    <3>1. About(r, s, d, o) = A \cup {x}
      BY <2>2, <2>3 DEF About
    <3>2. x.by = p => x \in A
      BY <1>1, <2>3 DEF About
    <3>3. s = e.target /\ d = e.dimension /\ o = e.observer
      BY <2>3 DEF IsAbout
    <3>4. Slot(r.scores[s], d, o) = v + e.amount
      BY <1>4, <1>6, <1>7, <3>3
    <3>5. Justified(v + e.amount, A \cup {x}, n.delivered \cup {x}, p)
      <4> DEFINE a == e.amount
                 D == n.delivered
      <4>1. a = x.evidence.amount /\ a \in Nat \ {0}
        BY <1>2
      <4>2. Justified(v, A, D, p)
        BY <2>1
      <4>3. Justified(v + a, A \cup {x}, D \cup {x}, p)
        <5> HIDE DEF a, D, v, A, x
        <5> QED BY <3>2, <4>1, <4>2, JustifiedDeliver
      <4> QED BY <4>3
    <3> HIDE DEF A, v, x, e
    <3> QED BY <2>2, <2>3, <3>1, <3>4, <3>5
  <2>4. CASE ~ IsAbout(x, s, d, o)
    <3>1. About(r, s, d, o) = A /\ A \cap r.delivered = A \cap n.delivered
      BY <2>2, <2>4 DEF About
    <3>2. Slot(r.scores[s], d, o) = v
      <4>1. CASE s # e.target
        BY <1>6, <1>7, <4>1
      <4>2. CASE s = e.target
        <5>1. ~ (d = e.dimension /\ o = e.observer)
          BY <2>4, <4>2 DEF IsAbout
        <5> QED BY <1>4, <1>6, <1>7, <4>2, <5>1
      <4> QED BY <4>1, <4>2
    <3>3. Justified(v, A, r.delivered, p)
      <4> HIDE DEF v, A
      <4> QED BY <2>1, <3>1, JustifiedSame
    <3> HIDE DEF A, v, x, e
    <3> QED BY <2>4, <3>1, <3>2, <3>3 DEF A
  <2> QED BY <2>3, <2>4
<1>9. Explained(r, p)
  BY <1>8 DEF Explained
<1>10. Ordered(r, N)
  <2> SUFFICES ASSUME NEW s \in Subject, NEW d \in Dimension, NEW o \in Subject,
                      About(r, s, d, o) \cap r.delivered = {},
                      NEW z \in About(r, s, d, o), NEW y \in About(N[z.by], s, d, o),
                      y.by = z.by, y.id < z.id
               PROVE  y \in r.known
    BY DEF Ordered
  <2>1. About(r, s, d, o) = About(n, s, d, o) /\ About(n, s, d, o) \cap n.delivered = {}
    BY <1>8
  <2>2. y \in n.known
    BY <1>1, <2>1 DEF Ordered
  <2> QED BY <1>6, <1>7, <2>2
<1>11. /\ n.known \subseteq r.known
       /\ \A z \in r.known \ n.known : z \in N[z.by].known
       /\ \A z \in r.known : z.id <= Cardinality(M)
  <2>1. x.id <= Cardinality(M)
    BY <1>1 DEF Lattices
  <2>2. \A z \in n.known : z.id <= Cardinality(M)
    BY DEF Lattices
  <2> QED BY <1>1, <1>6, <1>7, <2>1, <2>2
<1>12. Lattices([N EXCEPT ![p] = r], M, P)
  <2> HIDE DEF x, e, old
  <2> QED BY <1>7, <1>6, <1>9, <1>10, <1>11, Learn
<1> QED BY <1>5, <1>12

LEMMA AppendType ==
    ASSUME NEW S, NEW s \in Seq(S), NEW x \in S
    PROVE  Append(s, x) \in Seq(S)
OBVIOUS

LEMMA Received ==
    ASSUME NEW N, NEW M, NEW P, Lattices(N, M, P), NEW p \in Peer, NEW delta \in M
    PROVE  Lattices([N EXCEPT ![p] = Receive(N[p], delta)], M, P)
<1> DEFINE n == N[p]
           level == LatticeLevel(n, delta)
           queue == IF ~n.tripped /\ level < 2 /\ PcoVerify(n, delta, level)
                    THEN Append(n.queue, delta) ELSE n.queue
           queued == [n EXCEPT !.queue = queue]
           Q == [N EXCEPT ![p] = queued]
<1>1. N \in [Peer -> Node(M)] /\ n \in Node(M)
  BY DEF Lattices
<1>2. queue \in Seq(M)
  BY <1>1, NodeFields, AppendType
<1>3. Receive(n, delta) = IF LatticeAccepts(n, delta) THEN ApplyEvidence(queued, delta)
                          ELSE queued
  BY DEF Receive, RecordCounterEvidence
<1> HIDE DEF queue
<1>4. /\ queued \in Node(M) /\ queued.scores = n.scores /\ queued.known = n.known
      /\ queued.delivered = n.delivered
  BY <1>1, <1>2 DEF Node
<1> HIDE DEF queued
<1>5. Lattices(Q, M, P)
  BY <1>4, Quiet
<1>6. Q[p] = queued /\ \A m : [Q EXCEPT ![p] = m] = [N EXCEPT ![p] = m]
  BY <1>1
<1> HIDE DEF Q
<1>7. Lattices([Q EXCEPT ![p] = ApplyEvidence(Q[p], delta)], M, P)
  BY <1>5, Deliver
<1>8. Lattices([N EXCEPT ![p] = ApplyEvidence(queued, delta)], M, P)
  BY <1>6, <1>7
<1>9. Lattices([N EXCEPT ![p] = queued], M, P)
  BY <1>5 DEF Q
<1> QED BY <1>3, <1>8, <1>9

LEMMA Verified ==
    ASSUME NEW N, NEW M, NEW P, Lattices(N, M, P), NEW p \in Peer, NEW delta \in M
    PROVE  Lattices([N EXCEPT ![p] = Verify(N[p], delta)], M, P)
<1> DEFINE n == N[p]
           pending == LastOf(QueueLimit, Append(n.pending, delta))
           m == [n EXCEPT !.pending = pending]
<1>1. N \in [Peer -> Node(M)] /\ n \in Node(M)
  BY DEF Lattices
<1>2. pending \in Seq(M)
  <2>1. n.pending \in Seq(M) /\ QueueLimit \in Nat
    BY <1>1, NodeFields, TrustAssumption
  <2>2. Append(n.pending, delta) \in Seq(M)
    BY <2>1, AppendType
  <2> HIDE DEF n
  <2> QED BY <2>1, <2>2, LastOfType
<1>3. Verify(n, delta) = n \/ Verify(n, delta) = m
  BY DEF Verify, RecordCounterEvidence
<1> HIDE DEF pending
<1>4. /\ m \in Node(M) /\ m.scores = n.scores /\ m.known = n.known
      /\ m.delivered = n.delivered
  BY <1>1, <1>2 DEF Node
<1> HIDE DEF m
<1>5. Lattices([N EXCEPT ![p] = m], M, P)
  BY <1>4, Quiet
<1>6. [N EXCEPT ![p] = n] = N
  BY <1>1
<1> QED BY <1>3, <1>5, <1>6

-----------------------------------------------------------------------------
(* Payloads are received delta by delta. *)

Receiving == INSTANCE Folding WITH Op <- Receive, Ch <- Max

Verifying == INSTANCE Folding WITH Op <- Verify, Ch <- Max

LEMMA MaxOfPositions ==
    ASSUME NEW n \in Nat, NEW s \in SUBSET (1 .. n), s # {}
    PROVE  Max(s) \in s /\ \A i \in s : Max(s) >= i
<1> DEFINE T == {k \in Nat : \E i \in s : k = n - i}
<1>1. T \subseteq Nat
  OBVIOUS
<1>2. T # {}
  <2>1. PICK i \in s : TRUE
    OBVIOUS
  <2>2. n - i \in Nat
    OBVIOUS
  <2> QED BY <2>2
<1>3. PICK k \in T : \A l \in Nat : l < k => l \notin T
  <2> HIDE DEF T
  <2> QED BY <1>1, <1>2, Summing!Least
<1>4. PICK i \in s : k = n - i
  OBVIOUS
<1>5. ASSUME NEW j \in s
      PROVE  i >= j
  <2>1. n - j \in T /\ n - j \in Nat
    OBVIOUS
  <2>2. ~ (n - j < k)
    <3> HIDE DEF T
    <3> QED BY <1>3, <2>1
  <2> QED BY <1>4, <2>2
<1> QED BY <1>5 DEF Max

LEMMA PositionsFold ==
    ASSUME NEW n \in Nat
    PROVE  /\ Receiving!Chooses(1 .. n) /\ Receiving!LastIsChosen(n)
           /\ Verifying!Chooses(1 .. n) /\ Verifying!LastIsChosen(n)
<1>1. IsFiniteSet(1 .. n)
  BY FS_Interval
<1>2. \A s \in SUBSET (1 .. n) : s # {} => Max(s) \in s
  BY MaxOfPositions
<1>3. ASSUME NEW k \in 1 .. n
      PROVE  Max(1 .. k) = k
  <2>1. 1 .. k \in SUBSET (1 .. k) /\ k \in Nat /\ k \in 1 .. k
    OBVIOUS
  <2>2. Max(1 .. k) \in 1 .. k /\ \A i \in 1 .. k : Max(1 .. k) >= i
    BY <2>1, MaxOfPositions
  <2>3. Max(1 .. k) >= k /\ Max(1 .. k) <= k /\ Max(1 .. k) \in Int
    BY <2>1, <2>2
  <2> QED BY <2>3
<1> QED BY <1>1, <1>2, <1>3
        DEF Receiving!Chooses, Receiving!LastIsChosen, Receiving!IsFiniteSet,
            Verifying!Chooses, Verifying!LastIsChosen, Verifying!IsFiniteSet, IsFiniteSet

LEMMA ReceivedAll ==
    ASSUME NEW N, NEW M, NEW P, Lattices(N, M, P), NEW p \in Peer, NEW seq \in Seq(M)
    PROVE  Lattices([N EXCEPT ![p] = FoldLeft(Receive, N[p], seq)], M, P)
<1> DEFINE n == Len(seq)
           G == {m \in Node(M) : Lattices([N EXCEPT ![p] = m], M, P)}
<1>1. n \in Nat /\ DOMAIN seq = 1 .. n /\ \A i \in 1 .. n : seq[i] \in M
  OBVIOUS
<1>2. FoldLeft(Receive, N[p], seq) = Receiving!FoldOver(N[p], seq, DOMAIN seq)
  BY DEF FoldLeft, MapThenFoldSet, Receiving!FoldOver
<1>3. N \in [Peer -> Node(M)] /\ N[p] \in G
  <2>1. N \in [Peer -> Node(M)]
    BY DEF Lattices
  <2>2. [N EXCEPT ![p] = N[p]] = N
    BY <2>1
  <2> QED BY <2>1, <2>2
<1>4. ASSUME NEW g \in G, NEW delta \in M
      PROVE  Receive(g, delta) \in G
  <2> DEFINE S == [N EXCEPT ![p] = g]
  <2>1. Lattices(S, M, P)
    OBVIOUS
  <2>2. S[p] = g /\ \A m : [S EXCEPT ![p] = m] = [N EXCEPT ![p] = m]
    BY <1>3
  <2> HIDE DEF S
  <2>3. Lattices([S EXCEPT ![p] = Receive(S[p], delta)], M, P)
    BY <2>1, Received
  <2> DEFINE m == Receive(g, delta)
  <2>4. Lattices([N EXCEPT ![p] = m], M, P)
    BY <2>2, <2>3
  <2> HIDE DEF m
  <2>5. [N EXCEPT ![p] = m] \in [Peer -> Node(M)] /\ [N EXCEPT ![p] = m][p] = m
    BY <2>4, <1>3 DEF Lattices
  <2>6. m \in Node(M)
    BY <2>5
  <2>7. m \in G
    BY <2>4, <2>6
  <2> QED BY <2>7 DEF m
<1> HIDE DEF n, G
<1>5. Receiving!FoldOver(N[p], seq, 1 .. n) \in G
  <2>1. \A g \in G : \A i \in 1 .. n : Receive(g, seq[i]) \in G
    BY <1>1, <1>4
  <2> QED BY <1>1, <1>3, <2>1, PositionsFold, Receiving!FoldStays
<1> QED BY <1>1, <1>2, <1>5 DEF G

LEMMA VerifiedAll ==
    ASSUME NEW N, NEW M, NEW P, Lattices(N, M, P), NEW p \in Peer, NEW seq \in Seq(M)
    PROVE  Lattices([N EXCEPT ![p] = FoldLeft(Verify, N[p], seq)], M, P)
<1> DEFINE n == Len(seq)
           G == {m \in Node(M) : Lattices([N EXCEPT ![p] = m], M, P)}
<1>1. n \in Nat /\ DOMAIN seq = 1 .. n /\ \A i \in 1 .. n : seq[i] \in M
  OBVIOUS
<1>2. FoldLeft(Verify, N[p], seq) = Verifying!FoldOver(N[p], seq, DOMAIN seq)
  BY DEF FoldLeft, MapThenFoldSet, Verifying!FoldOver
<1>3. N \in [Peer -> Node(M)] /\ N[p] \in G
  <2>1. N \in [Peer -> Node(M)]
    BY DEF Lattices
  <2>2. [N EXCEPT ![p] = N[p]] = N
    BY <2>1
  <2> QED BY <2>1, <2>2
<1>4. ASSUME NEW g \in G, NEW delta \in M
      PROVE  Verify(g, delta) \in G
  <2> DEFINE S == [N EXCEPT ![p] = g]
  <2>1. Lattices(S, M, P)
    OBVIOUS
  <2>2. S[p] = g /\ \A m : [S EXCEPT ![p] = m] = [N EXCEPT ![p] = m]
    BY <1>3
  <2> HIDE DEF S
  <2>3. Lattices([S EXCEPT ![p] = Verify(S[p], delta)], M, P)
    BY <2>1, Verified
  <2> DEFINE m == Verify(g, delta)
  <2>4. Lattices([N EXCEPT ![p] = m], M, P)
    BY <2>2, <2>3
  <2> HIDE DEF m
  <2>5. [N EXCEPT ![p] = m] \in [Peer -> Node(M)] /\ [N EXCEPT ![p] = m][p] = m
    BY <2>4, <1>3 DEF Lattices
  <2>6. m \in Node(M)
    BY <2>5
  <2>7. m \in G
    BY <2>4, <2>6
  <2> QED BY <2>7 DEF m
<1> HIDE DEF n, G
<1>5. Verifying!FoldOver(N[p], seq, 1 .. n) \in G
  <2>1. \A g \in G : \A i \in 1 .. n : Verify(g, seq[i]) \in G
    BY <1>1, <1>4
  <2> QED BY <1>1, <1>3, <2>1, PositionsFold, Verifying!FoldStays
<1> QED BY <1>1, <1>2, <1>5 DEF G

LEMMA SetToSeqType ==
    ASSUME NEW S, IsFiniteSet(S), NEW T, S \subseteq T
    PROVE  SetToSeq(S) \in Seq(T)
<1>1. PICK n \in Nat : ExistsBijection(1 .. n, S)
  BY FS_NatBijection
<1>2. Cardinality(S) = n
  BY <1>1, FS_CountingElements
<1>3. \E f \in [1 .. n -> S] : IsInjective(f)
  BY <1>1 DEF ExistsBijection, Bijection, Injection
<1>4. SetToSeq(S) \in [1 .. n -> S]
  BY <1>2, <1>3 DEF SetToSeq
<1>5. SetToSeq(S) \in [1 .. n -> T]
  BY <1>4
<1> QED BY <1>5

-----------------------------------------------------------------------------
(* Observations and merges *)

LEMMA MoreDeltas ==
    ASSUME NEW M, NEW L, M \subseteq L
    PROVE  Node(M) \subseteq Node(L) /\ Seq(M) \subseteq Seq(L)
<1>1. Seq(M) \subseteq Seq(L)
  OBVIOUS
<1> QED BY <1>1 DEF Node

(* p observes e, and gets delta. *)
LEMMA Observed ==
    ASSUME NEW N, NEW M, NEW P, Lattices(N, M, P), NEW p \in Peer, NEW e \in Evidence,
           NEW x, x = [id |-> Cardinality(M) + 1, by |-> p, evidence |-> e],
           NEW delta \in Delta, delta.known = x,
           NEW n \in Node(M), n.known = N[p].known \cup {x},
           n.delivered = N[p].delivered,
           \A s \in Subject, d \in Dimension, o \in Subject :
               Slot(n.scores[s], d, o)
                 = IF IsAbout(x, s, d, o) THEN Slot(N[p].scores[s], d, o) + e.amount
                   ELSE Slot(N[p].scores[s], d, o)
    PROVE  Lattices([N EXCEPT ![p] = n], M \cup {delta}, P)
<1> DEFINE F == [N EXCEPT ![p] = n]
           L == M \cup {delta}
<1>1. N \in [Peer -> Node(M)] /\ IsFiniteSet(M) /\ M \subseteq Delta
  BY DEF Lattices
<1>2. F[p] = n /\ \A q \in Peer \ {p} : F[q] = N[q]
  BY <1>1
<1>3. Cardinality(M) \in Nat
  BY <1>1, FS_CardinalityType
<1>4. x.id = Cardinality(M) + 1 /\ x.by = p /\ x.evidence = e
  OBVIOUS
<1>5. ASSUME NEW q \in Peer, NEW y \in N[q].known
      PROVE  /\ y.id \in Nat /\ y.id < x.id /\ y # x /\ y.by \in Peer
             /\ y \in N[y.by].known
  <2>1. y.id \in Nat /\ y.by \in Peer
    BY <1>1, NodeFields
  <2>2. y.id <= Cardinality(M) /\ y \in N[y.by].known
    BY DEF Lattices
  <2> QED BY <1>3, <1>4, <2>1, <2>2
<1>6. delta \notin M
  <2> SUFFICES ASSUME delta \in M
               PROVE  FALSE
    OBVIOUS
  <2>1. x.by \in Peer /\ x \in N[x.by].known
    BY <1>4 DEF Lattices
  <2> QED BY <1>5, <2>1
<1>7. IsFiniteSet(L) /\ Cardinality(L) = Cardinality(M) + 1 /\ L \subseteq Delta
  BY <1>1, <1>6, FS_AddElement
<1>8. Node(M) \subseteq Node(L) /\ Seq(M) \subseteq Seq(L)
  BY MoreDeltas
<1>9. F \in [Peer -> Node(L)]
  BY <1>1, <1>8
<1> HIDE DEF F, L
<1>10. ASSUME NEW q \in Peer
       PROVE  /\ N[q].known \subseteq F[q].known
              /\ F[q].delivered = N[q].delivered
              /\ \A y \in F[q].known : y \in N[q].known \/ (y = x /\ q = p)
  BY <1>2
<1>11. x \in F[p].known
  BY <1>2
<1>12. ASSUME NEW s \in Subject, NEW d \in Dimension, NEW o \in Subject
       PROVE  Justified(Slot(n.scores[s], d, o), About(n, s, d, o), n.delivered, p)
  <2> DEFINE v == Slot(N[p].scores[s], d, o)
             A == About(N[p], s, d, o)
             D == N[p].delivered
  <2>1. Justified(v, A, D, p)
    BY DEF Lattices, Explained
  <2>2. x \notin A
    BY <1>5 DEF About
  <2>3. e.amount \in Nat \ {0}
    BY EvidenceFields
  <2>4. CASE IsAbout(x, s, d, o)
    <3> DEFINE a == e.amount
    <3>1. About(n, s, d, o) = A \cup {x} /\ Slot(n.scores[s], d, o) = v + a
      BY <2>4 DEF About
    <3>2. a = x.evidence.amount /\ x.by = p /\ a \in Nat \ {0}
      BY <1>4, <2>3
    <3>3. Justified(v + a, A \cup {x}, D, p)
      <4> HIDE DEF v, A, D, a
      <4> QED BY <2>1, <2>2, <3>2, JustifiedObserve
    <3> HIDE DEF A
    <3> QED BY <3>1, <3>3
  <2>5. CASE ~ IsAbout(x, s, d, o)
    <3>1. About(n, s, d, o) = A /\ Slot(n.scores[s], d, o) = v
      BY <2>5 DEF About
    <3> HIDE DEF A
    <3> QED BY <2>1, <3>1
  <2> QED BY <2>4, <2>5
<1>13. ASSUME NEW q \in Peer
       PROVE  Explained(F[q], q)
  <2>1. Explained(n, p)
    BY <1>12 DEF Explained
  <2> QED BY <1>2, <2>1 DEF Lattices
<1>14. ASSUME NEW q \in Peer
       PROVE  Ordered(F[q], F)
  <2> SUFFICES ASSUME NEW s \in Subject, NEW d \in Dimension, NEW o \in Subject,
                      About(F[q], s, d, o) \cap F[q].delivered = {},
                      NEW z \in About(F[q], s, d, o), NEW y \in About(F[z.by], s, d, o),
                      y.by = z.by, y.id < z.id
               PROVE  y \in F[q].known
    BY DEF Ordered
  <2>1. /\ z \in F[q].known /\ IsAbout(z, s, d, o)
        /\ y \in F[z.by].known /\ IsAbout(y, s, d, o)
    BY DEF About
  <2>2. z.by \in Peer
    BY <1>4, <1>5, <1>10, <2>1
  <2>3. CASE z \in N[q].known
    <3>1. y # x
      <4>1. z.id \in Nat /\ z.id < x.id /\ x.id \in Nat
        BY <1>3, <1>4, <1>5, <2>3
      <4> SUFFICES ASSUME y = x
                   PROVE  FALSE
        OBVIOUS
      <4>2. x.id < z.id
        OBVIOUS
      <4> QED BY <4>1, <4>2
    <3>2. y \in N[z.by].known
      BY <1>10, <2>1, <2>2, <3>1
    <3>3. About(N[q], s, d, o) \cap N[q].delivered = {}
      BY <1>10 DEF About
    <3>4. z \in About(N[q], s, d, o) /\ y \in About(N[z.by], s, d, o)
      BY <2>1, <2>3, <3>2 DEF About
    <3>5. Ordered(N[q], N)
      BY DEF Lattices
    <3>6. y \in N[q].known
      BY <3>3, <3>4, <3>5 DEF Ordered
    <3> QED BY <1>10, <3>6
  <2>4. CASE z = x /\ q = p
    BY <1>4, <2>1, <2>4
  <2> QED BY <1>10, <2>1, <2>3, <2>4
<1>15. \A d \in L : d.known \in F[d.known.by].known
  <2> TAKE d \in L
  <2>1. CASE d \in M
    <3>1. d.known.by \in Peer /\ d.known \in N[d.known.by].known
      BY <1>1, <2>1 DEF Lattices, Delta, Known
    <3> QED BY <1>10, <3>1
  <2>2. CASE d = delta
    BY <1>4, <1>11, <2>2
  <2> QED BY <2>1, <2>2 DEF L
<1>16. ASSUME NEW q \in Peer, NEW y \in F[q].known
       PROVE  y \in F[y.by].known /\ y.id <= Cardinality(L)
  <2>1. CASE y \in N[q].known
    <3>1. y.by \in Peer /\ y \in N[y.by].known /\ y.id \in Nat /\ y.id < x.id
      BY <1>5, <2>1
    <3> QED BY <1>3, <1>4, <1>7, <1>10, <3>1
  <2>2. CASE y = x /\ q = p
    BY <1>3, <1>4, <1>7, <1>11, <2>2
  <2> QED BY <1>10, <2>1, <2>2
<1>17. ASSUME NEW q \in Peer, NEW y \in F[q].known, NEW z \in F[q].known,
              y.by = q, z.by = q, y.id = z.id
       PROVE  y = z
  <2>1. CASE y \in N[q].known /\ z \in N[q].known
    BY <1>17, <2>1 DEF Lattices
  <2>2. CASE y = x /\ z = x
    BY <2>2
  <2>3. CASE (y = x /\ z \in N[q].known) \/ (z = x /\ y \in N[q].known)
    BY <1>5, <1>17, <2>3
  <2> QED BY <1>10, <2>1, <2>2, <2>3
<1>18. \A payload \in P : /\ payload.data \subseteq L /\ IsFiniteSet(payload.data)
                          /\ payload.trust \in Seq(L)
  BY <1>8 DEF Lattices, L
<1>19. Lattices(F, L, P)
  BY <1>7, <1>9, <1>13, <1>14, <1>15, <1>16, <1>17, <1>18 DEF Lattices
<1> QED BY <1>19 DEF F, L

LEMMA MergedLattice ==
    ASSUME NEW N, NEW M, NEW P, Lattices(N, M, P), NEW p \in Peer, NEW q \in Peer,
           NEW n \in Node(M),
           n.known = N[p].known \cup N[q].known,
           n.delivered = N[p].delivered \cup N[q].delivered,
           \A s \in Subject : n.scores[s] = JoinScores(N[p].scores[s], N[q].scores[s])
    PROVE  Lattices([N EXCEPT ![p] = n], M, P)
<1>1. N[p] \in Node(M) /\ N[q] \in Node(M)
  BY DEF Lattices
<1>2. ASSUME NEW r \in Peer, NEW x \in N[r].known
      PROVE  x.by \in Peer /\ x.id \in Nat /\ x \in N[x.by].known /\ x.id <= Cardinality(M)
  <2>1. N[r] \in Node(M)
    BY DEF Lattices
  <2> QED BY <2>1, NodeFields DEF Lattices
<1>3. Ordered(N[p], N) /\ Ordered(N[q], N) /\ Explained(N[p], p) /\ Explained(N[q], q)
  BY DEF Lattices
<1>4. ASSUME NEW s \in Subject, NEW d \in Dimension, NEW o \in Subject
      PROVE  Justified(Slot(n.scores[s], d, o), About(n, s, d, o), n.delivered, p)
  <2> DEFINE A == About(N[p], s, d, o)
             B == About(N[q], s, d, o)
             D == N[p].delivered
             E == N[q].delivered
             v == Slot(N[p].scores[s], d, o)
             w == Slot(N[q].scores[s], d, o)
  <2>1. Justified(v, A, D, p) /\ Justified(w, B, E, q)
    BY <1>3 DEF Explained
  <2>2. About(n, s, d, o) = A \cup B
    BY DEF About
  <2>3. Slot(n.scores[s], d, o) = IF v >= w THEN v ELSE w
    <3>1. N[p].scores[s] \in Score /\ N[q].scores[s] \in Score
      BY <1>1, NodeFields
    <3> QED BY <3>1, JoinScore
  <2>4. By(B, p) \subseteq A
    BY <1>2 DEF By, About
  <2>5. ASSUME (A \cup B) \cap (D \cup E) = {}, OnePeer(A \cup B)
        PROVE  A \subseteq B \/ B \subseteq A
    <3> SUFFICES ASSUME NEW x \in A, x \notin B, NEW y \in B, y \notin A
                 PROVE  FALSE
      OBVIOUS
    <3>1. x.by = y.by
      BY <2>5 DEF OnePeer
    <3>2. /\ x \in N[p].known /\ IsAbout(x, s, d, o)
          /\ y \in N[q].known /\ IsAbout(y, s, d, o)
      BY DEF About
    <3>3. /\ x.by \in Peer /\ x.id \in Nat /\ y.id \in Nat
          /\ x \in N[x.by].known /\ y \in N[x.by].known
      BY <1>2, <3>1, <3>2
    <3>4. x.id # y.id
      <4>1. x # y
        BY <3>2
      <4> QED BY <3>1, <3>3, <4>1 DEF Lattices
    <3>5. x \in About(N[y.by], s, d, o) /\ y \in About(N[x.by], s, d, o)
      BY <3>1, <3>2, <3>3 DEF About
    <3>6. A \cap D = {} /\ B \cap E = {}
      BY <2>5
    <3>7. CASE y.id < x.id
      <4>1. y \in N[p].known
        BY <1>3, <3>1, <3>5, <3>6, <3>7 DEF Ordered
      <4> QED BY <3>2, <4>1 DEF About
    <3>8. CASE x.id < y.id
      <4>1. x \in N[q].known
        BY <1>3, <3>1, <3>5, <3>6, <3>8 DEF Ordered
      <4> QED BY <3>2, <4>1 DEF About
    <3> QED BY <3>3, <3>4, <3>7, <3>8
  <2>6. Justified(IF v >= w THEN v ELSE w, A \cup B, D \cup E, p)
    <3> HIDE DEF A, B, D, E, v, w
    <3> QED BY <2>1, <2>4, <2>5, JustifiedMerge
  <2> HIDE DEF A, B, v, w
  <2> QED BY <2>2, <2>3, <2>6
<1>5. Explained(n, p)
  BY <1>4 DEF Explained
<1>6. Ordered(n, N)
  <2> SUFFICES ASSUME NEW s \in Subject, NEW d \in Dimension, NEW o \in Subject,
                      About(n, s, d, o) \cap n.delivered = {},
                      NEW z \in About(n, s, d, o), NEW y \in About(N[z.by], s, d, o),
                      y.by = z.by, y.id < z.id
               PROVE  y \in n.known
    BY DEF Ordered
  <2>1. /\ About(N[p], s, d, o) \cap N[p].delivered = {}
        /\ About(N[q], s, d, o) \cap N[q].delivered = {}
        /\ z \in About(N[p], s, d, o) \/ z \in About(N[q], s, d, o)
    BY DEF About
  <2>2. y \in N[p].known \/ y \in N[q].known
    BY <1>3, <2>1 DEF Ordered
  <2> QED BY <2>2
<1>7. /\ N[p].known \subseteq n.known
      /\ \A x \in n.known \ N[p].known : x \in N[x.by].known
      /\ \A x \in n.known : x.id <= Cardinality(M)
  BY <1>2
<1> QED BY <1>5, <1>6, <1>7, Learn

-----------------------------------------------------------------------------
(* The steps of the lattices *)

LEMMA LatticesInit ==
    ASSUME TrustInit
    PROVE  LatticeInv
<1>1. NewNode \in Node({})
  <2>1. [s \in Subject |-> Probationary] \in [Subject -> Score]
    BY EmptyScore
  <2>2. <<>> \in Seq({}) /\ <<>> \in Seq(Nat)
    OBVIOUS
  <2> QED BY <2>1, <2>2 DEF NewNode, Node
<1>2. node = [p \in Peer |-> NewNode] /\ made = {} /\ payloads = {}
  BY DEF TrustInit
<1>3. node \in [Peer -> Node(made)] /\ \A p \in Peer : node[p] = NewNode
  BY <1>1, <1>2
<1>4. /\ NewNode.known = {} /\ NewNode.delivered = {}
      /\ \A s \in Subject : NewNode.scores[s] = Probationary
  BY DEF NewNode
<1>5. \A s, d, o : About(NewNode, s, d, o) = {}
  BY <1>4 DEF About
<1>6. \A p : Explained(NewNode, p)
  BY <1>4, <1>5, EmptyScore, JustifiedNone DEF Explained
<1>7. \A p \in Peer : Explained(node[p], p) /\ Ordered(node[p], node)
  BY <1>3, <1>5, <1>6 DEF Ordered
<1>8. IsFiniteSet(made) /\ made \subseteq Delta
  BY <1>2, FS_EmptySet
<1> QED BY <1>2, <1>3, <1>4, <1>7, <1>8 DEF LatticeInv, Lattices

LEMMA ObserveStep ==
    ASSUME LatticeInv, NEW p \in Peer, NEW e \in Evidence, Observe(p, e)
    PROVE  LatticeInv'
<1> DEFINE n == node[p]
           t == e.target
           old == n.scores[t]
           new == RecordEvidence(old, e.observer, e.dimension, e.amount)
           x == [id |-> Cardinality(made) + 1, by |-> p, evidence |-> e]
           m == Scored(n, t, new, x, n.delivered)
           r == RecordTrustChange(m, old, new)
<1>1. /\ node \in [Peer -> Node(made)] /\ n \in Node(made)
      /\ IsFiniteSet(made) /\ Cardinality(made) \in Nat
  BY FS_CardinalityType DEF LatticeInv, Lattices
<1>2. /\ e.observer \in Subject /\ t \in Subject /\ e.dimension \in Dimension
      /\ e.amount \in Nat
  BY EvidenceFields
<1>3. old \in Score /\ n.delivered \subseteq Known
  BY <1>1, <1>2, NodeFields
<1>4. /\ new \in Score
      /\ \A c, q : Slot(new, c, q) = IF c = e.dimension /\ q = e.observer
                                     THEN Slot(old, c, q) + e.amount ELSE Slot(old, c, q)
  <2> HIDE DEF old
  <2> QED BY <1>2, <1>3, RecordScore
<1>5. x \in Known
  BY <1>1 DEF Known
<1>6. [n EXCEPT !.scores[t] = new, !.known = @ \cup {x}] = m
  BY <1>1 DEF Scored, Node
<1>7. node' = [node EXCEPT ![p] = r] /\ payloads' = payloads
  BY <1>6 DEF Observe
<1>8. PICK check \in Checks :
         made' = made \cup {[known |-> x, source |-> e.observer, originator |-> p,
                             passes |-> check.passes, decodes |-> check.decodes]}
  BY DEF Observe
<1> DEFINE delta == [known |-> x, source |-> e.observer, originator |-> p,
                     passes |-> check.passes, decodes |-> check.decodes]
<1>9. delta \in Delta /\ delta.known = x
  BY <1>2, <1>5, TrustAssumption DEF Delta
<1> HIDE DEF new
<1>10. /\ m \in Node(made) /\ m.known = n.known \cup {x} /\ m.delivered = n.delivered
       /\ m.scores[t] = new
       /\ \A s \in Subject \ {t} : m.scores[s] = n.scores[s]
  <2>1. /\ n \in Node(made) /\ t \in Subject /\ new \in Score /\ x \in Known
        /\ n.delivered \subseteq Known
    BY <1>1, <1>2, <1>3, <1>4, <1>5
  <2> HIDE DEF n, x, t
  <2> QED BY <2>1, NewNodeType
<1> HIDE DEF m
<1>11. /\ r \in Node(made) /\ r.scores = m.scores /\ r.known = m.known
       /\ r.delivered = m.delivered
  <2> HIDE DEF old
  <2> QED BY <1>3, <1>4, <1>10, RecordTrustChangeKeeps
<1> HIDE DEF r
<1>12. ASSUME NEW s \in Subject, NEW d \in Dimension, NEW o \in Subject
       PROVE  Slot(r.scores[s], d, o)
                = IF IsAbout(x, s, d, o) THEN Slot(node[p].scores[s], d, o) + e.amount
                  ELSE Slot(node[p].scores[s], d, o)
  <2>1. IsAbout(x, s, d, o) <=> s = t /\ d = e.dimension /\ o = e.observer
    BY DEF IsAbout
  <2>2. CASE s = t
    BY <1>4, <1>10, <1>11, <2>1, <2>2
  <2>3. CASE s # t
    BY <1>10, <1>11, <2>1, <2>3
  <2> QED BY <2>2, <2>3
<1>13. Lattices([node EXCEPT ![p] = r], made \cup {delta}, payloads)
  <2>1. Lattices(node, made, payloads) /\ r \in Node(made)
    BY <1>11 DEF LatticeInv
  <2>2. r.known = node[p].known \cup {x} /\ r.delivered = node[p].delivered
    BY <1>10, <1>11
  <2>3. x = [id |-> Cardinality(made) + 1, by |-> p, evidence |-> e]
    OBVIOUS
  <2> HIDE DEF delta, x
  <2> QED BY <1>9, <1>12, <2>1, <2>2, <2>3, Observed
<1> QED BY <1>7, <1>8, <1>13 DEF LatticeInv

LEMMA MorePayloads ==
    ASSUME NEW N, NEW M, NEW P, Lattices(N, M, P), NEW data, data \subseteq M,
           IsFiniteSet(data), NEW trust \in Seq(M)
    PROVE  Lattices(N, M, P \cup {[data |-> data, trust |-> trust]})
BY DEF Lattices

LEMMA PrepareStep ==
    ASSUME LatticeInv, NEW p \in Peer, NEW data \in {{}} \cup {{delta} : delta \in made},
           PrepareSync(p, data)
    PROVE  LatticeInv'
<1> DEFINE n == node[p]
           m == [n EXCEPT !.queue = <<>>]
           P == payloads \cup {[data |-> data, trust |-> n.queue]}
<1>1. n \in Node(made) /\ node \in [Peer -> Node(made)]
  BY DEF LatticeInv, Lattices
<1>2. n.queue \in Seq(made)
  BY <1>1, NodeFields
<1>3. data \subseteq made /\ IsFiniteSet(data)
  BY FS_EmptySet, FS_Singleton
<1>4. Lattices(node, made, P)
  <2> HIDE DEF n
  <2> QED BY <1>2, <1>3, MorePayloads DEF LatticeInv
<1>5. /\ m \in Node(made) /\ m.scores = n.scores /\ m.known = n.known
      /\ m.delivered = n.delivered
  <2>1. <<>> \in Seq(made)
    OBVIOUS
  <2> QED BY <1>1, <2>1 DEF Node
<1>6. node' = [node EXCEPT ![p] = m] /\ made' = made /\ payloads' = P
  BY DEF PrepareSync
<1> HIDE DEF m, P
<1>7. Lattices([node EXCEPT ![p] = m], made, P)
  BY <1>4, <1>5, Quiet
<1> QED BY <1>6, <1>7 DEF LatticeInv

LEMMA SyncStep ==
    ASSUME LatticeInv, NEW p \in Peer, NEW payload \in payloads, ReceiveSync(p, payload)
    PROVE  LatticeInv'
<1> DEFINE v == FoldLeft(Verify, node[p], SetToSeq(payload.data))
           r == FoldLeft(Receive, v, payload.trust)
           F == [node EXCEPT ![p] = v]
<1>1. /\ node \in [Peer -> Node(made)]
      /\ payload.data \subseteq made /\ IsFiniteSet(payload.data)
      /\ payload.trust \in Seq(made)
  BY DEF LatticeInv, Lattices
<1>2. SetToSeq(payload.data) \in Seq(made)
  BY <1>1, SetToSeqType
<1>3. Lattices(F, made, payloads)
  BY <1>2, VerifiedAll DEF LatticeInv
<1>4. F[p] = v /\ \A m : [F EXCEPT ![p] = m] = [node EXCEPT ![p] = m]
  BY <1>1
<1> HIDE DEF F, v
<1>5. Lattices([F EXCEPT ![p] = FoldLeft(Receive, F[p], payload.trust)], made, payloads)
  BY <1>1, <1>3, ReceivedAll
<1>6. Lattices([node EXCEPT ![p] = r], made, payloads)
  BY <1>4, <1>5
<1>7. node' = [node EXCEPT ![p] = r] /\ made' = made /\ payloads' = payloads
  BY DEF ReceiveSync, v
<1> QED BY <1>6, <1>7 DEF LatticeInv

LEMMA QuietStep ==
    ASSUME LatticeInv, NEW p \in Peer, RunAsyncFollowup(p) \/ Cooldown(p) \/ ResetBreaker(p)
    PROVE  LatticeInv'
<1> DEFINE n == node[p]
<1>1. n \in Node(made) /\ node \in [Peer -> Node(made)] /\ n.pending \in Seq(made)
  BY NodeFields DEF LatticeInv, Lattices
<1>2. ASSUME NEW m \in Node(made), m.scores = n.scores, m.known = n.known,
             m.delivered = n.delivered, node' = [node EXCEPT ![p] = m],
             UNCHANGED <<made, payloads>>
      PROVE  LatticeInv'
  <2>1. Lattices([node EXCEPT ![p] = m], made, payloads)
    BY <1>2, Quiet DEF LatticeInv
  <2> QED BY <1>2, <2>1 DEF LatticeInv
<1>3. CASE RunAsyncFollowup(p)
  <2> DEFINE batch == IF Len(n.pending) < BatchSize THEN Len(n.pending) ELSE BatchSize
             rest == SubSeq(n.pending, batch + 1, Len(n.pending))
             m == [n EXCEPT !.pending = rest]
  <2>1. batch \in Nat /\ Len(n.pending) \in Nat
    BY <1>1, TrustAssumption
  <2>2. rest \in Seq(made)
    <3>1. batch + 1 \in Nat \ {0} /\ Len(n.pending) <= Len(n.pending)
      BY <2>1
    <3> HIDE DEF n, batch
    <3> QED BY <1>1, <2>1, <3>1
  <2>3. node' = [node EXCEPT ![p] = m] /\ UNCHANGED <<made, payloads>>
    BY <1>1, <1>3 DEF RunAsyncFollowup
  <2> HIDE DEF rest
  <2>4. /\ m \in Node(made) /\ m.scores = n.scores /\ m.known = n.known
        /\ m.delivered = n.delivered
    BY <1>1, <2>2 DEF Node
  <2> HIDE DEF m, n
  <2> QED BY <1>2, <2>3, <2>4
<1>4. CASE Cooldown(p)
  <2> DEFINE m == [n EXCEPT !.tripped = FALSE]
  <2>1. node' = [node EXCEPT ![p] = m] /\ UNCHANGED <<made, payloads>>
    BY <1>1, <1>4 DEF Cooldown
  <2>2. /\ m \in Node(made) /\ m.scores = n.scores /\ m.known = n.known
        /\ m.delivered = n.delivered
    BY <1>1 DEF Node
  <2> HIDE DEF m, n
  <2> QED BY <1>2, <2>1, <2>2
<1>5. CASE ResetBreaker(p)
  <2> DEFINE m == [n EXCEPT !.tripped = FALSE, !.velocity = <<>>]
  <2>1. node' = [node EXCEPT ![p] = m] /\ UNCHANGED <<made, payloads>>
    BY <1>1, <1>5 DEF ResetBreaker
  <2>2. /\ m \in Node(made) /\ m.scores = n.scores /\ m.known = n.known
        /\ m.delivered = n.delivered
    <3>1. <<>> \in Seq(Nat)
      OBVIOUS
    <3> QED BY <1>1, <3>1 DEF Node
  <2> HIDE DEF m, n
  <2> QED BY <1>2, <2>1, <2>2
<1> QED BY <1>3, <1>4, <1>5

LEMMA MergeLatticeStep ==
    ASSUME LatticeInv, NEW p \in Peer, NEW q \in Peer \ {p}, MergeLattice(p, q)
    PROVE  LatticeInv'
<1> DEFINE a == node[p]
           b == node[q]
           joined == [s \in Subject |-> JoinScores(a.scores[s], b.scores[s])]
           known == a.known \cup b.known
           delivered == a.delivered \cup b.delivered
           m == [a EXCEPT !.scores = joined, !.queue = <<>>, !.known = known,
                          !.delivered = delivered]
<1>1. /\ node \in [Peer -> Node(made)] /\ a \in Node(made) /\ b \in Node(made)
  BY DEF LatticeInv, Lattices
<1>2. joined \in [Subject -> Score]
  <2>1. \A s \in Subject : a.scores[s] \in Score /\ b.scores[s] \in Score
    BY <1>1, NodeFields
  <2>2. \A s \in Subject : JoinScores(a.scores[s], b.scores[s]) \in Score
    BY <2>1, JoinScore
  <2> QED BY <2>2
<1>3. known \subseteq Known /\ delivered \subseteq Known /\ <<>> \in Seq(made)
  BY <1>1, NodeFields
<1>4. node' = [node EXCEPT ![p] = m] /\ UNCHANGED <<made, payloads>>
  BY <1>1 DEF MergeLattice
<1>5. \A s \in Subject : joined[s] = JoinScores(node[p].scores[s], node[q].scores[s])
  OBVIOUS
<1>6. known = node[p].known \cup node[q].known
      /\ delivered = node[p].delivered \cup node[q].delivered
  OBVIOUS
<1> HIDE DEF joined, known, delivered
<1>7. /\ m \in Node(made) /\ m.scores = joined /\ m.known = known
      /\ m.delivered = delivered
  BY <1>1, <1>2, <1>3 DEF Node
<1> HIDE DEF m
<1>8. Lattices([node EXCEPT ![p] = m], made, payloads)
  BY <1>5, <1>6, <1>7, MergedLattice DEF LatticeInv
<1> QED BY <1>4, <1>8 DEF LatticeInv

LEMMA LatticeStep ==
    ASSUME LatticeInv, TrustNext
    PROVE  LatticeInv'
<1>1. ASSUME NEW p \in Peer, NEW e \in Evidence, Observe(p, e)
      PROVE  LatticeInv'
  BY <1>1, ObserveStep
<1>2. ASSUME NEW p \in Peer, NEW delta \in made, ReceiveTrustDelta(p, delta)
      PROVE  LatticeInv'
  <2>1. Lattices([node EXCEPT ![p] = Receive(node[p], delta)], made, payloads)
    BY Received DEF LatticeInv
  <2> QED BY <1>2, <2>1 DEF ReceiveTrustDelta, LatticeInv
<1>3. ASSUME NEW p \in Peer, NEW data \in {{}} \cup {{delta} : delta \in made},
             PrepareSync(p, data)
      PROVE  LatticeInv'
  BY <1>3, PrepareStep
<1>4. ASSUME NEW p \in Peer, NEW payload \in payloads, ReceiveSync(p, payload)
      PROVE  LatticeInv'
  BY <1>4, SyncStep
<1>5. ASSUME NEW p \in Peer, RunAsyncFollowup(p) \/ Cooldown(p) \/ ResetBreaker(p)
      PROVE  LatticeInv'
  BY <1>5, QuietStep
<1>6. ASSUME NEW p \in Peer, NEW q \in Peer \ {p}, MergeLattice(p, q)
      PROVE  LatticeInv'
  BY <1>6, MergeLatticeStep
<1> QED BY <1>1, <1>2, <1>3, <1>4, <1>5, <1>6 DEF TrustNext

LEMMA LatticesHold == Spec => []LatticeInv
<1>1. Init => LatticeInv
  BY LatticesInit DEF Init
<1>2. LatticeInv /\ [Next]_vars => LatticeInv'
  <2>1. ASSUME LatticeInv, UNCHANGED trustVars
        PROVE  LatticeInv'
    BY <2>1 DEF LatticeInv, trustVars
  <2>2. UNCHANGED vars => UNCHANGED trustVars
    BY DEF vars, trustVars
  <2> QED BY <2>1, <2>2, LatticeStep DEF Next
<1> QED BY <1>1, <1>2, PTL DEF Spec

LEMMA OneValue ==
    ASSUME NEW A, IsFiniteSet(A), Cardinality({x.by : x \in A}) = 1
    PROVE  OnePeer(A)
<1> DEFINE f == [x \in A |-> x.by]
           T == {x.by : x \in A}
<1>1. f \in Surjection(A, T)
  BY DEF Surjection
<1>2. IsFiniteSet(T)
  <2> HIDE DEF f, T
  <2> QED BY <1>1, FS_Surjection
<1>3. PICK q : T = {q}
  <2> HIDE DEF T
  <2>1. Cardinality(T) = 1
    BY DEF T
  <2> QED BY <1>2, <2>1, FS_Singleton
<1> QED BY <1>3 DEF OnePeer

(* What a slot of a score counts is the evidence of its observer in the     *)
(* peer's causal past: something if there is any, at least all that the     *)
(* peer applied itself, and exactly all of it if it spread from one peer by *)
(* merges of lattices.  record_evidence, receive_trust_delta, receive_sync  *)
(* and merge() keep this in any order, for any peers and evidence.          *)
THEOREM TrustFollowsEvidence == Spec => []EvidenceOfHistory
<1>1. LatticeInv => EvidenceOfHistory
  <2> SUFFICES ASSUME LatticeInv, NEW p \in Peer, NEW s \in Subject, NEW d \in Dimension,
                      NEW o \in Subject
               PROVE  LET slot == Slot(node[p].scores[s], d, o)
                          about == {x \in node[p].known :
                                      x.evidence.target = s
                                        /\ x.evidence.dimension = d
                                        /\ x.evidence.observer = o}
                      IN /\ slot > 0 <=> about # {}
                         /\ slot >= Weight({x \in about : x.by = p})
                         /\ about \cap node[p].delivered = {}
                              /\ Cardinality({x.by : x \in about}) = 1
                              => slot = Weight(about)
    BY DEF EvidenceOfHistory
  <2> DEFINE slot == Slot(node[p].scores[s], d, o)
             A == About(node[p], s, d, o)
  <2>1. Justified(slot, A, node[p].delivered, p)
    BY DEF LatticeInv, Lattices, Explained
  <2>2. A = {x \in node[p].known : x.evidence.target = s /\ x.evidence.dimension = d
                                     /\ x.evidence.observer = o}
    BY DEF About, IsAbout
  <2> HIDE DEF A, slot
  <2>3. /\ slot > 0 <=> A # {}
        /\ slot >= Weight({x \in A : x.by = p})
        /\ A \cap node[p].delivered = {} /\ OnePeer(A) => slot = Weight(A)
        /\ IsFiniteSet(A)
    BY <2>1 DEF Justified, By
  <2>4. Cardinality({x.by : x \in A}) = 1 => OnePeer(A)
    BY <2>3, OneValue
  <2> QED BY <2>2, <2>3, <2>4 DEF slot
<1> QED BY <1>1, LatticesHold, PTL

(* A counter that is full leaves no trust in its dimension. *)
LEMMA FullCounter ==
    ASSUME NEW s \in Score, NEW d \in Dimension, NEW o \in Subject, Slot(s, d, o) >= One
    PROVE  TrustForDimension(s, d) = 0
<1>1. d \in DOMAIN s
  BY DEF Slot, LookUp, EmptyDict, One
<1>2. s[d] \in Counter
  BY <1>1, ScoreType
<1>3. o \in DOMAIN s[d] /\ s[d][o] >= One
  BY <1>1 DEF Slot, LookUp, One
<1>4. IsFiniteSet(DOMAIN s[d]) /\ \A x \in DOMAIN s[d] : s[d][x] \in Nat
  BY <1>2, CounterType
<1>5. s[d][o] <= SumOf(s[d]) /\ SumOf(s[d]) \in Nat /\ s[d][o] \in Nat
  BY <1>3, <1>4, SumAtLeast, SumOfIsNat
<1>6. SumOf(s[d]) >= One
  BY <1>3, <1>5 DEF One
<1> QED BY <1>1, <1>6 DEF TrustForDimension

LEMMA FullCounters ==
    ASSUME NEW s \in Score, \A d \in Dimension : \E o \in Subject : Slot(s, d, o) >= One
    PROVE  VerificationLevel(s) = 3
<1> DEFINE f == [d \in Dimension |-> TrustForDimension(s, d)]
<1>1. IsFiniteSet(DOMAIN f) /\ \A d \in DOMAIN f : f[d] = 0
  BY FullCounter, DimensionAssumption
<1>2. SumOf(f) = 0
  <2> HIDE DEF f
  <2> QED BY <1>1, SumOfNothing
<1>3. OverallTrust(s) = 0
  BY <1>2 DEF OverallTrust
<1>4. Cardinality(Dimension) \in Nat /\ Cardinality(Dimension) # 0
  BY DimensionAssumption, FS_CardinalityType, FS_EmptySet
<1> QED BY <1>3, <1>4 DEF VerificationLevel

(* A peer against whom another applied complete evidence in every dimension *)
(* stays in quarantine there, and receive_trust_delta takes no delta from a *)
(* quarantined source.  verify() takes one exactly if the breaker is        *)
(* tripped, every check passes and its originator is not quarantined, which *)
(* is looked at because the originator of a delta always has a score.       *)
THEOREM QuarantineIsKept == Spec => []QuarantineHolds
<1>1. LatticeInv => QuarantineHolds
  <2> SUFFICES ASSUME LatticeInv, NEW p \in Peer
               PROVE  /\ \A s \in Subject : Condemned(p, s) => Quarantined(p, s)
                      /\ \A delta \in made : Quarantined(p, delta.source) =>
                           /\ ~LatticeAccepts(node[p], delta)
                           /\ VerifierAccepts(node[p], delta)
                                <=> /\ node[p].tripped
                                    /\ delta.passes = 3
                                    /\ ~Quarantined(p, delta.originator)
    BY DEF QuarantineHolds
  <2>1. node[p] \in Node(made)
    BY DEF LatticeInv, Lattices
  <2>2. ASSUME NEW s \in Subject, Condemned(p, s)
        PROVE  Quarantined(p, s)
    <3>1. node[p].scores[s] \in Score
      BY <2>1, NodeFields
    <3>2. ASSUME NEW d \in Dimension
          PROVE  \E o \in Subject : Slot(node[p].scores[s], d, o) >= One
      <4> DEFINE W(o) == {x \in node[p].known :
                            /\ x.evidence.target = s /\ x.evidence.dimension = d
                            /\ x.evidence.observer = o /\ x.by = p}
      <4>1. PICK o \in Subject : Weight(W(o)) >= One
        BY <2>2 DEF Condemned
      <4>2. W(o) = By(About(node[p], s, d, o), p)
        BY DEF By, About, IsAbout
      <4>3. Justified(Slot(node[p].scores[s], d, o), About(node[p], s, d, o),
                      node[p].delivered, p)
        BY DEF LatticeInv, Lattices, Explained
      <4>4. Amounted(W(o))
        BY <4>2, <4>3, FS_Subset DEF Justified, By, Amounted
      <4> HIDE DEF W
      <4>5. Weight(W(o)) \in Nat
        BY <4>4, WeightIsSum
      <4>6. Slot(node[p].scores[s], d, o) \in Nat
              /\ Slot(node[p].scores[s], d, o) >= Weight(W(o))
        BY <4>2, <4>3 DEF Justified
      <4>7. Slot(node[p].scores[s], d, o) >= One
        BY <4>1, <4>5, <4>6 DEF One
      <4> QED BY <4>7
    <3> QED BY <3>1, <3>2, FullCounters DEF Quarantined
  <2>3. ASSUME NEW delta \in made, Quarantined(p, delta.source)
        PROVE  /\ ~LatticeAccepts(node[p], delta)
               /\ VerifierAccepts(node[p], delta)
                    <=> /\ node[p].tripped
                        /\ delta.passes = 3
                        /\ ~Quarantined(p, delta.originator)
    <3>1. delta.originator \in Subject /\ delta.passes \in 0 .. 3
      BY TrustAssumption DEF LatticeInv, Lattices, Delta
    <3>2. DOMAIN node[p].scores = Subject
      BY <2>1, NodeFields
    <3>3. LatticeLevel(node[p], delta) = 3
      BY <2>3 DEF LatticeLevel, Quarantined
    <3>4. ~LatticeAccepts(node[p], delta)
      BY <3>3 DEF LatticeAccepts, PcoVerify
    <3>5. ~node[p].tripped => ~VerifierAccepts(node[p], delta)
      BY <3>3 DEF VerifierAccepts, VerifierLevel, PcoVerify
    <3>6. PcoVerify(node[p], delta, 0) <=> delta.passes > 0
      BY DEF PcoVerify
    <3>7. PcoVerify(node[p], delta, 2)
            <=> delta.passes > 2 /\ ~Quarantined(p, delta.originator)
      BY <3>1, <3>2 DEF PcoVerify, Quarantined
    <3>8. delta.passes > 2 <=> delta.passes = 3
      BY <3>1
    <3>9. delta.passes = 3 => delta.passes > 0
      OBVIOUS
    <3>10. node[p].tripped => VerifierLevel(node[p], delta) = 2
      BY DEF VerifierLevel
    <3>11. node[p].tripped =>
             (VerifierAccepts(node[p], delta)
                <=> PcoVerify(node[p], delta, 0) /\ PcoVerify(node[p], delta, 2))
      BY <3>10 DEF VerifierAccepts
    <3> QED BY <3>4, <3>5, <3>6, <3>7, <3>8, <3>9, <3>11
  <2> QED BY <2>2, <2>3
<1> QED BY <1>1, LatticesHold, PTL

-----------------------------------------------------------------------------
(* Which write of several is visible *)

Write == [key : Key, peer : Peer, time : Time, tag : Nat, trust : Nat]

LEMMA WriteFields ==
    ASSUME NEW w \in Write
    PROVE  /\ w.key \in Key /\ w.peer \in Peer /\ w.peer \in Int /\ w.peer \in Subject
           /\ w.time \in Nat /\ w.tag \in Nat /\ w.trust \in Nat
<1>1. w.peer \in Peer /\ w.time \in Time /\ w.key \in Key /\ w.tag \in Nat /\ w.trust \in Nat
  BY DEF Write
<1> QED BY <1>1, ContextAssumption, TrustAssumption

LEMMA ResolvedIsNat ==
    ASSUME LatticeInv, NEW p \in Peer, NEW q \in Peer
    PROVE  ResolveTrust(p, q) \in Nat
<1>1. node[p] \in Node(made)
  BY DEF LatticeInv, Lattices
<1>2. node[p].scores[q] \in Score
  BY <1>1, NodeFields, TrustAssumption
<1>3. OverallTrust(node[p].scores[q]) \in Nat
  BY <1>2, TrustIsNat
<1>4. Cardinality(Dimension) \in Nat
  BY DimensionAssumption, FS_CardinalityType
<1> QED BY <1>3, <1>4 DEF ResolveTrust, ProbationTrust

WeightOf(p, w) == IF Weighted THEN LiveTrust(p, w) ELSE 0

LEMMA WeightOfIsNat ==
    ASSUME LatticeInv, NEW p \in Peer, NEW w \in Write
    PROVE  WeightOf(p, w) \in Nat
<1>1. ResolveTrust(p, w.peer) \in Nat /\ w.trust \in Nat
  BY WriteFields, ResolvedIsNat
<1> QED BY <1>1 DEF WeightOf, LiveTrust

LEMMA BeatsByWeight ==
    ASSUME NEW p, NEW v, NEW w
    PROVE  Beats(p, v, w)
             <=> WeightOf(p, v) > WeightOf(p, w)
                   \/ (WeightOf(p, v) = WeightOf(p, w) /\ LaterWrite(v, w))
BY DEF Beats, WeightOf

LEMMA BeatsTotal ==
    ASSUME LatticeInv, NEW p \in Peer, NEW v \in Write, NEW w \in Write, v.tag # w.tag
    PROVE  Beats(p, v, w) \/ Beats(p, w, v)
<1>1. WeightOf(p, v) \in Nat /\ WeightOf(p, w) \in Nat
  BY WeightOfIsNat
<1>2. /\ v.peer \in Int /\ v.time \in Nat /\ v.tag \in Nat
      /\ w.peer \in Int /\ w.time \in Nat /\ w.tag \in Nat
  BY WriteFields
<1>3. LaterWrite(v, w) \/ LaterWrite(w, v)
  BY <1>2 DEF LaterWrite
<1> QED BY <1>1, <1>3, BeatsByWeight

LEMMA BeatsTransitive ==
    ASSUME LatticeInv, NEW p \in Peer, NEW u \in Write, NEW v \in Write, NEW w \in Write,
           Beats(p, u, v), Beats(p, v, w)
    PROVE  Beats(p, u, w)
<1>1. WeightOf(p, u) \in Nat /\ WeightOf(p, v) \in Nat /\ WeightOf(p, w) \in Nat
  BY WeightOfIsNat
<1>2. /\ u.peer \in Int /\ u.time \in Nat /\ u.tag \in Nat
      /\ v.peer \in Int /\ v.time \in Nat /\ v.tag \in Nat
      /\ w.peer \in Int /\ w.time \in Nat /\ w.tag \in Nat
  BY WriteFields
<1>3. LaterWrite(u, v) /\ LaterWrite(v, w) => LaterWrite(u, w)
  BY <1>2 DEF LaterWrite
<1> QED BY <1>1, <1>3, BeatsByWeight

(* Writes with tags of their own *)
Distinct(S) ==
    /\ S \subseteq Write /\ IsFiniteSet(S)
    /\ \A v, w \in S : v.tag = w.tag => v = w

LEMMA DistinctSubset ==
    ASSUME NEW S, Distinct(S), NEW R, R \subseteq S
    PROVE  Distinct(R)
BY FS_Subset DEF Distinct

LEMMA WinnerBeats ==
    ASSUME LatticeInv, NEW p \in Peer, NEW S, Distinct(S), S # {}
    PROVE  \E v \in S : \A w \in S \ {v} : Beats(p, v, w)
<1> DEFINE
      Top(s) == \E v \in s : \A w \in s \ {v} : Beats(p, v, w)
      Bad == {n \in Nat : \E s \in SUBSET S : s # {} /\ Cardinality(s) = n /\ ~ Top(s)}
<1>1. \A s \in SUBSET S : IsFiniteSet(s) /\ Cardinality(s) \in Nat
  BY FS_Subset, FS_CardinalityType DEF Distinct
<1>2. ASSUME NEW n \in Bad, \A m \in Nat : m < n => m \notin Bad
      PROVE  FALSE
  <2>1. PICK s \in SUBSET S : s # {} /\ Cardinality(s) = n /\ ~ Top(s)
    OBVIOUS
  <2>2. PICK x \in s : TRUE
    BY <2>1
  <2> DEFINE r == s \ {x}
  <2>3. r # {}
    <3> SUFFICES ASSUME r = {}
                 PROVE  FALSE
      OBVIOUS
    <3>1. \A w \in s \ {x} : Beats(p, x, w)
      OBVIOUS
    <3> QED BY <2>1, <2>2, <3>1
  <2>4. Cardinality(r) \in Nat /\ Cardinality(r) < n
    <3>1. Cardinality(r) = Cardinality(s) - 1 /\ Cardinality(s) \in Nat
      BY <1>1, <2>2, FS_RemoveElement
    <3>2. Cardinality(r) \in Nat
      BY <1>1
    <3> QED BY <2>1, <3>1, <3>2
  <2>5. Top(r)
    <3>1. Cardinality(r) \notin Bad
      <4> HIDE DEF Bad, r
      <4> QED BY <1>2, <2>4
    <3> QED BY <2>3, <2>4, <3>1
  <2>6. PICK v \in r : \A w \in r \ {v} : Beats(p, v, w)
    BY <2>5
  <2>7. /\ v \in s /\ x \in s /\ v # x /\ v \in S /\ x \in S
        /\ v \in Write /\ x \in Write /\ v.tag # x.tag
    BY <2>2, <2>6 DEF Distinct
  <2>8. CASE Beats(p, v, x)
    <3>1. \A w \in s \ {v} : Beats(p, v, w)
      BY <2>6, <2>8
    <3> QED BY <2>1, <2>7, <3>1
  <2>9. CASE Beats(p, x, v)
    <3>1. ASSUME NEW w \in s \ {x}
          PROVE  Beats(p, x, w)
      <4>1. CASE w = v
        BY <2>9, <4>1
      <4>2. CASE w # v
        <5>1. Beats(p, v, w) /\ w \in Write
          BY <2>6, <4>2 DEF Distinct
        <5> QED BY <2>7, <2>9, <5>1, BeatsTransitive
      <4> QED BY <4>1, <4>2
    <3> QED BY <2>1, <2>7, <3>1
  <2> QED BY <2>7, <2>8, <2>9, BeatsTotal
<1>3. Bad = {}
  <2>1. Bad \subseteq Nat
    OBVIOUS
  <2> HIDE DEF Bad
  <2>2. Bad # {} => \E n \in Bad : \A m \in Nat : m < n => m \notin Bad
    BY <2>1, Summing!Least
  <2> QED BY <2>2, <1>2
<1>4. Cardinality(S) \in Nat
  BY <1>1
<1> QED BY <1>3, <1>4

LEMMA WinnerIsOne ==
    ASSUME LatticeInv, NEW p \in Peer, NEW S, Distinct(S), S # {}
    PROVE  Winner(p, S) \in S
<1>1. \E v \in S : \A w \in S \ {v} : Beats(p, v, w)
  BY WinnerBeats
<1> QED BY <1>1 DEF Winner

-----------------------------------------------------------------------------
(* What is installed can be looked up. *)

IsMemory(m) == m = [entries |-> m.entries, shadow |-> m.shadow, tombs |-> m.tombs]

LEMMA SetVersions ==
    ASSUME NEW m, IsMemory(m), NEW e, NEW s
    PROVE  [m EXCEPT !.entries = e, !.shadow = s]
             = [entries |-> e, shadow |-> s, tombs |-> m.tombs]
<1> DEFINE T == [entries : {m.entries, e}, shadow : {m.shadow, s}, tombs : {m.tombs, m.tombs}]
           n == [m EXCEPT !.entries = e, !.shadow = s]
<1>1. m \in T
  BY DEF IsMemory
<1>2. n \in T /\ n.entries = e /\ n.shadow = s /\ n.tombs = m.tombs
  BY <1>1
<1>3. n = [entries |-> n.entries, shadow |-> n.shadow, tombs |-> n.tombs]
  <2> HIDE DEF n
  <2> QED BY <1>2
<1> QED BY <1>2, <1>3

LEMMA SetTombs ==
    ASSUME NEW m, IsMemory(m), NEW t
    PROVE  [m EXCEPT !.tombs = t]
             = [entries |-> m.entries, shadow |-> m.shadow, tombs |-> t]
<1> DEFINE T == [entries : {m.entries, m.entries}, shadow : {m.shadow, m.shadow}, tombs : {m.tombs, t}]
           n == [m EXCEPT !.tombs = t]
<1>1. m \in T
  BY DEF IsMemory
<1>2. n \in T /\ n.entries = m.entries /\ n.shadow = m.shadow /\ n.tombs = t
  BY <1>1
<1>3. n = [entries |-> n.entries, shadow |-> n.shadow, tombs |-> n.tombs]
  <2> HIDE DEF n
  <2> QED BY <1>2
<1> QED BY <1>2, <1>3

LEMMA SetMemory ==
    ASSUME NEW m, IsMemory(m), NEW t, NEW e, NEW s
    PROVE  [m EXCEPT !.tombs = t, !.entries = e, !.shadow = s]
             = [entries |-> e, shadow |-> s, tombs |-> t]
<1> DEFINE T == [entries : {m.entries, e}, shadow : {m.shadow, s}, tombs : {m.tombs, t}]
           n == [m EXCEPT !.tombs = t, !.entries = e, !.shadow = s]
<1>1. m \in T
  BY DEF IsMemory
<1>2. n \in T /\ n.entries = e /\ n.shadow = s /\ n.tombs = t
  BY <1>1
<1>3. n = [entries |-> n.entries, shadow |-> n.shadow, tombs |-> n.tombs]
  <2> HIDE DEF n
  <2> QED BY <1>2
<1> QED BY <1>2, <1>3

LEMMA InstalledAll ==
    ASSUME LatticeInv, NEW p \in Peer, NEW T, NEW vs, \A k \in DOMAIN vs : Distinct(vs[k])
    PROVE  /\ IsMemory(InstallAll(p, T, vs))
           /\ InstallAll(p, T, vs).tombs = T
           /\ KeysOf(InstallAll(p, T, vs)) = {k \in DOMAIN vs : vs[k] # {}}
           /\ \A k : Versions(InstallAll(p, T, vs), k)
                       = IF k \in DOMAIN vs THEN vs[k] ELSE {}
<1> DEFINE live == {k \in DOMAIN vs : vs[k] # {}}
           contested == {k \in live : Cardinality(vs[k]) > 1}
           entries == [k \in live |-> Winner(p, vs[k])]
           shadow == [k \in contested |-> vs[k] \ {Winner(p, vs[k])}]
           m == [entries |-> entries, shadow |-> shadow, tombs |-> T]
<1>1. InstallAll(p, T, vs) = m
  BY DEF InstallAll
<1>2. m.entries = entries /\ m.shadow = shadow /\ m.tombs = T
  OBVIOUS
<1>3. ASSUME NEW k
      PROVE  Versions(m, k) = IF k \in DOMAIN vs THEN vs[k] ELSE {}
  <2>1. CASE k \notin live
    BY <2>1 DEF Versions, LookUp
  <2>2. CASE k \in live
    <3>1. Winner(p, vs[k]) \in vs[k] /\ IsFiniteSet(vs[k])
      BY <2>2, WinnerIsOne DEF Distinct
    <3>2. CASE k \in contested
      BY <2>2, <3>1, <3>2 DEF Versions, LookUp
    <3>3. CASE k \notin contested
      <4>1. Cardinality(vs[k]) = 1
        <5>1. Cardinality(vs[k]) \in Nat /\ Cardinality(vs[k]) # 0
          BY <2>2, <3>1, FS_CardinalityType, FS_EmptySet
        <5> QED BY <2>2, <3>3, <5>1
      <4>2. vs[k] = {Winner(p, vs[k])}
        BY <3>1, <4>1, FS_Singleton
      <4> QED BY <2>2, <3>3, <4>2 DEF Versions, LookUp
    <3> QED BY <3>2, <3>3
  <2> QED BY <2>1, <2>2
<1>4. KeysOf(m) = live
  BY <1>2 DEF KeysOf
<1>5. IsMemory(m)
  BY DEF IsMemory
<1> QED BY <1>1, <1>2, <1>3, <1>4, <1>5

LEMMA Installed ==
    ASSUME LatticeInv, NEW p \in Peer, NEW m, IsMemory(m), NEW k,
           NEW S, Distinct(S), S # {}
    PROVE  /\ IsMemory(Install(p, m, k, S))
           /\ Install(p, m, k, S).tombs = m.tombs
           /\ \A l : Versions(Install(p, m, k, S), l) = IF l = k THEN S ELSE Versions(m, l)
           /\ \A l \in DOMAIN Install(p, m, k, S).entries :
                Install(p, m, k, S).entries[l] \in Versions(Install(p, m, k, S), l)
<1> DEFINE w == Winner(p, S)
           losers == S \ {w}
           entries == Put(m.entries, k, w)
           shadow == IF losers = {} THEN Drop(m.shadow, k) ELSE Put(m.shadow, k, losers)
           i == [m EXCEPT !.entries = entries, !.shadow = shadow]
<1>1. Install(p, m, k, S) = i
  BY DEF Install, IsMemory
<1>2. w \in S
  BY WinnerIsOne
<1> HIDE DEF w
<1>3. /\ DOMAIN entries = DOMAIN m.entries \cup {k} /\ entries[k] = w
      /\ \A l \in DOMAIN m.entries : l # k => entries[l] = m.entries[l]
  BY DEF Put
<1>4. /\ LookUp(shadow, k, {}) = losers
      /\ \A l : l # k => LookUp(shadow, l, {}) = LookUp(m.shadow, l, {})
  BY DEF Put, Drop, LookUp
<1> HIDE DEF entries, shadow
<1>5. i.entries = entries /\ i.shadow = shadow /\ i.tombs = m.tombs /\ IsMemory(i)
  <2>1. i = [entries |-> entries, shadow |-> shadow, tombs |-> m.tombs]
    BY SetVersions
  <2> QED BY <2>1 DEF IsMemory
<1> HIDE DEF i
<1>6. Versions(i, k) = S
  BY <1>2, <1>3, <1>4, <1>5 DEF Versions
<1>7. ASSUME NEW l, l # k
      PROVE  Versions(i, l) = Versions(m, l)
  BY <1>3, <1>4, <1>5, <1>7 DEF Versions
<1>8. \A l \in DOMAIN i.entries : i.entries[l] \in Versions(i, l)
  BY DEF Versions
<1> QED BY <1>1, <1>5, <1>6, <1>7, <1>8

-----------------------------------------------------------------------------
(* A memory and its causal past *)

Puts(P) == {op.write : op \in {x \in P : x.kind = "put"}}

Tags(P) == UNION {op.tags : op \in P}

Restored(P) == \E op \in P : op.kind = "restore"

(* What a past leaves of a key *)
Live(P, k) == {w \in Puts(P) : w.key = k /\ w.tag \notin Tags(P)}

(* The memory m holds writes of W only, and if no snapshot was ever loaded, *)
(* just those that its past P leaves.                                       *)
Agreed(m, P, W) ==
    /\ IsMemory(m)
    /\ \A k : Versions(m, k) \subseteq W
    /\ ~ Restored(P) =>
         /\ m.tombs = Tags(P)
         /\ \A k \in Key : Versions(m, k) = Live(P, k)

All(H) == UNION {H[p] : p \in Peer}

Contexts(M, S, F, n, H) ==
    /\ n \in Nat
    /\ DOMAIN M = Peer /\ DOMAIN S = Peer /\ DOMAIN H = Peer
    /\ Distinct(Puts(All(H))) /\ \A w \in Puts(All(H)) : w.tag <= n
    /\ \A t \in Tags(All(H)) : t \in Nat /\ t <= n
    /\ \A p \in Peer : Agreed(M[p], H[p], Puts(All(H)))
    /\ \A p \in Peer : \A e \in S[p] : \A k \in DOMAIN e : e[k] \in Puts(All(H))
    /\ \A form \in F :
         form.past \subseteq All(H) /\ Agreed(form.memory, form.past, Puts(All(H)))

ContextInv == Contexts(memory, snapshots, forms, writes, past)

LEMMA PutsOfUnion ==
    ASSUME NEW P, NEW Q
    PROVE  /\ Puts(P \cup Q) = Puts(P) \cup Puts(Q)
           /\ Tags(P \cup Q) = Tags(P) \cup Tags(Q)
           /\ Restored(P \cup Q) <=> Restored(P) \/ Restored(Q)
BY DEF Puts, Tags, Restored

LEMMA PutsOfMore ==
    ASSUME NEW P, NEW op
    PROVE  /\ Puts(P \cup {op})
                = IF op.kind = "put" THEN Puts(P) \cup {op.write} ELSE Puts(P)
           /\ Tags(P \cup {op}) = Tags(P) \cup op.tags
           /\ Restored(P \cup {op}) <=> Restored(P) \/ op.kind = "restore"
<1>1. Puts({op}) = IF op.kind = "put" THEN {op.write} ELSE {}
  BY DEF Puts
<1>2. Tags({op}) = op.tags /\ (Restored({op}) <=> op.kind = "restore")
  BY DEF Tags, Restored
<1>3. Puts(P \cup {op}) = Puts(P) \cup Puts({op})
  BY DEF Puts
<1>4. Tags(P \cup {op}) = Tags(P) \cup Tags({op})
  BY DEF Tags
<1>5. Restored(P \cup {op}) <=> Restored(P) \/ Restored({op})
  BY DEF Restored
<1> QED BY <1>1, <1>2, <1>3, <1>4, <1>5

LEMMA PutsGrow ==
    ASSUME NEW P, NEW Q, P \subseteq Q
    PROVE  Puts(P) \subseteq Puts(Q) /\ Tags(P) \subseteq Tags(Q)
BY DEF Puts, Tags

LEMMA AgreedAmong ==
    ASSUME NEW m, NEW P, NEW V, NEW W, Agreed(m, P, V), V \subseteq W
    PROVE  Agreed(m, P, W)
BY DEF Agreed

LEMMA ContextsInit == ContextInit => ContextInv
<1> SUFFICES ASSUME ContextInit
             PROVE  Contexts(memory, snapshots, forms, writes, past)
  BY DEF ContextInv
<1>1. All(past) = {}
  BY DEF ContextInit, All
<1>2. Puts({}) = {} /\ Tags({}) = {}
  BY DEF Puts, Tags
<1>3. Distinct({})
  BY FS_EmptySet DEF Distinct
<1>4. ASSUME NEW p \in Peer
      PROVE  Agreed(memory[p], past[p], {})
  <2>1. memory[p] = [entries |-> EmptyDict, shadow |-> EmptyDict, tombs |-> {}] /\ past[p] = {}
    BY DEF ContextInit
  <2>2. IsMemory(memory[p])
    BY <2>1 DEF IsMemory
  <2>3. DOMAIN EmptyDict = {}
    BY DEF EmptyDict
  <2>4. \A k : Versions(memory[p], k) = {}
    BY <2>1, <2>3 DEF Versions, LookUp
  <2>5. \A k : Live({}, k) = {}
    BY <1>2 DEF Live
  <2> QED BY <1>2, <2>1, <2>2, <2>4, <2>5 DEF Agreed
<1> QED BY <1>1, <1>2, <1>3, <1>4 DEF ContextInit, Contexts

(* What p operates on becomes its past. *)
LEMMA OperatePast ==
    ASSUME ContextInv, NEW p \in Peer, NEW m, NEW op, Operate(p, m, op)
    PROVE  /\ writes' = writes + 1 /\ snapshots' = snapshots /\ forms' = forms
           /\ DOMAIN memory' = Peer /\ DOMAIN past' = Peer
           /\ memory'[p] = m /\ past'[p] = past[p] \cup {op}
           /\ \A q \in Peer \ {p} : memory'[q] = memory[q] /\ past'[q] = past[q]
           /\ All(past') = All(past) \cup {op}
<1>1. DOMAIN memory = Peer /\ DOMAIN past = Peer
  BY DEF ContextInv, Contexts
<1>2. /\ DOMAIN memory' = Peer /\ DOMAIN past' = Peer
      /\ memory'[p] = m /\ past'[p] = past[p] \cup {op}
      /\ \A q \in Peer \ {p} : memory'[q] = memory[q] /\ past'[q] = past[q]
  BY <1>1 DEF Operate
<1>3. All(past') = All(past) \cup {op}
  BY <1>2 DEF All
<1> QED BY <1>2, <1>3 DEF Operate

(* An operation whose write is new keeps the rest of the invariant. *)
LEMMA OperateStep ==
    ASSUME ContextInv, NEW p \in Peer, NEW m, NEW op, Operate(p, m, op),
           Distinct(Puts(All(past')) ), \A w \in Puts(All(past')) : w.tag <= writes + 1,
           \A t \in op.tags : t \in Nat /\ t <= writes + 1,
           Agreed(m, past[p] \cup {op}, Puts(All(past')))
    PROVE  ContextInv'
<1> DEFINE W == Puts(All(past))
           V == Puts(All(past'))
<1>1. /\ writes \in Nat /\ \A t \in Tags(All(past)) : t \in Nat /\ t <= writes
      /\ \A q \in Peer : Agreed(memory[q], past[q], W)
      /\ \A q \in Peer : \A e \in snapshots[q] : \A k \in DOMAIN e : e[k] \in W
      /\ \A form \in forms :
           form.past \subseteq All(past) /\ Agreed(form.memory, form.past, W)
      /\ DOMAIN snapshots = Peer
  BY DEF ContextInv, Contexts
<1>2. /\ writes' = writes + 1 /\ snapshots' = snapshots /\ forms' = forms
      /\ DOMAIN memory' = Peer /\ DOMAIN past' = Peer
      /\ memory'[p] = m /\ past'[p] = past[p] \cup {op}
      /\ \A q \in Peer \ {p} : memory'[q] = memory[q] /\ past'[q] = past[q]
      /\ All(past') = All(past) \cup {op}
  BY OperatePast
<1>3. W \subseteq V
  BY <1>2, PutsGrow
<1>4. \A t \in Tags(All(past')) : t \in Nat /\ t <= writes + 1
  <2>1. Tags(All(past')) = Tags(All(past)) \cup Tags({op})
    BY <1>2, PutsOfUnion
  <2>2. Tags({op}) = op.tags
    BY DEF Tags
  <2> QED BY <1>1, <2>1, <2>2
<1> HIDE DEF W
<1>5. \A q \in Peer : Agreed(memory'[q], past'[q], V)
  <2>1. ASSUME NEW q \in Peer \ {p}
        PROVE  Agreed(memory'[q], past'[q], V)
    BY <1>1, <1>2, <1>3, AgreedAmong
  <2> QED BY <1>2, <2>1
<1>6. \A form \in forms' : form.past \subseteq All(past') /\ Agreed(form.memory, form.past, V)
  BY <1>1, <1>2, <1>3, AgreedAmong
<1>7. \A q \in Peer : \A e \in snapshots'[q] : \A k \in DOMAIN e : e[k] \in V
  BY <1>1, <1>2, <1>3
<1>8. Distinct(V) /\ \A w \in V : w.tag <= writes + 1
  OBVIOUS
<1>9. writes + 1 \in Nat
  BY <1>1
<1>10. Contexts(memory', snapshots', forms', writes', past')
  <2> HIDE DEF V
  <2>1. V = Puts(All(past'))
    BY DEF V
  <2> QED BY <1>1, <1>2, <1>4, <1>5, <1>6, <1>7, <1>8, <1>9, <2>1 DEF Contexts
<1> QED BY <1>10 DEF ContextInv

LEMMA PutEntryStep ==
    ASSUME LatticeInv, ContextInv, NEW p \in Peer, NEW k \in Key, NEW peer \in Peer,
           NEW t \in Time, PutEntry(p, k, peer, t)
    PROVE  ContextInv'
<1> DEFINE m == memory[p]
           W == Puts(All(past))
           w == [key |-> k, peer |-> peer, time |-> t, tag |-> writes + 1,
                 trust |-> ResolveTrust(p, peer)]
           superseded == {v \in Versions(m, k) : v.peer = peer}
           tags == {v.tag : v \in superseded}
           kept == Versions(m, k) \ superseded
           buried == [m EXCEPT !.tombs = @ \cup tags]
           next == Install(p, buried, k, kept \cup {w})
           op == [kind |-> "put", write |-> w, tags |-> tags]
<1>1. Operate(p, next, op)
  BY DEF PutEntry
<1>2. /\ writes \in Nat /\ Distinct(W) /\ \A v \in W : v.tag <= writes
      /\ \A x \in Tags(All(past)) : x \in Nat /\ x <= writes
      /\ Agreed(m, past[p], W)
  BY DEF ContextInv, Contexts
<1>3. w \in Write /\ w.tag = writes + 1 /\ w.key = k
  BY <1>2, ResolvedIsNat DEF Write
<1>4. Puts(All(past')) = W \cup {w}
  <2>1. All(past') = All(past) \cup {op}
    BY <1>1, OperatePast
  <2>2. op.kind = "put" /\ op.write = w
    OBVIOUS
  <2> HIDE DEF op, w
  <2> QED BY <2>1, <2>2, PutsOfMore
<1>5. w \notin W
  BY <1>2, <1>3
<1> HIDE DEF w
<1>6. Distinct(W \cup {w})
  <2>1. IsFiniteSet(W \cup {w})
    BY <1>2, FS_AddElement DEF Distinct
  <2>2. \A v \in W : v.tag # w.tag
    BY <1>2, <1>3, WriteFields DEF Distinct
  <2> HIDE DEF W
  <2> QED BY <1>2, <1>3, <2>1, <2>2 DEF Distinct
<1>7. \A v \in W \cup {w} : v.tag <= writes + 1
  <2>1. \A v \in W : v.tag \in Nat
    BY <1>2, WriteFields DEF Distinct
  <2> HIDE DEF W
  <2> QED BY <1>2, <1>3, <2>1
<1>8. /\ Versions(m, k) \subseteq W
      /\ \A v \in Versions(m, k) : v.tag \in Nat /\ v.tag <= writes
  <2>1. Versions(m, k) \subseteq W
    BY <1>2 DEF Agreed
  <2> QED BY <1>2, <2>1, WriteFields DEF Distinct
<1>9. op.tags = tags /\ \A x \in op.tags : x \in Nat /\ x <= writes
  BY <1>8
<1>10. /\ IsMemory(buried) /\ buried.tombs = m.tombs \cup tags
       /\ \A l : Versions(buried, l) = Versions(m, l)
  <2>1. IsMemory(m)
    BY <1>2 DEF Agreed
  <2> HIDE DEF m, tags
  <2>2. buried = [entries |-> m.entries, shadow |-> m.shadow, tombs |-> m.tombs \cup tags]
    BY <2>1, SetTombs
  <2> QED BY <2>2 DEF IsMemory, Versions
<1> HIDE DEF buried
<1>11. Distinct(kept \cup {w}) /\ kept \cup {w} # {}
  BY <1>6, <1>8, DistinctSubset
<1>12. /\ IsMemory(next) /\ next.tombs = m.tombs \cup tags
       /\ \A l : Versions(next, l) = IF l = k THEN kept \cup {w} ELSE Versions(m, l)
  <2> DEFINE S == kept \cup {w}
  <2> HIDE DEF m, tags, S
  <2>1. Distinct(S) /\ S # {}
    BY <1>11 DEF S
  <2>2. /\ IsMemory(next) /\ next.tombs = buried.tombs
        /\ \A l : Versions(next, l) = IF l = k THEN S ELSE Versions(buried, l)
    <3>1. next = Install(p, buried, k, S)
      BY DEF S
    <3> HIDE DEF next
    <3> QED BY <1>10, <2>1, <3>1, Installed
  <2> HIDE DEF next
  <2> QED BY <1>10, <2>2 DEF S
<1> HIDE DEF next
<1>13. \A l : Versions(next, l) \subseteq W \cup {w}
  <2>1. \A l : Versions(m, l) \subseteq W
    BY <1>2 DEF Agreed
  <2>2. kept \subseteq W
    BY <1>8
  <2> HIDE DEF W, kept, m
  <2> QED BY <1>12, <2>1, <2>2
<1>14. /\ Puts(past[p] \cup {op}) = Puts(past[p]) \cup {w}
       /\ Tags(past[p] \cup {op}) = Tags(past[p]) \cup tags
       /\ Restored(past[p] \cup {op}) <=> Restored(past[p])
  <2>1. op.kind = "put" /\ op.write = w /\ op.tags = tags
    OBVIOUS
  <2> HIDE DEF op, tags
  <2> QED BY <2>1, PutsOfMore
<1>15. Puts(past[p]) \subseteq W /\ Tags(past[p]) \subseteq Tags(All(past))
  <2>1. past[p] \subseteq All(past)
    BY DEF All
  <2> QED BY <2>1, PutsGrow
<1>16. ASSUME ~ Restored(past[p]), NEW l \in Key
       PROVE  Versions(next, l) = Live(past[p] \cup {op}, l)
  <2>1. Versions(m, l) = Live(past[p], l) /\ Versions(m, k) = Live(past[p], k)
    BY <1>2, <1>16 DEF Agreed
  <2>2. \A v \in W : v.tag # writes + 1
    BY <1>2, <1>3, WriteFields DEF Distinct
  <2>3. w.tag \notin Tags(past[p]) /\ w.tag \notin tags
    <3>1. \A x \in Tags(past[p]) : x \in Nat /\ x <= writes
      BY <1>2, <1>15
    <3>2. \A x \in tags : x \in Nat /\ x <= writes
      BY <1>9
    <3> HIDE DEF tags
    <3> QED BY <1>2, <1>3, <3>1, <3>2
  <2>4. Live(past[p] \cup {op}, l)
          = {v \in Live(past[p], l) : v.tag \notin tags} \cup (IF l = k THEN {w} ELSE {})
    <3> HIDE DEF tags, op
    <3> QED BY <1>3, <1>14, <2>3 DEF Live
  <2>5. \A v \in W : v.tag \in tags <=> v \in superseded
    BY <1>2, <1>8 DEF Distinct
  <2>6. Live(past[p], l) \subseteq W
    BY <1>15 DEF Live
  <2>7. CASE l = k
    <3>1. {v \in Live(past[p], k) : v.tag \notin tags} = kept
      <4> HIDE DEF tags, superseded, W
      <4> QED BY <2>1, <2>5, <2>6, <2>7
    <3> QED BY <1>12, <2>4, <2>7, <3>1
  <2>8. CASE l # k
    <3>1. \A v \in Live(past[p], l) : v \notin superseded
      BY <2>1, <2>8 DEF Live
    <3>2. {v \in Live(past[p], l) : v.tag \notin tags} = Live(past[p], l)
      <4> HIDE DEF tags, superseded, W
      <4> QED BY <2>5, <2>6, <3>1
    <3> QED BY <1>12, <2>1, <2>4, <2>8, <3>2
  <2> QED BY <2>7, <2>8
<1>17. Agreed(next, past[p] \cup {op}, W \cup {w})
  <2>1. ~ Restored(past[p]) => m.tombs = Tags(past[p])
    BY <1>2 DEF Agreed
  <2> HIDE DEF W, op, tags
  <2> QED BY <1>12, <1>13, <1>14, <1>16, <2>1 DEF Agreed
<1>18. \A x \in op.tags : x \in Nat /\ x <= writes + 1
  BY <1>2, <1>9
<1> HIDE DEF op, W
<1> QED BY <1>1, <1>4, <1>6, <1>7, <1>17, <1>18, OperateStep

(* What an operation without a write leaves *)
LEMMA NoPut ==
    ASSUME ContextInv, NEW p \in Peer, NEW m, NEW op, Operate(p, m, op), op.kind # "put",
           \A t \in op.tags : t \in Nat /\ t <= writes,
           Agreed(m, past[p] \cup {op}, Puts(All(past)))
    PROVE  ContextInv'
<1>1. /\ writes \in Nat /\ Distinct(Puts(All(past)))
      /\ \A v \in Puts(All(past)) : v.tag <= writes
  BY DEF ContextInv, Contexts
<1>2. Puts(All(past')) = Puts(All(past))
  <2>1. All(past') = All(past) \cup {op}
    BY OperatePast
  <2> QED BY <2>1, PutsOfMore
<1>3. \A v \in Puts(All(past)) : v.tag <= writes + 1
  <2>1. \A v \in Puts(All(past)) : v.tag \in Nat
    BY <1>1, WriteFields DEF Distinct
  <2> QED BY <1>1, <2>1
<1>4. \A t \in op.tags : t \in Nat /\ t <= writes + 1
  BY <1>1
<1> QED BY <1>1, <1>2, <1>3, <1>4, OperateStep

LEMMA DeleteEntryStep ==
    ASSUME ContextInv, NEW p \in Peer, NEW k \in Key, DeleteEntry(p, k)
    PROVE  ContextInv'
<1> DEFINE m == memory[p]
           W == Puts(All(past))
           tags == {v.tag : v \in Versions(m, k)}
           next == [m EXCEPT !.tombs = @ \cup tags, !.entries = Drop(@, k),
                             !.shadow = Drop(@, k)]
           op == [kind |-> "delete", number |-> writes + 1, tags |-> tags]
<1>1. Operate(p, next, op)
  BY DEF DeleteEntry
<1>2. Distinct(W) /\ (\A v \in W : v.tag <= writes) /\ Agreed(m, past[p], W)
  BY DEF ContextInv, Contexts
<1>3. \A x \in op.tags : x \in Nat /\ x <= writes
  <2>1. Versions(m, k) \subseteq W
    BY <1>2 DEF Agreed
  <2> QED BY <1>2, <2>1, WriteFields DEF Distinct
<1>4. next = [entries |-> Drop(m.entries, k), shadow |-> Drop(m.shadow, k),
              tombs |-> m.tombs \cup tags]
  <2>1. IsMemory(m)
    BY <1>2 DEF Agreed
  <2> DEFINE t == m.tombs \cup tags
             e == Drop(m.entries, k)
             s == Drop(m.shadow, k)
  <2> HIDE DEF m, tags
  <2>2. next = [m EXCEPT !.tombs = t, !.entries = e, !.shadow = s]
    OBVIOUS
  <2> HIDE DEF t, e, s, next
  <2>3. next = [entries |-> e, shadow |-> s, tombs |-> t]
    BY <2>1, <2>2, SetMemory
  <2> QED BY <2>3 DEF t, e, s
<1>5. /\ IsMemory(next) /\ next.tombs = m.tombs \cup tags
      /\ \A l : Versions(next, l) = IF l = k THEN {} ELSE Versions(m, l)
  <2> HIDE DEF m, tags, next
  <2>1. IsMemory(next) /\ next.tombs = m.tombs \cup tags
    BY <1>4 DEF IsMemory
  <2>2. next.entries = Drop(m.entries, k) /\ next.shadow = Drop(m.shadow, k)
    BY <1>4
  <2> QED BY <2>1, <2>2 DEF Versions, LookUp, Drop
<1> HIDE DEF next
<1>6. /\ Puts(past[p] \cup {op}) = Puts(past[p])
      /\ Tags(past[p] \cup {op}) = Tags(past[p]) \cup tags
      /\ Restored(past[p] \cup {op}) <=> Restored(past[p])
  <2>1. op.kind = "delete" /\ op.tags = tags
    OBVIOUS
  <2> HIDE DEF op, tags
  <2> QED BY <2>1, PutsOfMore
<1>7. Puts(past[p]) \subseteq W
  <2>1. past[p] \subseteq All(past)
    BY DEF All
  <2> QED BY <2>1, PutsGrow
<1>8. ASSUME ~ Restored(past[p]), NEW l \in Key
      PROVE  Versions(next, l) = Live(past[p] \cup {op}, l)
  <2>1. Versions(m, l) = Live(past[p], l) /\ Versions(m, k) = Live(past[p], k)
    BY <1>2, <1>8 DEF Agreed
  <2>2. Live(past[p] \cup {op}, l) = {v \in Live(past[p], l) : v.tag \notin tags}
    <3> HIDE DEF tags, op
    <3> QED BY <1>6 DEF Live
  <2>3. Live(past[p], l) \subseteq W /\ Versions(m, k) \subseteq W
    BY <1>2, <1>7 DEF Live, Agreed
  <2>4. \A v \in Live(past[p], l) : v.tag \in tags <=> l = k
    <3>1. ASSUME NEW v \in Live(past[p], l), v.tag \in tags
          PROVE  l = k
      <4>1. PICK u \in Versions(m, k) : u.tag = v.tag
        BY <3>1
      <4>2. u = v
        BY <1>2, <2>3, <4>1 DEF Distinct
      <4> QED BY <2>1, <4>2 DEF Live
    <3>2. ASSUME NEW v \in Live(past[p], l), l = k
          PROVE  v.tag \in tags
      BY <2>1, <3>2
    <3> QED BY <3>1, <3>2
  <2> HIDE DEF tags, op, W
  <2> QED BY <1>5, <2>1, <2>2, <2>4
<1>9. Agreed(next, past[p] \cup {op}, W)
  <2>1. /\ ~ Restored(past[p]) => m.tombs = Tags(past[p])
        /\ \A l : Versions(m, l) \subseteq W
    BY <1>2 DEF Agreed
  <2> HIDE DEF W, op, tags
  <2> QED BY <1>5, <1>6, <1>8, <2>1 DEF Agreed
<1>10. op.kind # "put"
  OBVIOUS
<1> HIDE DEF op
<1> QED BY <1>1, <1>3, <1>9, <1>10, NoPut

LEMMA TakeSnapshotStep ==
    ASSUME ContextInv, NEW p \in Peer, TakeSnapshot(p)
    PROVE  ContextInv'
<1> DEFINE W == Puts(All(past))
<1>1. DOMAIN snapshots = Peer /\ Agreed(memory[p], past[p], W)
  BY DEF ContextInv, Contexts
<1>2. \A k \in DOMAIN memory[p].entries : memory[p].entries[k] \in W
  <2>1. \A k \in DOMAIN memory[p].entries :
           memory[p].entries[k] \in Versions(memory[p], k)
    BY DEF Versions
  <2> HIDE DEF W
  <2> QED BY <1>1, <2>1 DEF Agreed
<1>3. /\ DOMAIN snapshots' = Peer /\ snapshots'[p] = {memory[p].entries}
      /\ \A q \in Peer \ {p} : snapshots'[q] = snapshots[q]
  BY <1>1 DEF TakeSnapshot
<1>4. \A q \in Peer : \A e \in snapshots'[q] : \A k \in DOMAIN e : e[k] \in W
  <2>1. \A q \in Peer : \A e \in snapshots[q] : \A k \in DOMAIN e : e[k] \in W
    BY DEF ContextInv, Contexts
  <2> HIDE DEF W
  <2> QED BY <1>2, <1>3, <2>1
<1>5. Contexts(memory', snapshots', forms', writes', past')
  BY <1>3, <1>4 DEF TakeSnapshot, ContextInv, Contexts
<1> QED BY <1>5 DEF ContextInv

(* A snapshot holds writes; what it leaves of the past is not stated. *)
LEMMA LoadSnapshotStep ==
    ASSUME ContextInv, NEW p \in Peer, LoadSnapshot(p)
    PROVE  ContextInv'
<1> DEFINE m == memory[p]
           W == Puts(All(past))
           op == [kind |-> "restore", number |-> writes + 1, tags |-> {}]
<1>1. PICK entries \in snapshots[p] :
        Operate(p, [m EXCEPT !.entries = entries, !.shadow = EmptyDict], op)
  BY DEF LoadSnapshot
<1> DEFINE next == [m EXCEPT !.entries = entries, !.shadow = EmptyDict]
<1>2. Agreed(m, past[p], W) /\ \A k \in DOMAIN entries : entries[k] \in W
  BY DEF ContextInv, Contexts
<1>3. next = [entries |-> entries, shadow |-> EmptyDict, tombs |-> m.tombs]
  <2>1. IsMemory(m)
    BY <1>2 DEF Agreed
  <2> HIDE DEF m
  <2> QED BY <2>1, SetVersions
<1>4. IsMemory(next) /\ \A l : Versions(next, l) \subseteq W
  <2> HIDE DEF next, W, m
  <2>1. next.entries = entries /\ next.shadow = EmptyDict
    BY <1>3
  <2>2. DOMAIN EmptyDict = {}
    BY DEF EmptyDict
  <2> QED BY <1>2, <1>3, <2>1, <2>2 DEF IsMemory, Versions, LookUp
<1>5. Restored(past[p] \cup {op})
  <2>1. op.kind = "restore"
    OBVIOUS
  <2> HIDE DEF op
  <2> QED BY <2>1, PutsOfMore
<1>6. Agreed(next, past[p] \cup {op}, W)
  <2> HIDE DEF next, W, op
  <2> QED BY <1>4, <1>5 DEF Agreed
<1>7. op.kind # "put" /\ \A t \in op.tags : t \in Nat /\ t <= writes
  OBVIOUS
<1> HIDE DEF op, next
<1>8. Operate(p, next, op)
  BY <1>1 DEF next
<1> QED BY <1>6, <1>7, <1>8, NoPut

LEMMA SendFormStep ==
    ASSUME ContextInv, NEW p \in Peer, SendForm(p)
    PROVE  ContextInv'
<1>1. /\ FormOf(p).past \subseteq All(past)
      /\ Agreed(FormOf(p).memory, FormOf(p).past, Puts(All(past)))
  <2>1. past[p] \subseteq All(past) /\ Agreed(memory[p], past[p], Puts(All(past)))
    BY DEF ContextInv, Contexts, All
  <2> QED BY <2>1 DEF FormOf
<1>2. Contexts(memory', snapshots', forms', writes', past')
  BY <1>1 DEF SendForm, ContextInv, Contexts
<1> QED BY <1>2 DEF ContextInv

-----------------------------------------------------------------------------
(* Merges of memories *)

(* The versions of a key are distinct writes. *)
Held(m, W) == \A k : Versions(m, k) \subseteq W

LEMMA NoKeyNoVersions ==
    ASSUME NEW m, NEW k, Versions(m, k) # {}
    PROVE  k \in KeysOf(m)
BY DEF Versions, LookUp, KeysOf

LEMMA Merged ==
    ASSUME LatticeInv, NEW p \in Peer, NEW W, Distinct(W),
           NEW a, Held(a, W), NEW b, Held(b, W)
    PROVE  /\ IsMemory(MergeContext(p, a, b))
           /\ MergeContext(p, a, b).tombs = a.tombs \cup b.tombs
           /\ \A k : Versions(MergeContext(p, a, b), k) = LiveVersions(a, b, k)
           /\ Held(MergeContext(p, a, b), W)
<1> DEFINE vs == [k \in KeysOf(a) \cup KeysOf(b) |-> LiveVersions(a, b, k)]
<1>1. \A k : LiveVersions(a, b, k) \subseteq W
  BY DEF Held, LiveVersions
<1>2. \A k \in DOMAIN vs : Distinct(vs[k])
  BY <1>1, DistinctSubset
<1>3. \A k : k \notin DOMAIN vs => LiveVersions(a, b, k) = {}
  BY NoKeyNoVersions DEF LiveVersions
<1>4. MergeContext(p, a, b) = InstallAll(p, a.tombs \cup b.tombs, vs)
  BY DEF MergeContext
<1>5. \A k : LiveVersions(a, b, k) = IF k \in DOMAIN vs THEN vs[k] ELSE {}
  BY <1>3
<1> HIDE DEF vs
<1>6. /\ IsMemory(MergeContext(p, a, b))
      /\ MergeContext(p, a, b).tombs = a.tombs \cup b.tombs
      /\ \A k : Versions(MergeContext(p, a, b), k) = LiveVersions(a, b, k)
  <2> DEFINE T == a.tombs \cup b.tombs
  <2>1. /\ IsMemory(InstallAll(p, T, vs)) /\ InstallAll(p, T, vs).tombs = T
        /\ \A k : Versions(InstallAll(p, T, vs), k) = IF k \in DOMAIN vs THEN vs[k] ELSE {}
    <3> HIDE DEF T
    <3> QED BY <1>2, InstalledAll
  <2> QED BY <1>4, <1>5, <2>1
<1> QED BY <1>1, <1>6 DEF Held

LEMMA FormRead ==
    ASSUME LatticeInv, NEW p \in Peer, NEW W, Distinct(W), NEW m, Held(m, W)
    PROVE  /\ ReadForm(p, m).tombs = m.tombs
           /\ \A k : Versions(ReadForm(p, m), k)
                       = {v \in Versions(m, k) : v.tag \notin m.tombs}
           /\ Held(ReadForm(p, m), W)
<1> DEFINE Unburied(k) == {v \in Versions(m, k) : v.tag \notin m.tombs}
           vs == [k \in KeysOf(m) |-> Unburied(k)]
<1>1. \A k : Unburied(k) \subseteq W
  BY DEF Held
<1>2. \A k \in DOMAIN vs : Distinct(vs[k])
  BY <1>1, DistinctSubset
<1>3. \A k : k \notin DOMAIN vs => Unburied(k) = {}
  BY NoKeyNoVersions
<1>4. ReadForm(p, m) = InstallAll(p, m.tombs, vs)
  BY DEF ReadForm
<1>5. \A k : Unburied(k) = IF k \in DOMAIN vs THEN vs[k] ELSE {}
  BY <1>3
<1> HIDE DEF vs
<1>6. /\ ReadForm(p, m).tombs = m.tombs
      /\ \A k : Versions(ReadForm(p, m), k) = Unburied(k)
  <2> HIDE DEF Unburied
  <2>1. /\ InstallAll(p, m.tombs, vs).tombs = m.tombs
        /\ \A k : Versions(InstallAll(p, m.tombs, vs), k)
                    = IF k \in DOMAIN vs THEN vs[k] ELSE {}
    <3> DEFINE T == m.tombs
    <3> HIDE DEF T
    <3>1. /\ InstallAll(p, T, vs).tombs = T
          /\ \A k : Versions(InstallAll(p, T, vs), k)
                      = IF k \in DOMAIN vs THEN vs[k] ELSE {}
      BY <1>2, InstalledAll
    <3> QED BY <3>1 DEF T
  <2> QED BY <1>4, <1>5, <2>1
<1> QED BY <1>1, <1>6 DEF Held

LEMMA AbsorbedAgrees ==
    ASSUME LatticeInv, NEW p \in Peer, NEW W, Distinct(W),
           NEW m, NEW P, Agreed(m, P, W), NEW f, NEW Q, Agreed(f, Q, W)
    PROVE  Agreed(MergeContext(p, m, ReadForm(p, f)), P \cup Q, W)
<1> DEFINE r == ReadForm(p, f)
           n == MergeContext(p, m, r)
<1>1. Held(m, W) /\ Held(f, W)
  BY DEF Agreed, Held
<1>2. /\ r.tombs = f.tombs /\ Held(r, W)
      /\ \A k : Versions(r, k) = {v \in Versions(f, k) : v.tag \notin f.tombs}
  BY <1>1, FormRead
<1> HIDE DEF r
<1>3. /\ IsMemory(n) /\ n.tombs = m.tombs \cup r.tombs /\ Held(n, W)
      /\ \A k : Versions(n, k) = LiveVersions(m, r, k)
  BY <1>1, <1>2, Merged
<1> HIDE DEF n
<1>4. \A k : Versions(n, k) = {v \in Versions(m, k) \cup Versions(f, k) :
                                  v.tag \notin m.tombs \cup f.tombs}
  BY <1>2, <1>3 DEF LiveVersions
<1>5. ASSUME ~ Restored(P \cup Q)
      PROVE  n.tombs = Tags(P \cup Q) /\ \A k \in Key : Versions(n, k) = Live(P \cup Q, k)
  <2>1. ~ Restored(P) /\ ~ Restored(Q)
    BY <1>5 DEF Restored
  <2>2. /\ m.tombs = Tags(P) /\ f.tombs = Tags(Q)
        /\ \A k \in Key : Versions(m, k) = Live(P, k) /\ Versions(f, k) = Live(Q, k)
    BY <2>1 DEF Agreed
  <2>3. Puts(P \cup Q) = Puts(P) \cup Puts(Q) /\ Tags(P \cup Q) = Tags(P) \cup Tags(Q)
    BY PutsOfUnion
  <2>4. ASSUME NEW k \in Key
        PROVE  Versions(n, k) = Live(P \cup Q, k)
    <3>1. Versions(n, k) = {v \in Live(P, k) \cup Live(Q, k) :
                               v.tag \notin Tags(P) \cup Tags(Q)}
      <4>1. Versions(m, k) = Live(P, k) /\ Versions(f, k) = Live(Q, k)
        BY <2>2
      <4> QED BY <1>4, <2>2, <4>1
    <3> QED BY <2>3, <3>1 DEF Live
  <2> QED BY <1>2, <1>3, <2>2, <2>3, <2>4
<1> QED BY <1>3, <1>5 DEF Agreed, Held, n, r

LEMMA AbsorbFormStep ==
    ASSUME LatticeInv, ContextInv, NEW p \in Peer,
           NEW form \in forms \cup {FormOf(q) : q \in Peer \ {p}}, AbsorbForm(p, form)
    PROVE  ContextInv'
<1> DEFINE W == Puts(All(past))
           n == MergeContext(p, memory[p], ReadForm(p, form.memory))
<1>1. /\ Distinct(W) /\ DOMAIN memory = Peer /\ DOMAIN past = Peer
      /\ \A q \in Peer : Agreed(memory[q], past[q], W)
  BY DEF ContextInv, Contexts
<1>2. form.past \subseteq All(past) /\ Agreed(form.memory, form.past, W)
  <2>1. CASE form \in forms
    BY <2>1 DEF ContextInv, Contexts
  <2>2. ASSUME NEW q \in Peer, form = FormOf(q)
        PROVE  form.past \subseteq All(past) /\ Agreed(form.memory, form.past, W)
    BY <1>1, <2>2 DEF FormOf, All
  <2> QED BY <2>1, <2>2
<1> HIDE DEF W
<1>3. Agreed(n, past[p] \cup form.past, W)
  BY <1>1, <1>2, AbsorbedAgrees
<1>4. /\ DOMAIN memory' = Peer /\ DOMAIN past' = Peer
      /\ memory'[p] = n /\ past'[p] = past[p] \cup form.past
      /\ \A q \in Peer \ {p} : memory'[q] = memory[q] /\ past'[q] = past[q]
  BY <1>1 DEF AbsorbForm
<1>5. All(past') = All(past)
  BY <1>2, <1>4 DEF All
<1>6. \A q \in Peer : Agreed(memory'[q], past'[q], W)
  <2> HIDE DEF n
  <2>1. ASSUME NEW q \in Peer \ {p}
        PROVE  Agreed(memory'[q], past'[q], W)
    BY <1>1, <1>4
  <2> QED BY <1>3, <1>4, <2>1
<1>7. Contexts(memory', snapshots', forms', writes', past')
  BY <1>4, <1>5, <1>6 DEF AbsorbForm, ContextInv, Contexts, W
<1> QED BY <1>7 DEF ContextInv

LEMMA ContextStep ==
    ASSUME LatticeInv, ContextInv, ContextNext
    PROVE  ContextInv'
<1>1. PICK p \in Peer :
        \/ \E k \in Key, peer \in Peer, t \in Time : PutEntry(p, k, peer, t)
        \/ \E k \in Key : DeleteEntry(p, k)
        \/ TakeSnapshot(p) \/ LoadSnapshot(p)
        \/ SendForm(p)
        \/ \E form \in forms \cup {FormOf(q) : q \in Peer \ {p}} : AbsorbForm(p, form)
  BY DEF ContextNext
<1>2. ASSUME NEW k \in Key, NEW peer \in Peer, NEW t \in Time, PutEntry(p, k, peer, t)
      PROVE  ContextInv'
  BY <1>2, PutEntryStep
<1>3. ASSUME NEW k \in Key, DeleteEntry(p, k)
      PROVE  ContextInv'
  BY <1>3, DeleteEntryStep
<1>4. CASE TakeSnapshot(p)
  BY <1>4, TakeSnapshotStep
<1>5. CASE LoadSnapshot(p)
  BY <1>5, LoadSnapshotStep
<1>6. CASE SendForm(p)
  BY <1>6, SendFormStep
<1>7. ASSUME NEW form \in forms \cup {FormOf(q) : q \in Peer \ {p}}, AbsorbForm(p, form)
      PROVE  ContextInv'
  BY <1>7, AbsorbFormStep
<1> QED BY <1>1, <1>2, <1>3, <1>4, <1>5, <1>6, <1>7

LEMMA ContextsHold == Spec => []ContextInv
<1>1. Init => ContextInv
  BY ContextsInit DEF Init
<1>2. LatticeInv /\ ContextInv /\ [Next]_vars => ContextInv'
  <2>1. ASSUME ContextInv, UNCHANGED contextVars
        PROVE  ContextInv'
    BY <2>1 DEF ContextInv, contextVars
  <2>2. UNCHANGED vars => UNCHANGED contextVars
    BY DEF vars, contextVars
  <2> QED BY <2>1, <2>2, ContextStep DEF Next
<1> QED BY <1>1, <1>2, LatticesHold, PTL DEF Spec

(* What is live in the memory of a peer are the writes of its causal past   *)
(* that no delete() and no later put() there had seen, in whatever order    *)
(* states were absorbed, snapshots taken and trust changed: a deletion      *)
(* reaches every peer and nothing comes back.  load_snapshot sets an older  *)
(* state up again, and ends this for the peers that it reaches.             *)
THEOREM MemoryFollowsHistory == Spec => []LiveOfHistory
<1>1. ContextInv => LiveOfHistory
  <2> SUFFICES ASSUME ContextInv, NEW p \in Peer, NEW k \in Key,
                      \A op \in past[p] : op.kind # "restore"
               PROVE  Versions(memory[p], k)
                        = {w \in {op.write : op \in {x \in past[p] : x.kind = "put"}} :
                              w.key = k /\ \A op \in past[p] : w.tag \notin op.tags}
    BY DEF LiveOfHistory
  <2>1. ~ Restored(past[p])
    BY DEF Restored
  <2>2. Versions(memory[p], k) = Live(past[p], k)
    BY <2>1 DEF ContextInv, Contexts, Agreed
  <2> QED BY <2>2 DEF Live, Puts, Tags
<1> QED BY <1>1, ContextsHold, PTL

(* Only what versions[k] holds is installed. *)
LEMMA InstallSame ==
    ASSUME NEW p, NEW T, NEW vs, NEW us,
           \A k : (IF k \in DOMAIN vs THEN vs[k] ELSE {})
                    = (IF k \in DOMAIN us THEN us[k] ELSE {})
    PROVE  InstallAll(p, T, vs) = InstallAll(p, T, us)
<1> DEFINE live(x) == {k \in DOMAIN x : x[k] # {}}
           contested(x) == {k \in live(x) : Cardinality(x[k]) > 1}
<1>1. live(vs) = live(us)
  OBVIOUS
<1>2. \A k \in live(vs) : vs[k] = us[k]
  OBVIOUS
<1>3. contested(vs) = contested(us)
  BY <1>1, <1>2
<1>4. [k \in live(vs) |-> Winner(p, vs[k])] = [k \in live(us) |-> Winner(p, us[k])]
  BY <1>1, <1>2
<1>5. [k \in contested(vs) |-> vs[k] \ {Winner(p, vs[k])}]
        = [k \in contested(us) |-> us[k] \ {Winner(p, us[k])}]
  BY <1>2, <1>3
<1> QED BY <1>4, <1>5 DEF InstallAll

LEMMA SameMerge ==
    ASSUME NEW p, NEW a, NEW b, NEW c, NEW d,
           a.tombs \cup b.tombs = c.tombs \cup d.tombs,
           \A k : LiveVersions(a, b, k) = LiveVersions(c, d, k)
    PROVE  MergeContext(p, a, b) = MergeContext(p, c, d)
<1> DEFINE vs == [k \in KeysOf(a) \cup KeysOf(b) |-> LiveVersions(a, b, k)]
           us == [k \in KeysOf(c) \cup KeysOf(d) |-> LiveVersions(c, d, k)]
<1>1. \A k : LiveVersions(a, b, k) = IF k \in DOMAIN vs THEN vs[k] ELSE {}
  BY NoKeyNoVersions DEF LiveVersions
<1>2. \A k : LiveVersions(c, d, k) = IF k \in DOMAIN us THEN us[k] ELSE {}
  BY NoKeyNoVersions DEF LiveVersions
<1>3. /\ MergeContext(p, a, b) = InstallAll(p, a.tombs \cup b.tombs, vs)
      /\ MergeContext(p, c, d) = InstallAll(p, c.tombs \cup d.tombs, us)
  BY DEF MergeContext
<1>4. InstallAll(p, c.tombs \cup d.tombs, vs) = InstallAll(p, c.tombs \cup d.tombs, us)
  <2> DEFINE T == c.tombs \cup d.tombs
  <2> HIDE DEF vs, us, T
  <2>1. \A k : (IF k \in DOMAIN vs THEN vs[k] ELSE {})
                 = (IF k \in DOMAIN us THEN us[k] ELSE {})
    BY <1>1, <1>2
  <2>2. InstallAll(p, T, vs) = InstallAll(p, T, us)
    BY <2>1, InstallSame
  <2> QED BY <2>2 DEF T
<1> HIDE DEF vs, us
<1> QED BY <1>3, <1>4

(* merge_context of two states with the state of a peer gives the same in   *)
(* any order and grouping: tombstones and versions are united before the    *)
(* visible write is chosen, and the choice is that of the merging peer      *)
(* whatever the others saw.                                                 *)
THEOREM MemoriesMergeInAnyOrder == Spec => []ContextOrderFree
<1>1. LatticeInv /\ ContextInv => ContextOrderFree
  <2> DEFINE states == {memory[p] : p \in Peer} \cup {form.memory : form \in forms}
             W == Puts(All(past))
  <2> SUFFICES ASSUME LatticeInv, ContextInv, NEW p \in Peer,
                      NEW a \in states, NEW b \in states
               PROVE  /\ MergeContext(p, memory[p], a) = MergeContext(p, a, memory[p])
                      /\ MergeContext(p, MergeContext(p, memory[p], a), b)
                           = MergeContext(p, memory[p], MergeContext(p, a, b))
    BY DEF ContextOrderFree
  <2> DEFINE m == memory[p]
  <2>1. Distinct(W) /\ \A c \in states : Held(c, W)
    BY DEF ContextInv, Contexts, Agreed, Held
  <2>2. m \in states
    OBVIOUS
  <2> HIDE DEF states, W, m
  <2>3. MergeContext(p, m, a) = MergeContext(p, a, m)
    <3>1. \A k : LiveVersions(m, a, k) = LiveVersions(a, m, k)
      BY DEF LiveVersions
    <3> QED BY <3>1, SameMerge
  <2>4. MergeContext(p, MergeContext(p, m, a), b) = MergeContext(p, m, MergeContext(p, a, b))
    <3> DEFINE x == MergeContext(p, m, a)
               y == MergeContext(p, a, b)
    <3>1. Held(m, W) /\ Held(a, W) /\ Held(b, W)
      BY <2>1, <2>2
    <3>2. x.tombs = m.tombs \cup a.tombs /\ \A k : Versions(x, k) = LiveVersions(m, a, k)
      BY <2>1, <3>1, Merged
    <3>3. y.tombs = a.tombs \cup b.tombs /\ \A k : Versions(y, k) = LiveVersions(a, b, k)
      BY <2>1, <3>1, Merged
    <3> HIDE DEF x, y
    <3>4. x.tombs \cup b.tombs = m.tombs \cup y.tombs
      BY <3>2, <3>3
    <3>5. \A k : LiveVersions(x, b, k) = LiveVersions(m, y, k)
      BY <3>2, <3>3 DEF LiveVersions
    <3>6. MergeContext(p, x, b) = MergeContext(p, m, y)
      BY <3>4, <3>5, SameMerge
    <3> QED BY <3>6 DEF x, y
  <2> QED BY <2>3, <2>4 DEF m
<1> QED BY <1>1, LatticesHold, ContextsHold, PTL

=============================================================================
