----------------------------- MODULE PeerProofs -----------------------------
(***************************************************************************)
(* Proofs about what peers that merge in any order agree on, for any       *)
(* number of them: Epochs, KeyRegistry and ContextMemory.                  *)
(***************************************************************************)
EXTENDS Epochs, KeyRegistry, ContextMemory, FiniteSetTheorems, SequenceTheorems, TLAPS

-----------------------------------------------------------------------------
(* Epochs *)

LEMMA LookUpPut ==
    ASSUME NEW d, NEW x, NEW v, NEW y, NEW default
    PROVE  LookUp(Put(d, x, v), y, default) = IF y = x THEN v ELSE LookUp(d, y, default)
BY DEF LookUp, Put

LEMMA MaxOfTwo ==
    ASSUME NEW i \in Int, NEW j \in Int
    PROVE  Max({i, j}) = IF i >= j THEN i ELSE j
<1> DEFINE m == IF i >= j THEN i ELSE j
<1>1. m \in {i, j} /\ \A y \in {i, j} : m >= y
  OBVIOUS
<1>2. \A x \in {i, j} : (\A y \in {i, j} : x >= y) => x = m
  OBVIOUS
<1> QED BY <1>1, <1>2 DEF Max

LEMMA MinOfTwo ==
    ASSUME NEW i \in Int, NEW j \in Int
    PROVE  Min({i, j}) = IF i >= j THEN j ELSE i
<1> DEFINE m == IF i >= j THEN j ELSE i
<1>1. m \in {i, j} /\ \A y \in {i, j} : m <= y
  OBVIOUS
<1>2. \A x \in {i, j} : (\A y \in {i, j} : x <= y) => x = m
  OBVIOUS
<1> QED BY <1>1, <1>2 DEF Min

(* A record of evidence, as the history variable has it, and a state of a  *)
(* peer, its own or on its way                                             *)
Evidence == [by : Manager, n : Nat, epoch : Nat]

Counting == UNION {[D -> Nat] : D \in SUBSET Nat}

EpochState ==
    [epoch : Nat, retention : Nat, history : SUBSET Nat, counts : Counting,
     heard : SUBSET Evidence]

(* What CountsOfHistory says of a state, for every epoch *)
Counted(s) ==
    /\ s \in EpochState
    /\ IsFiniteSet(s.heard)
    /\ \A x \in s.heard : x.epoch <= s.epoch
    /\ s.history = 1 .. s.epoch
    /\ \A e \in Nat :
         /\ LookUp(s.counts, e, 0) <= RecordsIn(s, e)
         /\ e >= s.epoch - s.retention =>
              \A q \in Manager : LookUp(s.counts, e, 0) >= RecordsOf(s, q, e)

OwnOf(s, p) == {x \in s.heard : x.by = p}

(* What a state has of a peer is the beginning of what that peer recorded, *)
(* E being the states that the peers have now.                             *)
Beginning(s, E) ==
    \A x \in s.heard :
        /\ x \in OwnOf(E[x.by], x.by)
        /\ \A y \in OwnOf(E[x.by], x.by) : y.n < x.n => y \in s.heard

Numbered(own) ==
    /\ \A x \in own : x.n < Cardinality(own)
    /\ \A x, y \in own : x.n = y.n => x = y

States(E, S) == {E[p] : p \in Manager} \cup S

Kept(E, S) ==
    /\ E \in [Manager -> EpochState]
    /\ \A s \in States(E, S) : Counted(s) /\ Beginning(s, E)
    /\ \A p \in Manager : Numbered(OwnOf(E[p], p))

EpochInv == Kept(epochs, sent)

LEMMA LookUpIsNat ==
    ASSUME NEW d \in Counting, NEW e
    PROVE  LookUp(d, e, 0) \in Nat
BY DEF Counting, LookUp

LEMMA PutIsCounting ==
    ASSUME NEW d \in Counting, NEW e \in Nat, NEW v \in Nat
    PROVE  Put(d, e, v) \in Counting
<1>1. Put(d, e, v) \in [DOMAIN d \cup {e} -> Nat]
  <2>1. \A y \in DOMAIN d : d[y] \in Nat
    BY DEF Counting
  <2> QED BY <2>1 DEF Put
<1>2. DOMAIN d \cup {e} \in SUBSET Nat
  BY DEF Counting
<1> QED BY <1>1, <1>2 DEF Counting

LEMMA RecordsAreNat ==
    ASSUME NEW s, IsFiniteSet(s.heard), NEW e, NEW q
    PROVE  /\ RecordsIn(s, e) \in Nat /\ RecordsOf(s, q, e) \in Nat
           /\ IsFiniteSet({x \in s.heard : x.epoch = e})
           /\ IsFiniteSet({x \in s.heard : x.by = q /\ x.epoch = e})
<1>1. {x \in s.heard : x.epoch = e} \subseteq s.heard
  OBVIOUS
<1>2. {x \in s.heard : x.by = q /\ x.epoch = e} \subseteq s.heard
  OBVIOUS
<1> QED BY <1>1, <1>2, FS_Subset, FS_CardinalityType DEF RecordsIn, RecordsOf

LEMMA MoreRecords ==
    ASSUME NEW s, NEW t, IsFiniteSet(t.heard), s.heard \subseteq t.heard, NEW e
    PROVE  RecordsIn(s, e) <= RecordsIn(t, e)
<1>1. {x \in s.heard : x.epoch = e} \subseteq {x \in t.heard : x.epoch = e}
  OBVIOUS
<1>2. IsFiniteSet({x \in t.heard : x.epoch = e})
  BY RecordsAreNat
<1> QED BY <1>1, <1>2, FS_Subset DEF RecordsIn

(* Two states have of one peer a longer and a shorter beginning of the same. *)
LEMMA BeginningsAgree ==
    ASSUME NEW E, NEW S, Kept(E, S), NEW s \in States(E, S), NEW t \in States(E, S),
           NEW q \in Manager
    PROVE  OwnOf(s, q) \subseteq OwnOf(t, q) \/ OwnOf(t, q) \subseteq OwnOf(s, q)
<1> SUFFICES ASSUME NEW x \in OwnOf(s, q), x \notin OwnOf(t, q),
                    NEW y \in OwnOf(t, q), y \notin OwnOf(s, q)
             PROVE  FALSE
  OBVIOUS
<1>1. Beginning(s, E) /\ Beginning(t, E) /\ Numbered(OwnOf(E[q], q))
  BY DEF Kept
<1>2. x \in OwnOf(E[q], q) /\ y \in OwnOf(E[q], q)
  BY <1>1 DEF Beginning, OwnOf
<1>3. x.n \in Nat /\ y.n \in Nat
  <2>1. Counted(s) /\ Counted(t)
    BY DEF Kept
  <2> QED BY <2>1 DEF Counted, EpochState, Evidence, OwnOf
<1>4. CASE y.n < x.n
  BY <1>1, <1>2, <1>4 DEF Beginning, OwnOf
<1>5. CASE x.n < y.n
  BY <1>1, <1>2, <1>5 DEF Beginning, OwnOf
<1>6. CASE x.n = y.n
  BY <1>1, <1>2, <1>6 DEF Numbered
<1> QED BY <1>3, <1>4, <1>5, <1>6

LEMMA KeptUpdate ==
    ASSUME NEW E, NEW S, Kept(E, S), NEW p \in Manager, NEW s,
           Counted(s), Beginning(s, [E EXCEPT ![p] = s]), Numbered(OwnOf(s, p)),
           OwnOf(E[p], p) \subseteq OwnOf(s, p),
           \A x \in OwnOf(E[p], p) : \A y \in OwnOf(s, p) \ OwnOf(E[p], p) : x.n <= y.n
    PROVE  Kept([E EXCEPT ![p] = s], S)
<1> DEFINE F == [E EXCEPT ![p] = s]
<1>1. E \in [Manager -> EpochState] /\ s \in EpochState
  BY DEF Kept, Counted
<1>2. F \in [Manager -> EpochState] /\ F[p] = s /\ \A q \in Manager \ {p} : F[q] = E[q]
  BY <1>1
<1> HIDE DEF F
<1>3. ASSUME NEW t \in States(E, S)
      PROVE  Beginning(t, F)
  <2>1. Counted(t) /\ Beginning(t, E)
    BY DEF Kept
  <2> SUFFICES ASSUME NEW x \in t.heard
               PROVE  /\ x \in OwnOf(F[x.by], x.by)
                      /\ \A y \in OwnOf(F[x.by], x.by) : y.n < x.n => y \in t.heard
    BY DEF Beginning
  <2>2. x.by \in Manager /\ x.n \in Nat
    BY <2>1 DEF Counted, EpochState, Evidence
  <2>3. /\ x \in OwnOf(E[x.by], x.by)
        /\ \A y \in OwnOf(E[x.by], x.by) : y.n < x.n => y \in t.heard
    BY <2>1 DEF Beginning
  <2>4. CASE x.by # p
    BY <1>2, <2>2, <2>3, <2>4
  <2>5. CASE x.by = p
    <3>1. \A y \in OwnOf(s, p) : y.n \in Nat
      BY <1>1 DEF EpochState, Evidence, OwnOf
    <3> QED BY <1>2, <2>2, <2>3, <2>5, <3>1
  <2> QED BY <2>4, <2>5
<1>4. States(F, S) \subseteq States(E, S) \cup {s}
  BY <1>2 DEF States
<1>5. \A t \in States(F, S) : Counted(t) /\ Beginning(t, F)
  <2>1. Beginning(s, F)
    BY DEF F
  <2> QED BY <1>3, <1>4, <2>1 DEF Kept
<1>6. \A q \in Manager : Numbered(OwnOf(F[q], q))
  BY <1>2 DEF Kept
<1>7. Kept(F, S)
  BY <1>2, <1>5, <1>6 DEF Kept
<1> QED BY <1>7 DEF F

LEMMA SameHeard ==
    ASSUME NEW E, NEW S, Kept(E, S), NEW p \in Manager, NEW s,
           Counted(s), s.heard = E[p].heard
    PROVE  Kept([E EXCEPT ![p] = s], S)
<1> DEFINE F == [E EXCEPT ![p] = s]
<1>1. OwnOf(s, p) = OwnOf(E[p], p)
  BY DEF OwnOf
<1>2. \A q \in Manager : OwnOf(F[q], q) = OwnOf(E[q], q)
  BY <1>1 DEF Kept
<1>3. Beginning(E[p], E) /\ Numbered(OwnOf(E[p], p))
  BY DEF Kept, States
<1>4. \A x \in s.heard : x.by \in Manager
  BY DEF Counted, EpochState, Evidence
<1> HIDE DEF F
<1>5. Beginning(s, F)
  BY <1>2, <1>3, <1>4 DEF Beginning
<1>6. Beginning(s, [E EXCEPT ![p] = s])
  BY <1>5 DEF F
<1> QED BY <1>1, <1>3, <1>6, KeptUpdate

LEMMA KeptInit ==
    ASSUME EpochInit
    PROVE  EpochInv
<1>1. ASSUME NEW p \in Manager
      PROVE  /\ epochs[p] = [epoch |-> 0, retention |-> Retention[p], history |-> {},
                             counts |-> EmptyDict, heard |-> {}]
             /\ epochs[p].epoch = 0 /\ epochs[p].history = {}
             /\ epochs[p].counts = EmptyDict /\ epochs[p].heard = {}
             /\ Retention[p] \in Nat
  <2>1. epochs[p] = [epoch |-> 0, retention |-> Retention[p], history |-> {},
                     counts |-> EmptyDict, heard |-> {}]
    BY DEF EpochInit
  <2> QED BY <2>1, EpochAssumption
<1>2. EmptyDict \in Counting /\ \A e : LookUp(EmptyDict, e, 0) = 0
  <2>1. EmptyDict \in [{} -> Nat]
    BY DEF EmptyDict
  <2> QED BY <2>1 DEF Counting, LookUp, EmptyDict
<1>3. ASSUME NEW p \in Manager
      PROVE  epochs[p] \in EpochState
  <2>1. \A r \in Nat, c \in Counting :
           [epoch |-> 0, retention |-> r, history |-> {}, counts |-> c, heard |-> {}]
             \in EpochState
    BY DEF EpochState
  <2> QED BY <1>1, <1>2, <2>1
<1>4. ASSUME NEW p \in Manager
      PROVE  Counted(epochs[p]) /\ Beginning(epochs[p], epochs)
  <2>1. epochs[p].heard = {} /\ IsFiniteSet({}) /\ Cardinality({}) = 0
    BY <1>1, FS_EmptySet
  <2>2. \A e, q : RecordsIn(epochs[p], e) = 0 /\ RecordsOf(epochs[p], q, e) = 0
    <3> TAKE e, q
    <3>1. /\ {x \in epochs[p].heard : x.epoch = e} = {}
          /\ {x \in epochs[p].heard : x.by = q /\ x.epoch = e} = {}
      BY <2>1
    <3> QED BY <2>1, <3>1 DEF RecordsIn, RecordsOf
  <2>3. epochs[p].history = 1 .. epochs[p].epoch
    <3>1. 1 .. 0 = {}
      OBVIOUS
    <3> QED BY <1>1, <3>1
  <2>4. \A e : LookUp(epochs[p].counts, e, 0) = 0
    BY <1>1, <1>2
  <2> QED BY <1>3, <2>1, <2>2, <2>3, <2>4 DEF Counted, Beginning
<1>5. ASSUME NEW p \in Manager
      PROVE  Numbered(OwnOf(epochs[p], p))
  BY <1>1 DEF Numbered, OwnOf
<1>6. epochs \in [Manager -> EpochState]
  BY <1>3 DEF EpochInit
<1>7. States(epochs, sent) = {epochs[p] : p \in Manager}
  BY DEF States, EpochInit
<1> QED BY <1>4, <1>5, <1>6, <1>7 DEF EpochInv, Kept

(* record_evidence makes the count of the epoch and the evidence one more.  *)
LEMMA KeptRecord ==
    ASSUME NEW E, NEW S, Kept(E, S), NEW p \in Manager, NEW x, NEW s,
           x = [by |-> p, n |-> Cardinality(OwnOf(E[p], p)), epoch |-> E[p].epoch],
           s = [E[p] EXCEPT !.counts = Put(@, E[p].epoch, LookUp(@, E[p].epoch, 0) + 1),
                            !.heard = @ \cup {x}]
    PROVE  Kept([E EXCEPT ![p] = s], S)
<1> DEFINE old == E[p]
           own == OwnOf(old, p)
<1>1. Counted(old) /\ Beginning(old, E) /\ Numbered(own) /\ old \in EpochState
  BY DEF Kept, States, Counted
<1>2. IsFiniteSet(own) /\ Cardinality(own) \in Nat
  <2>1. own \subseteq old.heard
    BY DEF OwnOf
  <2> QED BY <1>1, <2>1, FS_Subset, FS_CardinalityType DEF Counted
<1>3. x \in Evidence /\ x.by = p /\ x.n = Cardinality(own) /\ x.epoch = old.epoch
  <2>1. old.epoch \in Nat
    BY <1>1 DEF EpochState
  <2> QED BY <1>2, <2>1 DEF Evidence
<1>4. x \notin old.heard
  <2> SUFFICES ASSUME x \in own
               PROVE  FALSE
    BY <1>3 DEF OwnOf
  <2>1. x.n < Cardinality(own)
    BY <1>1 DEF Numbered
  <2> QED BY <1>2, <1>3, <2>1
<1> DEFINE counts == Put(old.counts, old.epoch, LookUp(old.counts, old.epoch, 0) + 1)
<1>5. /\ s.epoch = old.epoch /\ s.retention = old.retention /\ s.history = old.history
      /\ s.counts = counts /\ s.heard = old.heard \cup {x}
      /\ s \in EpochState
  <2>1. counts \in Counting
    <3>1. old.counts \in Counting /\ old.epoch \in Nat
      BY <1>1 DEF EpochState
    <3>2. LookUp(old.counts, old.epoch, 0) + 1 \in Nat
      BY <3>1, LookUpIsNat
    <3> QED BY <3>1, <3>2, PutIsCounting
  <2>2. old.heard \cup {x} \in SUBSET Evidence
    BY <1>1, <1>3 DEF EpochState
  <2> QED BY <1>1, <2>1, <2>2 DEF EpochState
<1>6. OwnOf(s, p) = own \cup {x}
  BY <1>3, <1>5 DEF OwnOf
<1>7. Cardinality(own \cup {x}) = Cardinality(own) + 1
  <2>1. x \notin own
    BY <1>4 DEF OwnOf
  <2> QED BY <1>2, <2>1, FS_AddElement
<1>8. Counted(s)
  <2>1. IsFiniteSet(s.heard) /\ IsFiniteSet(old.heard)
    BY <1>1, <1>5, FS_AddElement DEF Counted
  <2>2. /\ \A y \in s.heard : y.epoch <= s.epoch
        /\ s.history = 1 .. s.epoch
    BY <1>1, <1>3, <1>5 DEF Counted, EpochState
  <2>3. ASSUME NEW e \in Nat
        PROVE  /\ LookUp(s.counts, e, 0) <= RecordsIn(s, e)
               /\ e >= s.epoch - s.retention =>
                    \A q \in Manager : LookUp(s.counts, e, 0) >= RecordsOf(s, q, e)
    <3> DEFINE c == LookUp(old.counts, e, 0)
    <3>1. /\ c \in Nat /\ c <= RecordsIn(old, e)
          /\ e >= old.epoch - old.retention =>
               \A q \in Manager : c >= RecordsOf(old, q, e)
      <4>1. old.counts \in Counting
        BY <1>1 DEF EpochState
      <4> QED BY <1>1, <4>1, LookUpIsNat DEF Counted
    <3>2. /\ RecordsIn(old, e) \in Nat /\ \A q : RecordsOf(old, q, e) \in Nat
      BY <2>1, RecordsAreNat
    <3>3. CASE e # old.epoch
      <4>1. LookUp(s.counts, e, 0) = c
        BY <1>5, <3>3, LookUpPut
      <4>2. \A q : RecordsOf(s, q, e) = RecordsOf(old, q, e)
        <5> TAKE q
        <5>1. {y \in s.heard : y.by = q /\ y.epoch = e}
                = {y \in old.heard : y.by = q /\ y.epoch = e}
          BY <1>3, <1>5, <3>3
        <5> QED BY <5>1 DEF RecordsOf
      <4>3. RecordsIn(s, e) = RecordsIn(old, e)
        <5>1. {y \in s.heard : y.epoch = e} = {y \in old.heard : y.epoch = e}
          BY <1>3, <1>5, <3>3
        <5> QED BY <5>1 DEF RecordsIn
      <4> QED BY <1>5, <3>1, <4>1, <4>2, <4>3
    <3>4. CASE e = old.epoch
      <4>1. LookUp(s.counts, e, 0) = c + 1
        BY <1>5, <3>4, LookUpPut
      <4>2. ASSUME NEW q
            PROVE  RecordsOf(s, q, e) <= RecordsOf(old, q, e) + 1
        <5> DEFINE T == {y \in old.heard : y.by = q /\ y.epoch = e}
                   U == {y \in s.heard : y.by = q /\ y.epoch = e}
        <5>1. U \subseteq T \cup {x}
          BY <1>5
        <5>6. IsFiniteSet(T)
          <6>1. T \subseteq old.heard
            OBVIOUS
          <6> QED BY <2>1, <6>1, FS_Subset
        <5> HIDE DEF T
        <5>2. Cardinality(T) \in Nat
          BY <5>6, FS_CardinalityType
        <5>3. IsFiniteSet(T \cup {x}) /\ Cardinality(T \cup {x}) <= Cardinality(T) + 1
          <6>1. CASE x \in T
            <7>1. T \cup {x} = T
              BY <6>1
            <7> QED BY <5>2, <5>6, <7>1
          <6>2. CASE x \notin T
            <7>1. IsFiniteSet(T \cup {x}) /\ Cardinality(T \cup {x}) = Cardinality(T) + 1
              BY <5>6, <6>2, FS_AddElement
            <7> QED BY <5>2, <7>1
          <6> QED BY <6>1, <6>2
        <5>4. Cardinality(U) <= Cardinality(T \cup {x})
          BY <5>1, <5>3, FS_Subset
        <5>5. Cardinality(U) \in Nat /\ Cardinality(T \cup {x}) \in Nat
          BY <5>1, <5>3, FS_Subset, FS_CardinalityType
        <5> QED BY <5>2, <5>3, <5>4, <5>5 DEF RecordsOf, T
      <4>3. RecordsIn(s, e) = RecordsIn(old, e) + 1
        <5> DEFINE T == {y \in old.heard : y.epoch = e}
        <5>1. {y \in s.heard : y.epoch = e} = T \cup {x} /\ x \notin T
          BY <1>3, <1>4, <1>5, <3>4
        <5>2. IsFiniteSet(T)
          BY <2>1, RecordsAreNat
        <5>3. Cardinality(T \cup {x}) = Cardinality(T) + 1
          <6> HIDE DEF T
          <6> QED BY <5>1, <5>2, FS_AddElement
        <5> QED BY <5>1, <5>3 DEF RecordsIn
      <4>4. \A q : RecordsOf(s, q, e) \in Nat
        BY <2>1, RecordsAreNat
      <4> QED BY <1>5, <3>1, <3>2, <4>1, <4>2, <4>3, <4>4
    <3> QED BY <3>3, <3>4
  <2> QED BY <1>5, <2>1, <2>2, <2>3 DEF Counted
<1>9. Beginning(s, [E EXCEPT ![p] = s])
  <2> DEFINE F == [E EXCEPT ![p] = s]
  <2>1. F[p] = s /\ \A q \in Manager \ {p} : F[q] = E[q]
    BY DEF Kept
  <2> HIDE DEF F
  <2> SUFFICES ASSUME NEW y \in s.heard
               PROVE  /\ y \in OwnOf(F[y.by], y.by)
                      /\ \A z \in OwnOf(F[y.by], y.by) : z.n < y.n => z \in s.heard
    BY DEF Beginning, F
  <2>2. y.by \in Manager
    BY <1>5 DEF EpochState, Evidence
  <2>3. CASE y.by = p
    BY <2>1, <2>3 DEF OwnOf
  <2>4. CASE y.by # p
    <3>1. y \in old.heard
      BY <1>3, <1>5, <2>4
    <3> QED BY <1>1, <1>5, <2>1, <2>2, <2>4, <3>1 DEF Beginning
  <2> QED BY <2>3, <2>4
<1>10. Numbered(own \cup {x})
  <2>1. \A y \in own : y.n \in Nat /\ y.n < Cardinality(own)
    BY <1>1 DEF Numbered, OwnOf, EpochState, Evidence
  <2> QED BY <1>1, <1>2, <1>3, <1>7, <2>1 DEF Numbered
<1>11. \A y \in own : y.n <= x.n
  <2>1. \A y \in own : y.n \in Nat /\ y.n < Cardinality(own)
    BY <1>1 DEF Numbered, OwnOf, EpochState, Evidence
  <2> QED BY <1>2, <1>3, <2>1
<1> QED BY <1>6, <1>8, <1>9, <1>10, <1>11, KeptUpdate

LEMMA KeptAdvance ==
    ASSUME NEW E, NEW S, Kept(E, S), NEW p \in Manager, NEW s,
           s = [E[p] EXCEPT !.epoch = @ + 1, !.history = @ \cup {E[p].epoch + 1}]
    PROVE  Kept([E EXCEPT ![p] = s], S)
<1> DEFINE old == E[p]
<1>1. Counted(old) /\ Beginning(old, E) /\ Numbered(OwnOf(old, p)) /\ old \in EpochState
  BY DEF Kept, States, Counted
<1>2. /\ s.epoch = old.epoch + 1 /\ s.retention = old.retention
      /\ s.history = old.history \cup {old.epoch + 1}
      /\ s.counts = old.counts /\ s.heard = old.heard
  BY <1>1 DEF EpochState
<1>3. old.epoch \in Nat /\ old.retention \in Nat
  BY <1>1 DEF EpochState
<1>5. s \in EpochState
  <2>1. old.epoch + 1 \in Nat /\ old.history \cup {old.epoch + 1} \in SUBSET Nat
    BY <1>1, <1>3 DEF EpochState
  <2> QED BY <1>1, <2>1 DEF EpochState
<1>4. Counted(s)
  <2>1. s.history = 1 .. s.epoch
    BY <1>1, <1>2, <1>3 DEF Counted
  <2>2. \A x \in s.heard : x.epoch <= s.epoch
    <3>1. \A x \in s.heard : x.epoch \in Nat
      BY <1>5 DEF EpochState, Evidence
    <3> QED BY <1>1, <1>2, <1>3, <3>1 DEF Counted
  <2>3. \A e, q : RecordsIn(s, e) = RecordsIn(old, e) /\ RecordsOf(s, q, e) = RecordsOf(old, q, e)
    BY <1>2 DEF RecordsIn, RecordsOf
  <2>4. \A e \in Nat : e >= s.epoch - s.retention => e >= old.epoch - old.retention
    BY <1>2, <1>3
  <2> QED BY <1>1, <1>2, <1>5, <2>1, <2>2, <2>3, <2>4 DEF Counted
<1> QED BY <1>1, <1>2, <1>4, SameHeard

LEMMA KeptPrune ==
    ASSUME NEW E, NEW S, Kept(E, S), NEW p \in Manager, NEW s,
           s = [E[p] EXCEPT !.counts = [e \in DOMAIN @ \ Prunable(E[p]) |-> @[e]]]
    PROVE  Kept([E EXCEPT ![p] = s], S)
<1> DEFINE old == E[p]
           counts == [e \in DOMAIN old.counts \ Prunable(old) |-> old.counts[e]]
<1>1. Counted(old) /\ Beginning(old, E) /\ Numbered(OwnOf(old, p)) /\ old \in EpochState
  BY DEF Kept, States, Counted
<1>2. /\ s.epoch = old.epoch /\ s.retention = old.retention /\ s.history = old.history
      /\ s.counts = counts /\ s.heard = old.heard
  BY <1>1 DEF EpochState
<1>3. counts \in Counting
  <2>1. PICK D \in SUBSET Nat : old.counts \in [D -> Nat]
    BY <1>1 DEF EpochState, Counting
  <2>2. counts \in [D \ Prunable(old) -> Nat]
    BY <2>1
  <2> QED BY <2>2 DEF Counting
<1>4. s \in EpochState
  BY <1>1, <1>3 DEF EpochState
<1>5. Counted(s)
  <2>1. \A e, q : RecordsIn(s, e) = RecordsIn(old, e) /\ RecordsOf(s, q, e) = RecordsOf(old, q, e)
    BY <1>2 DEF RecordsIn, RecordsOf
  <2>2. ASSUME NEW e \in Nat
        PROVE  /\ LookUp(s.counts, e, 0) <= RecordsIn(s, e)
               /\ e >= s.epoch - s.retention =>
                    \A q \in Manager : LookUp(s.counts, e, 0) >= RecordsOf(s, q, e)
    <3>1. CASE e \in DOMAIN old.counts /\ e \in Prunable(old)
      <4>1. LookUp(s.counts, e, 0) = 0
        BY <1>2, <3>1 DEF LookUp
      <4>2. ~ (e >= s.epoch - s.retention)
        BY <1>1, <1>2, <3>1 DEF Prunable, EpochState
      <4>3. RecordsIn(s, e) \in Nat
        BY <1>1, <1>2, RecordsAreNat DEF Counted
      <4> QED BY <4>1, <4>2, <4>3
    <3>2. CASE ~ (e \in DOMAIN old.counts /\ e \in Prunable(old))
      <4>1. LookUp(s.counts, e, 0) = LookUp(old.counts, e, 0)
        BY <1>2, <3>2 DEF LookUp, Prunable
      <4> QED BY <1>1, <1>2, <2>1, <4>1 DEF Counted
    <3> QED BY <3>1, <3>2
  <2> QED BY <1>1, <1>2, <1>4, <2>2 DEF Counted
<1> QED BY <1>1, <1>2, <1>5, SameHeard

(* The merge of two states *)
LEMMA KeptMerge ==
    ASSUME NEW E, NEW S, Kept(E, S), NEW p \in Manager, NEW state \in S
    PROVE  Kept([E EXCEPT ![p] = MergeEpochs(E[p], state)], S)
<1> DEFINE old == E[p]
           s == MergeEpochs(old, state)
<1>1. /\ Counted(old) /\ Beginning(old, E) /\ Numbered(OwnOf(old, p)) /\ old \in EpochState
      /\ Counted(state) /\ Beginning(state, E) /\ state \in EpochState
      /\ old \in States(E, S) /\ state \in States(E, S)
  BY DEF Kept, States, Counted
<1>2. /\ old.epoch \in Nat /\ old.retention \in Nat /\ old.counts \in Counting
      /\ state.epoch \in Nat /\ state.retention \in Nat /\ state.counts \in Counting
  BY <1>1 DEF EpochState
<1>3. /\ s.epoch = IF old.epoch >= state.epoch THEN old.epoch ELSE state.epoch
      /\ s.retention = IF old.retention >= state.retention THEN state.retention ELSE old.retention
      /\ s.history = old.history \cup state.history
      /\ s.heard = old.heard \cup state.heard
  BY <1>2, MaxOfTwo, MinOfTwo DEF MergeEpochs
<1>4. \A e : LookUp(s.counts, e, 0) =
        IF LookUp(old.counts, e, 0) >= LookUp(state.counts, e, 0)
        THEN LookUp(old.counts, e, 0) ELSE LookUp(state.counts, e, 0)
  <2> TAKE e
  <2> DEFINE i == LookUp(old.counts, e, 0)
             j == LookUp(state.counts, e, 0)
  <2>1. i \in Nat /\ j \in Nat
    BY <1>2, LookUpIsNat
  <2>2. Max({i, j}) = IF i >= j THEN i ELSE j
    BY <2>1, MaxOfTwo
  <2>3. CASE e \in DOMAIN old.counts \cup DOMAIN state.counts
    BY <2>2, <2>3 DEF LookUp, MergeEpochs
  <2>4. CASE e \notin DOMAIN old.counts \cup DOMAIN state.counts
    BY <2>4 DEF LookUp, MergeEpochs
  <2> QED BY <2>3, <2>4
<1>5. s \in EpochState
  <2>1. s.counts \in [DOMAIN old.counts \cup DOMAIN state.counts -> Nat]
    <3>1. \A e : LookUp(old.counts, e, 0) \in Nat /\ LookUp(state.counts, e, 0) \in Nat
      BY <1>2, LookUpIsNat
    <3>2. \A e : Max({LookUp(old.counts, e, 0), LookUp(state.counts, e, 0)}) \in Nat
      BY <3>1, MaxOfTwo
    <3> QED BY <3>2 DEF MergeEpochs
  <2>2. DOMAIN old.counts \cup DOMAIN state.counts \in SUBSET Nat
    BY <1>2 DEF Counting
  <2>3. s.counts \in Counting
    BY <2>1, <2>2 DEF Counting
  <2>4. s.epoch \in Nat /\ s.retention \in Nat
    BY <1>2, <1>3
  <2>5. s.history \in SUBSET Nat /\ s.heard \in SUBSET Evidence
    BY <1>1, <1>3 DEF EpochState
  <2>6. s = [epoch |-> s.epoch, retention |-> s.retention, history |-> s.history,
             counts |-> s.counts, heard |-> s.heard]
    BY DEF MergeEpochs
  <2> QED BY <2>3, <2>4, <2>5, <2>6 DEF EpochState
<1> HIDE DEF s
<1>6. OwnOf(s, p) = OwnOf(old, p)
  <2>1. OwnOf(state, p) \subseteq OwnOf(old, p)
    BY <1>1 DEF Beginning, OwnOf
  <2> QED BY <1>3, <2>1 DEF OwnOf
<1>7. Counted(s)
  <2>1. IsFiniteSet(s.heard) /\ old.heard \subseteq s.heard /\ state.heard \subseteq s.heard
    <3>1. IsFiniteSet(old.heard) /\ IsFiniteSet(state.heard)
      BY <1>1 DEF Counted
    <3>2. IsFiniteSet(old.heard \cup state.heard)
      BY <3>1, FS_Union
    <3> QED BY <1>3, <3>2
  <2>2. \A x \in s.heard : x.epoch <= s.epoch
    <3>1. \A x \in s.heard : x.epoch \in Nat
      BY <1>5 DEF EpochState, Evidence
    <3> QED BY <1>1, <1>2, <1>3, <3>1 DEF Counted
  <2>3. s.history = 1 .. s.epoch
    BY <1>1, <1>2, <1>3 DEF Counted
  <2>4. ASSUME NEW e \in Nat
        PROVE  LookUp(s.counts, e, 0) <= RecordsIn(s, e)
    <3>1. RecordsIn(old, e) <= RecordsIn(s, e) /\ RecordsIn(state, e) <= RecordsIn(s, e)
      BY <2>1, MoreRecords
    <3>2. /\ RecordsIn(old, e) \in Nat /\ RecordsIn(state, e) \in Nat
          /\ RecordsIn(s, e) \in Nat
      BY <1>1, <2>1, RecordsAreNat DEF Counted
    <3>3. LookUp(old.counts, e, 0) \in Nat /\ LookUp(state.counts, e, 0) \in Nat
      BY <1>2, LookUpIsNat
    <3>4. /\ LookUp(old.counts, e, 0) <= RecordsIn(old, e)
          /\ LookUp(state.counts, e, 0) <= RecordsIn(state, e)
      BY <1>1 DEF Counted
    <3> QED BY <1>4, <3>1, <3>2, <3>3, <3>4
  <2>5. ASSUME NEW e \in Nat, e >= s.epoch - s.retention, NEW q \in Manager
        PROVE  LookUp(s.counts, e, 0) >= RecordsOf(s, q, e)
    <3>1. e >= old.epoch - old.retention /\ e >= state.epoch - state.retention
      BY <1>2, <1>3, <2>5
    <3>2. /\ LookUp(old.counts, e, 0) >= RecordsOf(old, q, e)
          /\ LookUp(state.counts, e, 0) >= RecordsOf(state, q, e)
      BY <1>1, <3>1 DEF Counted
    <3>3. RecordsOf(s, q, e) = RecordsOf(old, q, e) \/ RecordsOf(s, q, e) = RecordsOf(state, q, e)
      <4>1. OwnOf(s, q) = OwnOf(old, q) \/ OwnOf(s, q) = OwnOf(state, q)
        <5>1. OwnOf(s, q) = OwnOf(old, q) \cup OwnOf(state, q)
          BY <1>3 DEF OwnOf
        <5>2. OwnOf(old, q) \subseteq OwnOf(state, q) \/ OwnOf(state, q) \subseteq OwnOf(old, q)
          BY <1>1, BeginningsAgree
        <5> QED BY <5>1, <5>2
      <4>2. \A t : {x \in t.heard : x.by = q /\ x.epoch = e} = {x \in OwnOf(t, q) : x.epoch = e}
        BY DEF OwnOf
      <4> QED BY <4>1, <4>2 DEF RecordsOf
    <3>4. LookUp(old.counts, e, 0) \in Nat /\ LookUp(state.counts, e, 0) \in Nat
      BY <1>2, LookUpIsNat
    <3>5. RecordsOf(old, q, e) \in Nat /\ RecordsOf(state, q, e) \in Nat
      BY <1>1, RecordsAreNat DEF Counted
    <3> QED BY <1>4, <3>2, <3>3, <3>4, <3>5
  <2> QED BY <1>5, <2>1, <2>2, <2>3, <2>4, <2>5 DEF Counted
<1>8. Beginning(s, [E EXCEPT ![p] = s])
  <2> DEFINE F == [E EXCEPT ![p] = s]
  <2>1. \A q \in Manager : OwnOf(F[q], q) = OwnOf(E[q], q)
    BY <1>6 DEF Kept
  <2> HIDE DEF F
  <2>2. \A x \in s.heard : x.by \in Manager
    BY <1>5 DEF EpochState, Evidence
  <2> QED BY <1>1, <1>3, <2>1, <2>2 DEF Beginning, F
<1>9. Kept([E EXCEPT ![p] = s], S)
  BY <1>1, <1>6, <1>7, <1>8, KeptUpdate
<1> QED BY <1>9 DEF s

LEMMA KeptNext ==
    ASSUME EpochInv, EpochNext
    PROVE  EpochInv'
<1>1. epochs \in [Manager -> EpochState] /\ Kept(epochs, sent)
  BY DEF EpochInv, Kept
<1> SUFFICES Kept(epochs', sent')
  BY DEF EpochInv, Kept, States, Numbered, Counted, Beginning, OwnOf, RecordsIn, RecordsOf
<1>2. PICK p \in Manager :
        \/ RecordInEpoch(p) \/ Advance(p) \/ Prune(p) \/ SendState(p)
        \/ \E state \in sent : MergeRemote(p, state)
  BY DEF EpochNext
<1> DEFINE old == epochs[p]
<1>3. CASE RecordInEpoch(p)
  <2> DEFINE x == [by |-> p, n |-> Cardinality(OwnOf(old, p)), epoch |-> old.epoch]
             s == [old EXCEPT !.counts = Put(@, old.epoch, LookUp(@, old.epoch, 0) + 1),
                              !.heard = @ \cup {x}]
  <2>1. epochs' = [epochs EXCEPT ![p] = s] /\ sent' = sent
    BY <1>1, <1>3 DEF RecordInEpoch, OwnOf
  <2>2. Kept([epochs EXCEPT ![p] = s], sent)
    BY <1>1, KeptRecord
  <2> QED BY <2>1, <2>2
<1>4. CASE Advance(p)
  <2> DEFINE s == [old EXCEPT !.epoch = @ + 1, !.history = @ \cup {old.epoch + 1}]
  <2>1. epochs' = [epochs EXCEPT ![p] = s] /\ sent' = sent
    BY <1>1, <1>4 DEF Advance
  <2>2. Kept([epochs EXCEPT ![p] = s], sent)
    BY <1>1, KeptAdvance
  <2> QED BY <2>1, <2>2
<1>5. CASE Prune(p)
  <2> DEFINE s == [old EXCEPT !.counts = [e \in DOMAIN @ \ Prunable(old) |-> @[e]]]
  <2>1. epochs' = [epochs EXCEPT ![p] = s] /\ sent' = sent
    BY <1>1, <1>5 DEF Prune
  <2>2. Kept([epochs EXCEPT ![p] = s], sent)
    BY <1>1, KeptPrune
  <2> QED BY <2>1, <2>2
<1>6. CASE SendState(p)
  <2>1. States(epochs', sent') = States(epochs, sent) /\ epochs' = epochs
    BY <1>6 DEF SendState, States
  <2> QED BY <1>1, <2>1 DEF Kept
<1>7. ASSUME NEW state \in sent, MergeRemote(p, state)
      PROVE  Kept(epochs', sent')
  <2>1. epochs' = [epochs EXCEPT ![p] = MergeEpochs(old, state)] /\ sent' = sent
    BY <1>7 DEF MergeRemote
  <2>2. Kept([epochs EXCEPT ![p] = MergeEpochs(old, state)], sent)
    BY <1>1, KeptMerge
  <2> QED BY <2>1, <2>2
<1> QED BY <1>2, <1>3, <1>4, <1>5, <1>6, <1>7

(* EpochState: peers keep the counts of the epochs within their windows,    *)
(* and count nothing that nobody recorded, whatever merge_remote_epoch is   *)
(* given and however late it comes.                                         *)
THEOREM EpochsCountHistory == EpochSpec => []CountsOfHistory
<1>1. EpochInit => EpochInv
  BY KeptInit
<1>2. EpochInv /\ [EpochNext]_epochVars => EpochInv'
  <2>1. CASE UNCHANGED epochVars
    BY <2>1 DEF epochVars, EpochInv, Kept, States, Numbered, Counted, Beginning, OwnOf,
                RecordsIn, RecordsOf
  <2> QED BY <2>1, KeptNext
<1>3. EpochInv => CountsOfHistory
  <2> SUFFICES ASSUME EpochInv, NEW p \in Manager
               PROVE  /\ epochs[p].history = 1 .. epochs[p].epoch
                      /\ \A e \in 0 .. epochs[p].epoch :
                           /\ LookUp(epochs[p].counts, e, 0) <= RecordsIn(epochs[p], e)
                           /\ e >= epochs[p].epoch - epochs[p].retention =>
                                \A q \in Manager :
                                  LookUp(epochs[p].counts, e, 0) >= RecordsOf(epochs[p], q, e)
    BY DEF CountsOfHistory
  <2>1. Counted(epochs[p])
    BY DEF EpochInv, Kept, States
  <2>2. 0 .. epochs[p].epoch \subseteq Nat
    BY <2>1 DEF Counted, EpochState
  <2> QED BY <2>1, <2>2 DEF Counted
<1> QED BY <1>1, <1>2, <1>3, PTL DEF EpochSpec

-----------------------------------------------------------------------------
(* Key registries *)

Chains == [Owner -> SUBSET [n : Nat, created : Nat]]

KeyTypes ==
    /\ registry \in [Registry -> [keys : Chains,
                                  revoked : SUBSET [owner : Owner, n : Nat, successor : Nat]]]
    /\ current \in [Owner -> Nat] /\ keys \in [Owner -> Nat]
    /\ now \in Nat

(* A chain has keys that its owner generated, each once. *)
ChainInv(chain, made) ==
    /\ \A k \in chain : k.n \in 1 .. made
    /\ \A j, k \in chain : j.n = k.n => j = k

ChainsInv == \A r \in Registry, o \in Owner : ChainInv(registry[r].keys[o], keys[o])

(* A manager that never started again has revoked all its keys but the last. *)
RevokedInv ==
    /\ issued \subseteq [owner : Owner, n : Nat, successor : Nat]
    /\ \A o \in Owner \ restarted :
         /\ current[o] = keys[o]
         /\ \A n \in 1 .. keys[o] :
              n # keys[o] => \E x \in issued : x.owner = o /\ x.n = n

KeyInv == KeyTypes /\ ChainsInv /\ RevokedInv

LEMMA KeyInitInv ==
    ASSUME KeyInit
    PROVE  KeyInv
<1>1. KeyTypes
  BY DEF KeyInit, KeyTypes, NewRegistry, Chains
<1>2. ASSUME NEW r \in Registry, NEW o \in Owner
      PROVE  registry[r].keys[o] \subseteq {[n |-> 1, created |-> 0]} /\ keys[o] = 1
  BY DEF KeyInit, NewRegistry
<1>3. ChainsInv
  BY <1>2 DEF ChainsInv, ChainInv
<1>4. RevokedInv
  BY DEF KeyInit, RevokedInv
<1> QED BY <1>1, <1>3, <1>4 DEF KeyInv

LEMMA RegisterKeeps ==
    ASSUME NEW chain, NEW key, NEW made \in Nat, ChainInv(chain, made), key.n \in 1 .. made
    PROVE  ChainInv(Register(chain, key), made)
BY DEF ChainInv, Register, Numbers

LEMMA MoreMade ==
    ASSUME NEW chain, NEW made \in Nat, ChainInv(chain, made)
    PROVE  ChainInv(chain, made + 1)
BY DEF ChainInv

LEMMA RevokedMore ==
    ASSUME KeyTypes, ChainsInv, NEW r \in Registry,
           NEW x \in [owner : Owner, n : Nat, successor : Nat],
           registry' = [registry EXCEPT ![r].revoked = @ \cup {x}],
           UNCHANGED <<current, keys, now>>
    PROVE  KeyTypes' /\ ChainsInv'
<1>1. KeyTypes'
  BY DEF KeyTypes
<1>2. \A s \in Registry : registry'[s].keys = registry[s].keys
  BY DEF KeyTypes
<1>3. ChainsInv'
  BY <1>2 DEF ChainsInv, Registry
<1> QED BY <1>1, <1>3

LEMMA KeyNextInv ==
    ASSUME KeyInv, KeyNext
    PROVE  KeyInv'
<1>0. KeyTypes /\ ChainsInv /\ RevokedInv
  BY DEF KeyInv
<1>1. ASSUME NEW o \in Owner, Rotate(o)
      PROVE  KeyInv'
  <2> DEFINE n == keys[o] + 1
             key == [n |-> n, created |-> now + 1]
             revocation == Revocation(o, n)
             old == registry[o]
             new == [old EXCEPT !.revoked = @ \cup {revocation},
                                !.keys[o] = Register(@, key)]
  <2>1. /\ n \in Nat /\ key \in [n : Nat, created : Nat]
        /\ revocation \in [owner : Owner, n : Nat, successor : Nat]
        /\ revocation.owner = o /\ revocation.n = current[o]
        /\ o \in Registry
    BY <1>0 DEF KeyTypes, Revocation, Registry
  <2>2. /\ registry' = [registry EXCEPT ![o] = new]
        /\ keys' = [keys EXCEPT ![o] = n] /\ current' = [current EXCEPT ![o] = n]
        /\ issued' = issued \cup {revocation}
        /\ now' = now + 1 /\ restarted' = restarted
    BY <1>0, <1>1, <2>1 DEF Rotate, KeyTypes
  <2>3. /\ new.keys = [old.keys EXCEPT ![o] = Register(@, key)]
        /\ new.revoked = old.revoked \cup {revocation}
        /\ new \in [keys : Chains, revoked : SUBSET [owner : Owner, n : Nat, successor : Nat]]
    <3>1. old \in [keys : Chains, revoked : SUBSET [owner : Owner, n : Nat, successor : Nat]]
      BY <1>0, <2>1 DEF KeyTypes
    <3>2. [old.keys EXCEPT ![o] = Register(@, key)] \in Chains
      BY <2>1, <3>1 DEF Chains, Register
    <3> HIDE DEF key, revocation
    <3> QED BY <2>1, <3>1, <3>2
  <2> HIDE DEF new, old, key, revocation
  <2>4. KeyTypes'
    BY <1>0, <2>1, <2>2, <2>3 DEF KeyTypes
  <2>5. ChainsInv'
    <3> SUFFICES ASSUME NEW r \in Registry, NEW q \in Owner
                 PROVE  ChainInv(registry'[r].keys[q], keys'[q])
      BY DEF ChainsInv, Registry
    <3>1. /\ ChainInv(registry[r].keys[q], keys[q]) /\ keys[q] \in Nat
          /\ registry[o].keys \in Chains
      BY <1>0, <2>1 DEF ChainsInv, KeyTypes
    <3>2. CASE q = o
      <4>1. keys'[q] = keys[q] + 1
        BY <1>0, <2>2, <3>2 DEF KeyTypes
      <4>2. ChainInv(registry[r].keys[q], keys[q] + 1)
        BY <3>1, MoreMade
      <4>3. ChainInv(Register(registry[r].keys[q], key), keys[q] + 1)
        BY <3>1, <3>2, <4>2, RegisterKeeps DEF key
      <4>4. registry'[r].keys[q] \in {registry[r].keys[q], Register(registry[r].keys[q], key)}
        BY <1>0, <2>2, <2>3, <3>1, <3>2 DEF KeyTypes, Chains, old
      <4> QED BY <4>1, <4>2, <4>3, <4>4
    <3>3. CASE q # o
      BY <1>0, <2>2, <2>3, <3>1, <3>3 DEF KeyTypes, Chains, old
    <3> QED BY <3>2, <3>3
  <2>6. RevokedInv'
    <3>1. issued' \subseteq [owner : Owner, n : Nat, successor : Nat]
      BY <1>0, <2>1, <2>2 DEF RevokedInv
    <3>2. ASSUME NEW q \in Owner \ restarted
          PROVE  /\ current'[q] = keys'[q]
                 /\ \A m \in 1 .. keys'[q] :
                      m # keys'[q] => \E x \in issued' : x.owner = q /\ x.n = m
      <4>1. /\ current[q] = keys[q] /\ keys[q] \in Nat
            /\ \A m \in 1 .. keys[q] :
                 m # keys[q] => \E x \in issued : x.owner = q /\ x.n = m
        BY <1>0 DEF RevokedInv, KeyTypes
      <4>2. CASE q = o
        <5>1. keys'[q] = keys[q] + 1 /\ current'[q] = keys[q] + 1
          BY <1>0, <2>2, <4>2 DEF KeyTypes
        <5> QED BY <2>1, <2>2, <4>1, <4>2, <5>1
      <4>3. CASE q # o
        <5>1. keys'[q] = keys[q] /\ current'[q] = current[q]
          BY <1>0, <2>2, <4>3 DEF KeyTypes
        <5> QED BY <2>2, <4>1, <5>1
      <4> QED BY <4>2, <4>3
    <3> QED BY <2>2, <3>1, <3>2 DEF RevokedInv
  <2> QED BY <2>4, <2>5, <2>6 DEF KeyInv
<1>2. ASSUME NEW o \in Owner, EmergencyRevoke(o)
      PROVE  KeyInv'
  <2> DEFINE revocation == Revocation(o, 0)
  <2>1. revocation \in [owner : Owner, n : Nat, successor : Nat] /\ o \in Registry
    BY <1>0 DEF KeyTypes, Revocation, Registry
  <2> HIDE DEF revocation
  <2>2. /\ registry' = [registry EXCEPT ![o].revoked = @ \cup {revocation}]
        /\ issued' = issued \cup {revocation}
        /\ UNCHANGED <<current, keys, now, restarted>>
    BY <1>2 DEF EmergencyRevoke, revocation
  <2>3. KeyTypes' /\ ChainsInv'
    BY <1>0, <2>1, <2>2, RevokedMore
  <2>4. RevokedInv'
    BY <1>0, <2>1, <2>2 DEF RevokedInv
  <2> QED BY <2>3, <2>4 DEF KeyInv
<1>3. ASSUME NEW o \in Owner, Restart(o)
      PROVE  KeyInv'
  <2> DEFINE key == [n |-> keys[o] + 1, created |-> now + 1]
             new == [NewRegistry EXCEPT !.keys[o] = {key}]
  <2>1. key \in [n : Nat, created : Nat] /\ o \in Registry
    BY <1>0 DEF KeyTypes, Registry
  <2>2. new.keys = [q \in Owner |-> IF q = o THEN {key} ELSE {}] /\ new.revoked = {}
        /\ new = [keys |-> new.keys, revoked |-> new.revoked]
    <3>0. ASSUME NEW s, NEW k, s = [keys |-> s.keys, revoked |-> s.revoked]
          PROVE  [s EXCEPT !.keys[o] = k]
                   = [keys |-> [s.keys EXCEPT ![o] = k], revoked |-> s.revoked]
      BY <3>0
    <3>4. NewRegistry = [keys |-> NewRegistry.keys, revoked |-> NewRegistry.revoked]
          /\ NewRegistry.revoked = {}
      BY DEF NewRegistry
    <3>1. new = [keys |-> [NewRegistry.keys EXCEPT ![o] = {key}], revoked |-> {}]
      BY <3>0, <3>4
    <3>2. NewRegistry.keys = [q \in Owner |-> {}]
      BY DEF NewRegistry
    <3> HIDE DEF new, key
    <3>3. [NewRegistry.keys EXCEPT ![o] = {key}] = [q \in Owner |-> IF q = o THEN {key} ELSE {}]
      BY <3>2
    <3> QED BY <3>1, <3>3
  <2>3. /\ registry' = [registry EXCEPT ![o] = new]
        /\ keys' = [keys EXCEPT ![o] = @ + 1] /\ current' = [current EXCEPT ![o] = keys[o] + 1]
        /\ issued' = issued
        /\ now' = now + 1 /\ restarted' = restarted \cup {o}
    BY <1>3 DEF Restart
  <2> HIDE DEF new
  <2>4. KeyTypes'
    <3>1. new.keys \in Chains
      BY <2>1, <2>2 DEF Chains
    <3>2. new \in [keys : Chains, revoked : SUBSET [owner : Owner, n : Nat, successor : Nat]]
      BY <2>2, <3>1
    <3>3. /\ current \in [Owner -> Nat] /\ keys \in [Owner -> Nat] /\ now \in Nat
          /\ keys[o] \in Nat
      BY <1>0 DEF KeyTypes
    <3>4. current' \in [Owner -> Nat] /\ keys' \in [Owner -> Nat] /\ now' \in Nat
      BY <2>3, <3>3
    <3> QED BY <1>0, <2>3, <3>2, <3>4 DEF KeyTypes
  <2>5. ChainsInv'
    <3> SUFFICES ASSUME NEW r \in Registry, NEW q \in Owner
                 PROVE  ChainInv(registry'[r].keys[q], keys'[q])
      BY DEF ChainsInv, Registry
    <3>1. ChainInv(registry[r].keys[q], keys[q]) /\ keys[q] \in Nat
      BY <1>0 DEF ChainsInv, KeyTypes
    <3>2. CASE q = o
      <4>1. keys'[q] = keys[q] + 1
        BY <1>0, <2>3, <3>2 DEF KeyTypes
      <4>2. ChainInv(registry[r].keys[q], keys[q] + 1)
        BY <3>1, MoreMade
      <4>3. ChainInv({key}, keys[q] + 1)
        BY <3>1, <3>2 DEF ChainInv
      <4>4. registry'[r].keys[q] \in {registry[r].keys[q], {key}}
        BY <1>0, <2>1, <2>2, <2>3, <3>2 DEF KeyTypes
      <4> QED BY <4>1, <4>2, <4>3, <4>4
    <3>3. CASE q # o
      <4>1. keys'[q] = keys[q]
        BY <1>0, <2>3, <3>3 DEF KeyTypes
      <4>2. registry'[r].keys[q] \in {registry[r].keys[q], {}}
        BY <1>0, <2>1, <2>2, <2>3, <3>3 DEF KeyTypes
      <4> QED BY <3>1, <4>1, <4>2 DEF ChainInv
    <3> QED BY <3>2, <3>3
  <2>6. RevokedInv'
    BY <1>0, <2>3 DEF RevokedInv, KeyTypes
  <2> QED BY <2>4, <2>5, <2>6 DEF KeyInv
<1>4. ASSUME NEW r \in Registry, NEW o \in Owner, NEW n \in 1 .. keys[o], ImportKey(r, o, n)
      PROVE  KeyInv'
  <2> DEFINE key == [n |-> n, created |-> now + 1]
             chain == Register(registry[r].keys[o], key)
  <2>1. key \in [n : Nat, created : Nat] /\ keys[o] \in Nat
    BY <1>0 DEF KeyTypes
  <2>2. ChainInv(chain, keys[o]) /\ chain \in SUBSET [n : Nat, created : Nat]
    <3>1. ChainInv(registry[r].keys[o], keys[o])
      BY <1>0 DEF ChainsInv
    <3>2. ChainInv(chain, keys[o])
      BY <2>1, <3>1, RegisterKeeps
    <3>3. registry[r].keys[o] \in SUBSET [n : Nat, created : Nat]
      BY <1>0 DEF KeyTypes, Chains
    <3> QED BY <2>1, <3>2, <3>3 DEF Register
  <2> HIDE DEF chain
  <2>3. /\ registry' = [registry EXCEPT ![r].keys[o] = chain]
        /\ now' = now + 1 /\ UNCHANGED <<current, issued, keys, restarted>>
    BY <1>4 DEF ImportKey, chain
  <2>4. KeyTypes'
    BY <1>0, <2>2, <2>3 DEF KeyTypes, Chains
  <2>5. ChainsInv'
    BY <1>0, <2>2, <2>3 DEF ChainsInv, KeyTypes, Chains, Registry
  <2>6. RevokedInv'
    BY <1>0, <2>3 DEF RevokedInv
  <2> QED BY <2>4, <2>5, <2>6 DEF KeyInv
<1>5. ASSUME NEW r \in Registry, NEW revocation \in issued, ImportRevocation(r, revocation)
      PROVE  KeyInv'
  <2>1. revocation \in [owner : Owner, n : Nat, successor : Nat]
    BY <1>0 DEF RevokedInv
  <2>2. /\ registry' = [registry EXCEPT ![r].revoked = @ \cup {revocation}]
        /\ UNCHANGED <<current, issued, keys, now, restarted>>
    BY <1>5 DEF ImportRevocation
  <2> QED BY <1>0, <2>1, <2>2, RevokedMore DEF KeyInv, RevokedInv
<1>6. ASSUME NEW h \in Holder, NEW r \in Registry \ {h}, MergeRegistry(h, r)
      PROVE  KeyInv'
  <2> DEFINE a == registry[h]
             b == registry[r]
             new == MergeRegistries(a, b)
  <2>1. /\ registry' = [registry EXCEPT ![h] = new] /\ h \in Registry
        /\ UNCHANGED <<current, issued, keys, now, restarted>>
    BY <1>6 DEF MergeRegistry, Registry
  <2>2. new = [keys |-> new.keys, revoked |-> new.revoked]
        /\ new.revoked = a.revoked \cup b.revoked
        /\ new.keys = [o \in Owner |->
                          a.keys[o] \cup {k \in b.keys[o] : k.n \notin Numbers(a.keys[o])}]
    BY DEF MergeRegistries
  <2> HIDE DEF new
  <2>3. new \in [keys : Chains, revoked : SUBSET [owner : Owner, n : Nat, successor : Nat]]
    <3>1. \A o \in Owner : /\ a.keys[o] \in SUBSET [n : Nat, created : Nat]
                           /\ b.keys[o] \in SUBSET [n : Nat, created : Nat]
      BY <1>0, <2>1 DEF KeyTypes, Chains
    <3>2. new.keys \in Chains
      BY <2>2, <3>1 DEF Chains
    <3>3. new.revoked \in SUBSET [owner : Owner, n : Nat, successor : Nat]
      BY <1>0, <2>1, <2>2 DEF KeyTypes
    <3> QED BY <2>2, <3>2, <3>3
  <2>4. \A o \in Owner : ChainInv(new.keys[o], keys[o])
    <3> TAKE o \in Owner
    <3>1. ChainInv(a.keys[o], keys[o]) /\ ChainInv(b.keys[o], keys[o])
      BY <1>0, <2>1 DEF ChainsInv
    <3>2. new.keys[o] = a.keys[o] \cup {k \in b.keys[o] : k.n \notin Numbers(a.keys[o])}
      BY <2>2
    <3> HIDE DEF a, b
    <3> QED BY <3>1, <3>2 DEF ChainInv, Numbers
  <2>5. KeyTypes'
    BY <1>0, <2>1, <2>3 DEF KeyTypes
  <2>6. ChainsInv'
    BY <1>0, <2>1, <2>4 DEF ChainsInv, KeyTypes, Registry
  <2>7. RevokedInv'
    BY <1>0, <2>1 DEF RevokedInv
  <2> QED BY <2>5, <2>6, <2>7 DEF KeyInv
<1> QED BY <1>1, <1>2, <1>3, <1>4, <1>5, <1>6 DEF KeyNext

(* PeerKeyRegistry.current_key: a registry that has all the revocations of  *)
(* a peer takes the current key of that peer or none, whatever the order in *)
(* which keys and revocations came, and though registries date keys         *)
(* differently.                                                             *)
THEOREM RegistriesTakeTheCurrentKey == KeySpec => []RegistriesAgree
<1>1. KeyInit => KeyInv
  BY KeyInitInv
<1>2. KeyInv /\ [KeyNext]_keyVars => KeyInv'
  <2>1. CASE UNCHANGED keyVars
    BY <2>1 DEF keyVars, KeyInv, KeyTypes, ChainsInv, RevokedInv
  <2> QED BY <2>1, KeyNextInv
<1>3. KeyInv => RegistriesAgree
  <2> SUFFICES ASSUME KeyInv, NEW r \in Registry, NEW o \in Owner, o \notin restarted,
                      {x \in issued : x.owner = o} \subseteq registry[r].revoked
               PROVE  CurrentKey(registry[r], o) =
                        IF current[o] \in Numbers(registry[r].keys[o])
                                            \ RevokedNumbers(registry[r], o)
                        THEN current[o] ELSE 0
    BY DEF RegistriesAgree
  <2> DEFINE reg == registry[r]
             valid == {k \in reg.keys[o] : k.n \notin RevokedNumbers(reg, o)}
  <2>1. \A n \in 1 .. keys[o] : n # keys[o] => n \in RevokedNumbers(reg, o)
    BY DEF KeyInv, RevokedInv, RevokedNumbers
  <2>2. current[o] = keys[o]
    BY DEF KeyInv, RevokedInv
  <2>3. \A k \in valid : k.n = current[o]
    BY <2>1, <2>2 DEF KeyInv, ChainsInv, ChainInv
  <2>4. \A j, k \in valid : j = k
    BY <2>3 DEF KeyInv, ChainsInv, ChainInv
  <2>5. CASE valid = {}
    <3>1. CurrentKey(reg, o) = 0
      BY <2>5 DEF CurrentKey
    <3>2. current[o] \notin Numbers(reg.keys[o]) \ RevokedNumbers(reg, o)
      BY <2>5 DEF Numbers
    <3> QED BY <3>1, <3>2
  <2>6. ASSUME NEW k \in valid
        PROVE  CurrentKey(reg, o) = k.n /\ k.n \in Numbers(reg.keys[o]) \ RevokedNumbers(reg, o)
    <3>1. valid = {k}
      BY <2>4
    <3>2. k.created \in Nat
      BY DEF KeyInv, KeyTypes, Chains
    <3>3. NewestOf({k}) = k.n
      BY <3>2 DEF NewestOf
    <3>4. CurrentKey(reg, o) = k.n
      <4>1. CurrentKey(reg, o) = IF valid = {} THEN 0 ELSE NewestOf(valid)
        BY DEF CurrentKey
      <4> HIDE DEF valid
      <4> QED BY <3>1, <3>3, <4>1
    <3> QED BY <3>4 DEF Numbers
  <2> QED BY <2>3, <2>5, <2>6
<1> QED BY <1>1, <1>2, <1>3, PTL DEF KeySpec

-----------------------------------------------------------------------------
(* Contexts: memories and what a set of them has of a fact *)

Memory == [fact : Fact, confidence : Nat, time : Nat, tags : SUBSET Tag]

(* What a set of memories has of a fact *)
OfFact(M, f) == {m \in M : m.fact = f}

(* e is all that M has of the fact of e: the highest confidence, the latest *)
(* time, all tags.                                                          *)
IsTotal(e, M) ==
    /\ \E m \in OfFact(M, e.fact) : m.confidence = e.confidence
    /\ \E m \in OfFact(M, e.fact) : m.time = e.time
    /\ \A m \in OfFact(M, e.fact) : m.confidence <= e.confidence /\ m.time <= e.time
    /\ e.tags = UNION {m.tags : m \in OfFact(M, e.fact)}

Totals(M) == {e \in Memory : IsTotal(e, M)}

LEMMA MemoryParts ==
    ASSUME NEW m \in Memory
    PROVE  /\ m.fact \in Fact /\ m.confidence \in Nat
           /\ m.time \in Nat /\ m.tags \in SUBSET Tag
           /\ m = [fact |-> m.fact, confidence |-> m.confidence, time |-> m.time, tags |-> m.tags]
BY DEF Memory

LEMMA SameMemory ==
    ASSUME NEW d \in Memory, NEW e \in Memory, d.fact = e.fact,
           d.confidence = e.confidence, d.time = e.time, d.tags = e.tags
    PROVE  d = e
BY MemoryParts

LEMMA OneTotal ==
    ASSUME NEW M, M \subseteq Memory, NEW d \in Totals(M), NEW e \in Totals(M), d.fact = e.fact
    PROVE  d = e
<1>1. d \in Memory /\ e \in Memory /\ IsTotal(d, M) /\ IsTotal(e, M)
  BY DEF Totals
<1>2. d.confidence <= e.confidence /\ e.confidence <= d.confidence
      /\ d.time <= e.time /\ e.time <= d.time /\ d.tags = e.tags
  BY <1>1 DEF IsTotal
<1>3. d.confidence \in Nat /\ e.confidence \in Nat /\ d.time \in Nat /\ e.time \in Nat
  BY <1>1, MemoryParts
<1>4. d.confidence = e.confidence /\ d.time = e.time
  BY <1>2, <1>3
<1> QED BY <1>1, <1>2, <1>4, SameMemory

(* Gather has each fact once, with all that the list has of it. *)
Apart(r) == \A i, j \in DOMAIN r : r[i].fact = r[j].fact => i = j

IsGathered(r, M) ==
    /\ r \in Seq(Memory) /\ Apart(r)
    /\ \A i \in DOMAIN r : IsTotal(r[i], M)
    /\ \A m \in M : \E i \in DOMAIN r : r[i].fact = m.fact

LEMMA JoinedTotal ==
    ASSUME NEW M, M \subseteq Memory, NEW e \in Memory, IsTotal(e, M),
           NEW m \in Memory, m.fact = e.fact
    PROVE  Join(e, m) \in Memory /\ Join(e, m).fact = e.fact /\ IsTotal(Join(e, m), M \cup {m})
<1> DEFINE j == Join(e, m)
           N == M \cup {m}
           c == IF e.confidence >= m.confidence THEN e.confidence ELSE m.confidence
           t == IF e.time >= m.time THEN e.time ELSE m.time
<1>1. /\ e.fact \in Fact /\ e.confidence \in Nat /\ e.time \in Nat /\ e.tags \subseteq Tag
      /\ m.confidence \in Nat /\ m.time \in Nat /\ m.tags \subseteq Tag
  BY MemoryParts
<1>2. j = [fact |-> e.fact, confidence |-> c, time |-> t, tags |-> e.tags \cup m.tags]
  BY <1>1, MaxOfTwo DEF Join
<1> HIDE DEF j
<1>3. j \in Memory /\ j.fact = e.fact /\ j.confidence = c /\ j.time = t /\ j.tags = e.tags \cup m.tags
  BY <1>1, <1>2 DEF Memory
<1>4. OfFact(N, e.fact) = OfFact(M, e.fact) \cup {m}
  BY DEF OfFact
<1>5. \A x \in OfFact(M, e.fact) : x.confidence \in Nat /\ x.time \in Nat
  BY MemoryParts DEF OfFact
<1> DEFINE P == OfFact(M, e.fact)
           Q == OfFact(N, e.fact)
<1> HIDE DEF N
<1>6. /\ \E x \in P : x.confidence = e.confidence
      /\ \E x \in P : x.time = e.time
      /\ \A x \in P : x.confidence <= e.confidence /\ x.time <= e.time
      /\ e.tags = UNION {x.tags : x \in P}
  BY DEF IsTotal
<1>7. Q = P \cup {m} /\ \A x \in P : x.confidence \in Nat /\ x.time \in Nat
  BY <1>4, <1>5
<1> HIDE DEF P, Q
<1>8. \E x \in Q : x.confidence = c
  BY <1>6, <1>7
<1>9. \E x \in Q : x.time = t
  BY <1>6, <1>7
<1>10. \A x \in Q : x.confidence <= c /\ x.time <= t
  <2>1. m.confidence <= c /\ m.time <= t
    BY <1>1
  <2>2. \A x \in P : x.confidence <= c /\ x.time <= t
    BY <1>1, <1>6, <1>7
  <2> QED BY <1>7, <2>1, <2>2
<1>11. UNION {x.tags : x \in Q} = e.tags \cup m.tags
  BY <1>6, <1>7
<1>12. IsTotal(j, N)
  BY <1>3, <1>8, <1>9, <1>10, <1>11 DEF IsTotal, Q
<1> QED BY <1>3, <1>12 DEF j, N

LEMMA Remembered ==
    ASSUME NEW M, M \subseteq Memory, NEW r, IsGathered(r, M), NEW m \in Memory
    PROVE  IsGathered(Remember(r, m), M \cup {m})
<1> DEFINE N == M \cup {m}
           q == Remember(r, m)
<1>1. /\ r \in Seq(Memory) /\ Apart(r) /\ \A i \in DOMAIN r : IsTotal(r[i], M)
      /\ \A x \in M : \E i \in DOMAIN r : r[i].fact = x.fact
  BY DEF IsGathered
<1>2. Len(r) \in Nat /\ DOMAIN r = 1 .. Len(r) /\ \A i \in DOMAIN r : r[i] \in Memory
  BY <1>1, ElementOfSeq, LenProperties
<1>3. ASSUME NEW e \in Memory, IsTotal(e, M), e.fact # m.fact
      PROVE  IsTotal(e, N)
  <2>1. OfFact(N, e.fact) = OfFact(M, e.fact)
    BY <1>3 DEF OfFact
  <2> QED BY <1>3, <2>1 DEF IsTotal
<1>4. CASE \E i \in DOMAIN r : r[i].fact = m.fact
  <2>1. q = [i \in DOMAIN r |-> IF r[i].fact = m.fact THEN Join(r[i], m) ELSE r[i]]
    BY <1>4 DEF Remember
  <2> HIDE DEF q, N
  <2>2. ASSUME NEW i \in DOMAIN r
        PROVE  q[i] \in Memory /\ q[i].fact = r[i].fact /\ IsTotal(q[i], N)
    <3>1. r[i] \in Memory /\ IsTotal(r[i], M)
      BY <1>1, <1>2
    <3>2. CASE r[i].fact = m.fact
      <4>1. q[i] = Join(r[i], m)
        BY <2>1, <3>2
      <4> QED BY <3>1, <3>2, <4>1, JoinedTotal DEF N
    <3>3. CASE r[i].fact # m.fact
      BY <1>3, <2>1, <3>1, <3>3
    <3> QED BY <3>2, <3>3
  <2>3. DOMAIN q = DOMAIN r /\ q \in Seq(Memory)
    <3>1. q \in [1 .. Len(r) -> Memory]
      BY <1>2, <2>1, <2>2
    <3> QED BY <1>2, <2>1, <3>1, SeqDef
  <2>4. Apart(q)
    BY <1>1, <2>2, <2>3 DEF Apart
  <2>5. \A x \in N : \E i \in DOMAIN r : r[i].fact = x.fact
    BY <1>1, <1>4 DEF N
  <2>6. \A x \in N : \E i \in DOMAIN q : q[i].fact = x.fact
    BY <2>2, <2>3, <2>5
  <2> QED BY <2>2, <2>3, <2>4, <2>6 DEF IsGathered, q, N
<1>5. CASE \A i \in DOMAIN r : r[i].fact # m.fact
  <2> DEFINE n == Len(r)
  <2>1. q = Append(r, m)
    BY <1>5 DEF Remember
  <2>2. /\ q \in Seq(Memory) /\ Len(q) = n + 1
        /\ \A i \in 1 .. n : q[i] = r[i]
        /\ q[n + 1] = m
    BY <1>1, <2>1, AppendProperties
  <2> HIDE DEF q, N
  <2>3. DOMAIN q = 1 .. n + 1
    BY <2>2, LenProperties
  <2>4. \A i \in DOMAIN q : (i \in DOMAIN r /\ q[i] = r[i]) \/ (i = n + 1 /\ q[i] = m)
    BY <1>2, <2>2, <2>3
  <2>5. Apart(q)
    BY <1>1, <1>5, <2>4 DEF Apart
  <2>6. IsTotal(m, N)
    <3>1. OfFact(M, m.fact) = {}
      BY <1>1, <1>5 DEF OfFact
    <3>2. OfFact(N, m.fact) = {m}
      BY <3>1 DEF OfFact, N
    <3>3. m.confidence <= m.confidence /\ m.time <= m.time
      BY MemoryParts
    <3> QED BY <3>2, <3>3 DEF IsTotal
  <2>7. \A i \in DOMAIN q : IsTotal(q[i], N)
    BY <1>1, <1>2, <1>3, <1>5, <2>4, <2>6
  <2>8. \A x \in N : \E i \in DOMAIN q : q[i].fact = x.fact
    <3>1. n + 1 \in DOMAIN q /\ \A i \in DOMAIN r : i \in DOMAIN q /\ q[i] = r[i]
      BY <1>2, <2>2, <2>3
    <3> QED BY <1>1, <2>2, <3>1 DEF N
  <2> QED BY <2>2, <2>5, <2>7, <2>8 DEF IsGathered, q, N
<1> QED BY <1>4, <1>5

-----------------------------------------------------------------------------
(* Lists of memories *)

Gathering == INSTANCE Folding WITH Op <- Remember, Ch <- Max

Flattening == INSTANCE Folding WITH Op <- AddMemories, Ch <- Max

LEMMA MaxOfPositions ==
    ASSUME NEW n \in Nat, NEW s \in SUBSET (1 .. n), s # {}
    PROVE  Max(s) \in s /\ \A i \in s : Max(s) >= i
<1> DEFINE T == {k \in Nat : \E i \in s : k = n - i}
<1>1. T \subseteq Nat
  OBVIOUS
<1>2. T # {}
  <2>1. PICK i \in s : TRUE
    OBVIOUS
  <2>2. n - i \in Nat
    OBVIOUS
  <2> QED BY <2>2
<1>3. PICK k \in T : \A l \in Nat : l < k => l \notin T
  <2> HIDE DEF T
  <2> QED BY <1>1, <1>2, Gathering!Least
<1>4. PICK i \in s : k = n - i
  OBVIOUS
<1>5. ASSUME NEW j \in s
      PROVE  i >= j
  <2>1. n - j \in T /\ n - j \in Nat
    OBVIOUS
  <2>2. ~ (n - j < k)
    <3> HIDE DEF T
    <3> QED BY <1>3, <2>1
  <2> QED BY <1>4, <2>2
<1> QED BY <1>5 DEF Max

LEMMA PositionsFold ==
    ASSUME NEW n \in Nat
    PROVE  /\ Gathering!Chooses(1 .. n) /\ Gathering!LastIsChosen(n)
           /\ Flattening!Chooses(1 .. n) /\ Flattening!LastIsChosen(n)
<1>1. IsFiniteSet(1 .. n)
  BY FS_Interval
<1>2. \A s \in SUBSET (1 .. n) : s # {} => Max(s) \in s
  BY MaxOfPositions
<1>3. ASSUME NEW k \in 1 .. n
      PROVE  Max(1 .. k) = k
  <2>1. 1 .. k \in SUBSET (1 .. k) /\ k \in Nat /\ k \in 1 .. k
    OBVIOUS
  <2>2. Max(1 .. k) \in 1 .. k /\ \A i \in 1 .. k : Max(1 .. k) >= i
    BY <2>1, MaxOfPositions
  <2>3. Max(1 .. k) >= k /\ Max(1 .. k) <= k /\ Max(1 .. k) \in Int
    BY <2>1, <2>2
  <2> QED BY <2>3
<1> QED BY <1>1, <1>2, <1>3
        DEF Gathering!Chooses, Gathering!LastIsChosen, Gathering!IsFiniteSet,
            Flattening!Chooses, Flattening!LastIsChosen, Flattening!IsFiniteSet, IsFiniteSet

LEMMA ListParts ==
    ASSUME NEW S, NEW q \in Seq(S)
    PROVE  /\ Len(q) \in Nat /\ DOMAIN q = 1 .. Len(q)
           /\ \A i \in 1 .. Len(q) : q[i] \in S /\ q[i] \in ToSet(q)
           /\ \A x \in ToSet(q) : \E i \in 1 .. Len(q) : q[i] = x
           /\ ToSet(q) \subseteq S /\ IsFiniteSet(ToSet(q))
<1>1. Len(q) \in Nat /\ DOMAIN q = 1 .. Len(q) /\ \A i \in 1 .. Len(q) : q[i] \in S
  BY ElementOfSeq, LenProperties
<1>2. ToSet(q) = {q[i] : i \in 1 .. Len(q)}
  BY <1>1 DEF ToSet
<1>3. IsFiniteSet(1 .. Len(q))
  BY <1>1, FS_Interval
<1>4. IsFiniteSet({q[i] : i \in 1 .. Len(q)})
  <2> DEFINE f == [i \in 1 .. Len(q) |-> q[i]]
             T == {q[i] : i \in 1 .. Len(q)}
  <2>1. f \in Surjection(1 .. Len(q), T)
    BY DEF Surjection
  <2> HIDE DEF f, T
  <2>2. IsFiniteSet(T)
    BY <1>3, <2>1, FS_Surjection
  <2> QED BY <2>2 DEF T
<1> QED BY <1>1, <1>2, <1>4

LEMMA ListOfSet ==
    ASSUME NEW S, NEW M, M \subseteq S, IsFiniteSet(M)
    PROVE  SetToSeq(M) \in Seq(S) /\ ToSet(SetToSeq(M)) = M
<1> DEFINE n == Cardinality(M)
           D == 1 .. n
           q == SetToSeq(M)
<1>1. n \in Nat /\ IsFiniteSet(D) /\ Cardinality(D) = n
  BY FS_CardinalityType, FS_Interval
<1>2. PICK f : f \in Bijection(D, M)
  BY <1>1, FS_SameCardinalityBij DEF ExistsBijection
<1>3. f \in [D -> M] /\ IsInjective(f)
  BY <1>2 DEF Bijection, Injection, IsInjective
<1>4. q \in [D -> M] /\ IsInjective(q)
  BY <1>3 DEF SetToSeq
<1> HIDE DEF n, q
<1>5. q \in Injection(D, M)
  BY <1>4 DEF Injection, IsInjective
<1>6. q \in Surjection(D, M)
  BY <1>1, <1>5, FS_Injection DEF n
<1>7. ToSet(q) = M
  BY <1>4, <1>6 DEF ToSet, Surjection
<1>8. q \in [D -> S]
  BY <1>4
<1>9. q \in Seq(S)
  BY <1>1, <1>8, SeqDef
<1> QED BY <1>7, <1>9 DEF q

(* The first that fails, if any does *)
LEMMA FirstFails ==
    ASSUME NEW n \in Nat, NEW Bad, Bad \subseteq 0 .. n, Bad # {}
    PROVE  \E i \in Bad : \A j \in 0 .. n : j < i => j \notin Bad
<1>1. Bad \subseteq Nat
  OBVIOUS
<1>2. PICK i \in Bad : \A j \in Nat : j < i => j \notin Bad
  BY <1>1, Gathering!Least
<1> QED BY <1>2

LEMMA GatheredAll ==
    ASSUME NEW list \in Seq(Memory)
    PROVE  IsGathered(Gather(list), ToSet(list))
<1> DEFINE n == Len(list)
           Upto(i) == {list[k] : k \in 1 .. i}
<1>1. /\ n \in Nat /\ DOMAIN list = 1 .. n /\ \A i \in 1 .. n : list[i] \in Memory
      /\ ToSet(list) = Upto(n)
  BY ListParts DEF ToSet
<1>2. Gather(list) = Gathering!FoldOver(<<>>, list, DOMAIN list)
  BY DEF Gather, FoldLeft, MapThenFoldSet, Gathering!FoldOver
<1>3. PICK st : Gathering!IsRun(st, <<>>, list, n) /\ st[n] = Gathering!FoldOver(<<>>, list, 1 .. n)
  <2> HIDE DEF n
  <2> QED BY <1>1, PositionsFold, Gathering!FoldRuns
<1>4. st[0] = <<>> /\ \A i \in 1 .. n : st[i] = Remember(st[i - 1], list[i])
  BY <1>3 DEF Gathering!IsRun
<1> DEFINE Bad == {i \in 0 .. n : ~ IsGathered(st[i], Upto(i))}
<1>5. ASSUME NEW i \in Bad, \A j \in 0 .. n : j < i => j \notin Bad
      PROVE  FALSE
  <2>1. CASE i = 0
    <3>1. Upto(0) = {} /\ <<>> \in Seq(Memory) /\ DOMAIN <<>> = {}
      BY EmptySeq
    <3>2. IsGathered(<<>>, {})
      BY <3>1 DEF IsGathered, Apart
    <3> QED BY <1>4, <2>1, <3>1, <3>2
  <2>2. CASE i # 0
    <3>1. i \in 1 .. n /\ i - 1 \in 0 .. n /\ i - 1 < i
      BY <1>1, <2>2
    <3>2. IsGathered(st[i - 1], Upto(i - 1))
      BY <1>5, <3>1
    <3>3. Upto(i) = Upto(i - 1) \cup {list[i]} /\ Upto(i - 1) \subseteq Memory
      <4>1. \A k \in 1 .. i : k \in 1 .. i - 1 \/ k = i
        BY <3>1
      <4>2. i \in 1 .. i /\ \A k \in 1 .. i - 1 : k \in 1 .. i /\ k \in 1 .. n
        BY <1>1, <3>1
      <4> QED BY <1>1, <4>1, <4>2
    <3>4. st[i] = Remember(st[i - 1], list[i]) /\ list[i] \in Memory
      BY <1>1, <1>4, <3>1
    <3> DEFINE P == Upto(i - 1)
               Q == Upto(i)
    <3>5. Q = P \cup {list[i]} /\ P \subseteq Memory /\ IsGathered(st[i - 1], P) /\ ~ IsGathered(st[i], Q)
      BY <3>2, <3>3
    <3> HIDE DEF P, Q
    <3> QED BY <3>4, <3>5, Remembered
  <2> QED BY <2>1, <2>2
<1>6. Bad = {}
  <2>1. Bad \subseteq 0 .. n
    OBVIOUS
  <2> HIDE DEF Bad, n
  <2> QED BY <1>1, <1>5, <2>1, FirstFails
<1>7. n \in 0 .. n
  BY <1>1
<1> QED BY <1>1, <1>2, <1>3, <1>6, <1>7

-----------------------------------------------------------------------------
(* Totals *)

(* What a set of memories U has is in V too. *)
Spanned(U, V) ==
    \A m \in U : \E v \in V : /\ v.fact = m.fact /\ m.confidence <= v.confidence
                              /\ m.time <= v.time /\ m.tags \subseteq v.tags

(* Nothing in V is more than what U has. *)
Drawn(V, U) ==
    \A v \in V : /\ \E m \in U : m.fact = v.fact /\ m.confidence = v.confidence
                 /\ \E m \in U : m.fact = v.fact /\ m.time = v.time
                 /\ \A t \in v.tags : \E m \in U : m.fact = v.fact /\ t \in m.tags

LEMMA TotalFields ==
    ASSUME NEW M, M \subseteq Memory, NEW e \in Totals(M)
    PROVE  /\ e \in Memory
           /\ \E m \in M : m.fact = e.fact /\ m.confidence = e.confidence
           /\ \E m \in M : m.fact = e.fact /\ m.time = e.time
           /\ \A m \in M : m.fact = e.fact =>
                /\ m.confidence <= e.confidence /\ m.time <= e.time /\ m.tags \subseteq e.tags
           /\ \A t \in e.tags : \E m \in M : m.fact = e.fact /\ t \in m.tags
BY DEF Totals, IsTotal, OfFact

LEMMA FieldsTotal ==
    ASSUME NEW M, NEW e \in Memory,
           \E m \in M : m.fact = e.fact /\ m.confidence = e.confidence,
           \E m \in M : m.fact = e.fact /\ m.time = e.time,
           \A m \in M : m.fact = e.fact =>
             /\ m.confidence <= e.confidence /\ m.time <= e.time /\ m.tags \subseteq e.tags,
           \A t \in e.tags : \E m \in M : m.fact = e.fact /\ t \in m.tags
    PROVE  e \in Totals(M)
<1>1. e.tags = UNION {m.tags : m \in OfFact(M, e.fact)}
  BY DEF OfFact
<1>2. /\ \E m \in OfFact(M, e.fact) : m.confidence = e.confidence
      /\ \E m \in OfFact(M, e.fact) : m.time = e.time
      /\ \A m \in OfFact(M, e.fact) : m.confidence <= e.confidence /\ m.time <= e.time
  BY DEF OfFact
<1> QED BY <1>1, <1>2 DEF Totals, IsTotal

LEMMA SameTotals ==
    ASSUME NEW U, NEW V, U \subseteq Memory, V \subseteq Memory, Spanned(U, V), Drawn(V, U)
    PROVE  Totals(U) = Totals(V)
<1>1. ASSUME NEW e \in Totals(U)
      PROVE  e \in Totals(V)
  <2>1. /\ e \in Memory
        /\ \E m \in U : m.fact = e.fact /\ m.confidence = e.confidence
        /\ \E m \in U : m.fact = e.fact /\ m.time = e.time
        /\ \A m \in U : m.fact = e.fact =>
             /\ m.confidence <= e.confidence /\ m.time <= e.time /\ m.tags \subseteq e.tags
        /\ \A t \in e.tags : \E m \in U : m.fact = e.fact /\ t \in m.tags
    BY TotalFields
  <2>2. e.confidence \in Nat /\ e.time \in Nat
        /\ \A v \in V : v.confidence \in Nat /\ v.time \in Nat
    BY <2>1, MemoryParts
  <2>3. ASSUME NEW v \in V, v.fact = e.fact
        PROVE  v.confidence <= e.confidence /\ v.time <= e.time /\ v.tags \subseteq e.tags
    <3>1. \E m \in U : m.fact = v.fact /\ m.confidence = v.confidence
      BY DEF Drawn
    <3>2. \E m \in U : m.fact = v.fact /\ m.time = v.time
      BY DEF Drawn
    <3>3. \A t \in v.tags : \E m \in U : m.fact = v.fact /\ t \in m.tags
      BY DEF Drawn
    <3>4. v.confidence <= e.confidence
      BY <2>1, <2>3, <3>1
    <3>5. v.time <= e.time
      BY <2>1, <2>3, <3>2
    <3>6. v.tags \subseteq e.tags
      BY <2>1, <2>3, <3>3
    <3> QED BY <3>4, <3>5, <3>6
  <2>4. \E v \in V : v.fact = e.fact /\ v.confidence = e.confidence
    <3>1. PICK m \in U : m.fact = e.fact /\ m.confidence = e.confidence
      BY <2>1
    <3>2. PICK v \in V : v.fact = m.fact /\ m.confidence <= v.confidence
      BY DEF Spanned
    <3>3. v.confidence <= e.confidence
      BY <2>3, <3>1, <3>2
    <3> QED BY <2>2, <3>1, <3>2, <3>3
  <2>5. \E v \in V : v.fact = e.fact /\ v.time = e.time
    <3>1. PICK m \in U : m.fact = e.fact /\ m.time = e.time
      BY <2>1
    <3>2. PICK v \in V : v.fact = m.fact /\ m.time <= v.time
      BY DEF Spanned
    <3>3. v.time <= e.time
      BY <2>3, <3>1, <3>2
    <3> QED BY <2>2, <3>1, <3>2, <3>3
  <2>6. \A t \in e.tags : \E v \in V : v.fact = e.fact /\ t \in v.tags
    BY <2>1 DEF Spanned
  <2> QED BY <2>1, <2>3, <2>4, <2>5, <2>6, FieldsTotal
<1>2. ASSUME NEW e \in Totals(V)
      PROVE  e \in Totals(U)
  <2>1. /\ e \in Memory
        /\ \E m \in V : m.fact = e.fact /\ m.confidence = e.confidence
        /\ \E m \in V : m.fact = e.fact /\ m.time = e.time
        /\ \A m \in V : m.fact = e.fact =>
             /\ m.confidence <= e.confidence /\ m.time <= e.time /\ m.tags \subseteq e.tags
        /\ \A t \in e.tags : \E m \in V : m.fact = e.fact /\ t \in m.tags
    BY TotalFields
  <2>2. e.confidence \in Nat /\ e.time \in Nat
        /\ (\A v \in V : v.confidence \in Nat /\ v.time \in Nat)
        /\ (\A v \in U : v.confidence \in Nat /\ v.time \in Nat)
    BY <2>1, MemoryParts
  <2>3. ASSUME NEW m \in U, m.fact = e.fact
        PROVE  m.confidence <= e.confidence /\ m.time <= e.time /\ m.tags \subseteq e.tags
    <3>1. PICK v \in V : /\ v.fact = m.fact /\ m.confidence <= v.confidence
                         /\ m.time <= v.time /\ m.tags \subseteq v.tags
      BY DEF Spanned
    <3>2. v.confidence <= e.confidence /\ v.time <= e.time /\ v.tags \subseteq e.tags
      BY <2>1, <2>3, <3>1
    <3>3. m.tags \subseteq e.tags
      BY <3>1, <3>2
    <3> QED BY <2>2, <3>1, <3>2, <3>3
  <2>4. /\ \E m \in U : m.fact = e.fact /\ m.confidence = e.confidence
        /\ \E m \in U : m.fact = e.fact /\ m.time = e.time
        /\ \A t \in e.tags : \E m \in U : m.fact = e.fact /\ t \in m.tags
    <3>1. \E m \in U : m.fact = e.fact /\ m.confidence = e.confidence
      BY <2>1 DEF Drawn
    <3>2. \E m \in U : m.fact = e.fact /\ m.time = e.time
      BY <2>1 DEF Drawn
    <3>3. \A t \in e.tags : \E m \in U : m.fact = e.fact /\ t \in m.tags
      BY <2>1 DEF Drawn
    <3> QED BY <3>1, <3>2, <3>3
  <2> QED BY <2>1, <2>3, <2>4, FieldsTotal
<1> QED BY <1>1, <1>2

(* A finite set has a total of each of its facts. *)
LEMMA TotalExists ==
    ASSUME NEW M, M \subseteq Memory, IsFiniteSet(M), NEW m \in M
    PROVE  \E e \in Totals(M) : e.fact = m.fact
<1> DEFINE q == SetToSeq(M)
<1>1. q \in Seq(Memory) /\ ToSet(q) = M
  BY ListOfSet
<1> HIDE DEF q
<1>2. IsGathered(Gather(q), M)
  BY <1>1, GatheredAll
<1>3. PICK i \in DOMAIN Gather(q) : Gather(q)[i].fact = m.fact
  BY <1>2 DEF IsGathered
<1>4. Gather(q)[i] \in Memory /\ IsTotal(Gather(q)[i], M)
  BY <1>2, ElementOfSeq DEF IsGathered
<1> QED BY <1>3, <1>4 DEF Totals

LEMMA GatheredTotals ==
    ASSUME NEW M, M \subseteq Memory, NEW r, IsGathered(r, M)
    PROVE  ToSet(r) = Totals(M)
<1>1. r \in Seq(Memory) /\ \A i \in DOMAIN r : r[i] \in Memory /\ IsTotal(r[i], M)
  BY ElementOfSeq DEF IsGathered
<1>2. ToSet(r) = {r[i] : i \in DOMAIN r}
  BY DEF ToSet
<1>3. ToSet(r) \subseteq Totals(M)
  BY <1>1, <1>2 DEF Totals
<1>4. ASSUME NEW e \in Totals(M)
      PROVE  e \in ToSet(r)
  <2>1. PICK m \in M : m.fact = e.fact
    BY TotalFields
  <2>2. PICK i \in DOMAIN r : r[i].fact = e.fact
    BY <2>1 DEF IsGathered
  <2>3. r[i] \in ToSet(r) /\ r[i] \in Totals(M)
    BY <1>2, <1>3
  <2>4. r[i] = e
    BY <2>2, <2>3, OneTotal
  <2> QED BY <2>3, <2>4
<1> QED BY <1>3, <1>4

LEMMA JoinAllTotals ==
    ASSUME NEW M, M \subseteq Memory, IsFiniteSet(M)
    PROVE  JoinAll(M) = Totals(M)
<1>1. SetToSeq(M) \in Seq(Memory) /\ ToSet(SetToSeq(M)) = M
  BY ListOfSet
<1> QED BY <1>1, GatheredAll, GatheredTotals DEF JoinAll

(* Totals may be taken before the memories are put together. *)
LEMMA TotalsOfTotals ==
    ASSUME NEW M, NEW N, M \subseteq Memory, N \subseteq Memory, IsFiniteSet(M)
    PROVE  Totals(Totals(M) \cup N) = Totals(M \cup N)
<1> DEFINE T == Totals(M)
<1>1. T \subseteq Memory
  BY DEF Totals
<1>2. \A m \in Memory : m.confidence <= m.confidence /\ m.time <= m.time
  BY MemoryParts
<1>3. ASSUME NEW m \in M
      PROVE  \E v \in T : /\ v.fact = m.fact /\ m.confidence <= v.confidence
                          /\ m.time <= v.time /\ m.tags \subseteq v.tags
  <2>1. PICK v \in T : v.fact = m.fact
    BY TotalExists
  <2> QED BY <2>1, TotalFields
<1>4. Spanned(M \cup N, T \cup N)
  BY <1>2, <1>3 DEF Spanned
<1>5. ASSUME NEW v \in T
      PROVE  /\ \E m \in M : m.fact = v.fact /\ m.confidence = v.confidence
             /\ \E m \in M : m.fact = v.fact /\ m.time = v.time
             /\ \A t \in v.tags : \E m \in M : m.fact = v.fact /\ t \in m.tags
  BY TotalFields
<1> HIDE DEF T
<1>6. Drawn(T \cup N, M \cup N)
  BY <1>5 DEF Drawn
<1>7. Totals(M \cup N) = Totals(T \cup N)
  BY <1>1, <1>4, <1>6, SameTotals
<1> QED BY <1>7 DEF T

-----------------------------------------------------------------------------
(* Contexts: what a budget keeps *)

(* A list of places, each above those that are in above of it *)
Ranking(above, n) ==
    /\ above \in [1 .. n -> SUBSET (1 .. n)]
    /\ \A k \in 1 .. n : k \notin above[k]
    /\ \A i, k \in 1 .. n : i \in above[k] => above[i] \subseteq above[k]
    /\ \A i, k \in 1 .. n : i # k => i \in above[k] \/ k \in above[i]

FirstOf(above, n, B) == {k \in 1 .. n : Cardinality(above[k]) < B}

LEMMA RankedFirst ==
    ASSUME NEW n \in Nat, NEW above, Ranking(above, n), NEW B \in Nat
    PROVE  /\ \A k \in FirstOf(above, n, B) : \A i \in above[k] : i \in FirstOf(above, n, B)
           /\ IsFiniteSet(FirstOf(above, n, B)) /\ Cardinality(FirstOf(above, n, B)) <= B
           /\ FirstOf(above, n, B) = 1 .. n \/ Cardinality(FirstOf(above, n, B)) = B
<1> DEFINE D == 1 .. n
           rank == [k \in D |-> Cardinality(above[k])]
           kept == FirstOf(above, n, B)
           few == [k \in kept |-> rank[k]]
<1>1. IsFiniteSet(D) /\ Cardinality(D) = n
  BY FS_Interval
<1>2. /\ \A k \in D : above[k] \in SUBSET D /\ k \notin above[k]
      /\ \A k \in D : \A i \in above[k] : above[i] \in SUBSET above[k]
      /\ \A i, k \in D : i # k => i \in above[k] \/ k \in above[i]
  BY DEF Ranking
<1> HIDE DEF D
<1>3. ASSUME NEW k \in D
      PROVE  IsFiniteSet(above[k]) /\ rank[k] \in Nat /\ rank[k] < n
  <2>1. IsFiniteSet(above[k]) /\ Cardinality(above[k]) <= n /\ (n = Cardinality(above[k]) => D = above[k])
    BY <1>1, <1>2, FS_Subset
  <2>2. Cardinality(above[k]) \in Nat
    BY <2>1, FS_CardinalityType
  <2>3. D # above[k]
    BY <1>2
  <2>4. rank[k] = Cardinality(above[k])
    OBVIOUS
  <2> HIDE DEF rank
  <2> QED BY <2>1, <2>2, <2>3, <2>4
<1>4. ASSUME NEW k \in D, NEW i \in above[k]
      PROVE  i \in D /\ rank[i] < rank[k]
  <2>1. i \in D /\ above[i] \in SUBSET above[k] /\ i \notin above[i]
    BY <1>2
  <2>2. /\ IsFiniteSet(above[k]) /\ rank[k] = Cardinality(above[k]) /\ rank[i] = Cardinality(above[i])
        /\ rank[i] \in Nat /\ rank[k] \in Nat
    BY <1>3, <2>1
  <2> HIDE DEF rank
  <2>3. rank[i] <= rank[k] /\ (rank[k] = rank[i] => above[k] = above[i])
    BY <2>1, <2>2, FS_Subset
  <2> QED BY <2>1, <2>2, <2>3
<1>5. \A k \in D : k \in kept <=> rank[k] < B
  BY DEF FirstOf, D
<1>6. kept \in SUBSET D
  BY DEF FirstOf, D
<1> HIDE DEF kept
<1>7. \A k \in kept : \A i \in above[k] : i \in kept
  <2> TAKE k \in kept
  <2> TAKE i \in above[k]
  <2>1. k \in D /\ rank[k] < B
    BY <1>5, <1>6
  <2>2. i \in D /\ rank[i] < rank[k]
    BY <1>4, <2>1
  <2>3. rank[i] \in Nat /\ rank[k] \in Nat
    BY <1>3, <2>1, <2>2
  <2>4. rank[i] < B
    <3> HIDE DEF rank
    <3> QED BY <2>1, <2>2, <2>3
  <2> QED BY <1>5, <2>2, <2>4
<1>8. \A i, k \in D : rank[i] = rank[k] => i = k
  <2> SUFFICES ASSUME NEW i \in D, NEW k \in D, i # k
               PROVE  rank[i] # rank[k]
    OBVIOUS
  <2>1. rank[i] < rank[k] \/ rank[k] < rank[i]
    BY <1>2, <1>4
  <2>2. rank[i] \in Nat /\ rank[k] \in Nat
    BY <1>3
  <2> HIDE DEF rank
  <2> QED BY <2>1, <2>2
<1>9. IsFiniteSet(kept)
  BY <1>1, <1>6, FS_Subset
<1>10. few \in Injection(kept, 0 .. B - 1)
  <2>1. \A k \in kept : rank[k] \in 0 .. B - 1
    <3> TAKE k \in kept
    <3>1. rank[k] < B /\ rank[k] \in Nat
      BY <1>3, <1>5, <1>6
    <3> HIDE DEF rank
    <3> QED BY <3>1
  <2> HIDE DEF rank
  <2>2. few \in [kept -> 0 .. B - 1]
    BY <2>1
  <2> QED BY <1>6, <1>8, <2>2 DEF Injection, IsInjective
<1>11. IsFiniteSet(0 .. B - 1) /\ Cardinality(0 .. B - 1) = B
  BY FS_Interval
<1>12. Cardinality(kept) <= B
  <2> HIDE DEF few
  <2> QED BY <1>10, <1>11, FS_Injection
<1>13. CASE n <= B
  <2>1. \A k \in D : rank[k] < B
    <3> TAKE k \in D
    <3>1. rank[k] < n /\ rank[k] \in Nat
      BY <1>3
    <3> HIDE DEF rank
    <3> QED BY <1>13, <3>1
  <2>2. kept = D
    BY <1>5, <1>6, <2>1
  <2> QED BY <1>7, <1>9, <1>12, <2>2 DEF kept, D
<1>14. CASE ~ (n <= B)
  <2>1. rank \in Injection(D, 0 .. n - 1)
    <3>1. \A k \in D : rank[k] \in 0 .. n - 1
      <4> TAKE k \in D
      <4>1. rank[k] < n /\ rank[k] \in Nat
        BY <1>3
      <4> HIDE DEF rank
      <4> QED BY <4>1
    <3>2. rank \in [D -> 0 .. n - 1]
      BY <3>1
    <3> HIDE DEF rank
    <3> QED BY <1>8, <3>2 DEF Injection, IsInjective
  <2>2. IsFiniteSet(0 .. n - 1) /\ Cardinality(0 .. n - 1) = n
    BY FS_Interval
  <2>3. rank \in Surjection(D, 0 .. n - 1)
    <3> HIDE DEF rank
    <3> QED BY <1>1, <2>1, <2>2, FS_Injection
  <2>4. \A r \in 0 .. n - 1 : \E k \in D : rank[k] = r
    <3> HIDE DEF rank
    <3> QED BY <2>3 DEF Surjection
  <2>5. \A r \in 0 .. B - 1 : \E k \in kept : few[k] = r
    <3> TAKE r \in 0 .. B - 1
    <3>1. r \in 0 .. n - 1 /\ r < B
      BY <1>14
    <3>2. PICK k \in D : rank[k] = r
      BY <2>4, <3>1
    <3>3. k \in kept
      <4> HIDE DEF rank
      <4> QED BY <1>5, <3>1, <3>2
    <3> QED BY <3>2, <3>3
  <2>6. few \in Surjection(kept, 0 .. B - 1)
    <3>1. few \in [kept -> 0 .. B - 1]
      <4> HIDE DEF few
      <4> QED BY <1>10 DEF Injection
    <3> HIDE DEF few
    <3> QED BY <2>5, <3>1 DEF Surjection
  <2>7. Cardinality(kept) = B
    <3> HIDE DEF few
    <3> QED BY <1>10, <1>11, <2>6, FS_Injection
  <2> QED BY <1>7, <1>9, <1>12, <2>7 DEF kept, D
<1> QED BY <1>13, <1>14

IsListing(q, S) ==
    /\ q \in [1 .. Cardinality(S) -> S]
    /\ \A i, j \in 1 .. Cardinality(S) : i < j => q[i] < q[j]
    /\ \A x \in S : \E n \in 1 .. Cardinality(S) : q[n] = x

LEMMA InOrderSorted ==
    ASSUME NEW S, IsFiniteSet(S), S \subseteq Int
    PROVE  IsListing(InOrder(S), S)
<1>1. Gathering!IsFiniteSet(S)
  BY DEF Gathering!IsFiniteSet, IsFiniteSet
<1>2. Gathering!IsSorted(Gathering!InOrder(S), S)
  BY <1>1, Gathering!InOrderIsSorted
<1>3. Gathering!InOrder(S) = InOrder(S) /\ Gathering!Cardinality(S) = Cardinality(S)
  BY DEF InOrder, Gathering!InOrder, Gathering!Cardinality, Cardinality
<1> QED BY <1>2, <1>3 DEF Gathering!IsSorted, IsListing

(* The items of a list at some places *)
LEMMA AtPlaces ==
    ASSUME NEW r \in Seq(Memory), NEW P, P \subseteq DOMAIN r
    PROVE  /\ At(r, P) \in Seq(Memory) /\ ToSet(At(r, P)) = {r[i] : i \in P}
           /\ Apart(r) => Apart(At(r, P))
<1> DEFINE q == InOrder(P)
           N == Cardinality(P)
           u == At(r, P)
<1>1. Len(r) \in Nat /\ DOMAIN r = 1 .. Len(r) /\ \A i \in DOMAIN r : r[i] \in Memory
  BY ListParts
<1>2. IsFiniteSet(P) /\ P \subseteq Int /\ N \in Nat
  <2>1. IsFiniteSet(1 .. Len(r)) /\ P \in SUBSET (1 .. Len(r))
    BY <1>1, FS_Interval
  <2>2. IsFiniteSet(P)
    BY <2>1, FS_Subset
  <2> QED BY <1>1, <2>2, FS_CardinalityType
<1>3. IsListing(q, P)
  BY <1>2, InOrderSorted
<1>4. u = [m \in 1 .. N |-> r[q[m]]]
  BY DEF At
<1> HIDE DEF u, q, N
<1>5. /\ \A m \in 1 .. N : q[m] \in P
      /\ \A x \in P : \E m \in 1 .. N : q[m] = x
      /\ \A i, j \in 1 .. N : i < j => q[i] < q[j]
  BY <1>3 DEF IsListing, N
<1>6. \A i, j \in 1 .. N : q[i] = q[j] => i = j
  <2> SUFFICES ASSUME NEW i \in 1 .. N, NEW j \in 1 .. N, i # j
               PROVE  q[i] # q[j]
    OBVIOUS
  <2>1. i < j \/ j < i
    BY <1>2
  <2>2. q[i] < q[j] \/ q[j] < q[i]
    BY <1>5, <2>1
  <2>3. q[i] \in Int /\ q[j] \in Int
    BY <1>2, <1>5
  <2> QED BY <2>2, <2>3
<1>7. u \in [1 .. N -> Memory] /\ DOMAIN u = 1 .. N
  BY <1>1, <1>4, <1>5
<1>8. u \in Seq(Memory)
  BY <1>2, <1>7, SeqDef
<1>9. ASSUME Apart(r) PROVE Apart(u)
  <2>1. \A m \in DOMAIN u : u[m] = r[q[m]] /\ q[m] \in DOMAIN r
    BY <1>4, <1>5, <1>7
  <2> QED BY <1>6, <1>7, <1>9, <2>1 DEF Apart
<1>10. ToSet(u) = {r[i] : i \in P}
  BY <1>4, <1>5, <1>7 DEF ToSet
<1> QED BY <1>8, <1>9, <1>10 DEF u

(* K is what the budget leaves of T. *)
IsCut(K, T) ==
    /\ K \subseteq T
    /\ Budget = NoBudget => K = T
    /\ Budget # NoBudget =>
         /\ Cardinality(K) <= Budget
         /\ K = T \/ Cardinality(K) = Budget
         /\ \A e \in T \ K, d \in K : e.confidence <= d.confidence

LEMMA BudgetCuts ==
    ASSUME NEW u \in Seq(Memory), Apart(u)
    PROVE  IsCut(WithinBudget(u), ToSet(u))
<1> DEFINE n == Len(u)
           better(i, j) == u[i].confidence > u[j].confidence
                             \/ (u[i].confidence = u[j].confidence /\ i < j)
           above == [k \in 1 .. n |-> {i \in 1 .. n : better(i, k)}]
           kept == FirstOf(above, n, Budget)
           K == WithinBudget(u)
<1>1. /\ n \in Nat /\ DOMAIN u = 1 .. n
      /\ \A i \in 1 .. n : u[i] \in Memory /\ u[i].confidence \in Nat
  BY ListParts, MemoryParts
<1>2. ToSet(u) = {u[j] : j \in 1 .. n}
  BY <1>1 DEF ToSet
<1>3. CASE Budget = NoBudget
  BY <1>3, ContextMemoryAssumption DEF WithinBudget, IsCut
<1>4. CASE Budget # NoBudget
  <2>1. Budget \in Nat
    BY <1>4, ContextMemoryAssumption
  <2>2. K = {u[j] : j \in kept}
    BY <1>1, <1>4 DEF WithinBudget, FirstOf
  <2>3. \A i, k \in 1 .. n : i \in above[k] <=> better(i, k)
    OBVIOUS
  <2>4. above \in [1 .. n -> SUBSET (1 .. n)]
    OBVIOUS
  <2> DEFINE c == [i \in 1 .. n |-> u[i].confidence]
  <2>5. c \in [1 .. n -> Nat] /\ \A i, k \in 1 .. n :
          i \in above[k] <=> (c[i] > c[k] \/ (c[i] = c[k] /\ i < k))
    BY <1>1, <2>3
  <2> HIDE DEF above, c, n
  <2>6. Ranking(above, n)
    <3>1. \A i \in 1 .. n : c[i] \in Nat /\ i \in Nat
      BY <1>1, <2>5
    <3>2. \A k \in 1 .. n : k \notin above[k]
      BY <2>5, <3>1
    <3>3. \A i, k \in 1 .. n : i # k => i \in above[k] \/ k \in above[i]
      BY <2>5, <3>1
    <3>4. ASSUME NEW i \in 1 .. n, NEW k \in 1 .. n, i \in above[k], NEW j \in above[i]
          PROVE  j \in above[k]
      <4>1. j \in 1 .. n
        BY <2>4
      <4> QED BY <2>5, <3>1, <3>4, <4>1
    <3> QED BY <2>4, <3>2, <3>3, <3>4 DEF Ranking
  <2>7. /\ \A k \in kept : \A i \in above[k] : i \in kept
        /\ IsFiniteSet(kept) /\ Cardinality(kept) <= Budget
        /\ kept = 1 .. n \/ Cardinality(kept) = Budget
    BY <1>1, <2>1, <2>6, RankedFirst
  <2>8. kept \subseteq 1 .. n
    BY DEF FirstOf
  <2> HIDE DEF kept, K
  <2>9. Cardinality(K) = Cardinality(kept)
    <3> DEFINE f == [j \in kept |-> u[j]]
    <3>1. f \in Surjection(kept, K)
      BY <2>2 DEF Surjection
    <3>2. f \in Injection(kept, K)
      <4>1. f \in [kept -> K]
        BY <2>2
      <4>2. \A i, j \in kept : f[i] = f[j] => i = j
        BY <1>1, <2>8 DEF Apart
      <4> HIDE DEF f
      <4> QED BY <4>1, <4>2 DEF Injection, IsInjective
    <3> HIDE DEF f
    <3> QED BY <2>7, <3>1, <3>2, FS_Surjection
  <2>10. K \subseteq ToSet(u) /\ (kept = 1 .. n => K = ToSet(u))
    BY <1>2, <2>2, <2>8
  <2>11. ASSUME NEW e \in ToSet(u) \ K, NEW d \in K
         PROVE  e.confidence <= d.confidence
    <3>1. PICK i \in 1 .. n : e = u[i]
      BY <1>2
    <3>2. PICK k \in kept : d = u[k]
      BY <2>2
    <3>3. i \notin kept
      BY <2>2, <3>1
    <3>4. i \notin above[k]
      BY <2>7, <3>3
    <3>5. ~ (c[i] > c[k])
      BY <2>5, <2>8, <3>4
    <3>6. c[i] \in Nat /\ c[k] \in Nat /\ c[i] = e.confidence /\ c[k] = d.confidence
      BY <1>1, <2>8, <3>1, <3>2 DEF c
    <3> QED BY <3>5, <3>6
  <2> QED BY <1>4, <2>7, <2>9, <2>10, <2>11 DEF IsCut, K
<1> QED BY <1>3, <1>4

-----------------------------------------------------------------------------
(* Contexts: what a merge has *)

LEMMA ToSetOfTwo ==
    ASSUME NEW S, NEW s \in Seq(S), NEW t \in Seq(S)
    PROVE  s \o t \in Seq(S) /\ ToSet(s \o t) = ToSet(s) \cup ToSet(t)
<1>1. /\ s \o t \in Seq(S) /\ Len(s \o t) = Len(s) + Len(t)
      /\ \A i \in 1 .. Len(s) : (s \o t)[i] = s[i]
      /\ \A i \in 1 .. Len(t) : (s \o t)[Len(s) + i] = t[i]
  OBVIOUS
<1> DEFINE u == s \o t
<1>2. /\ DOMAIN s = 1 .. Len(s) /\ DOMAIN t = 1 .. Len(t) /\ DOMAIN u = 1 .. (Len(s) + Len(t))
      /\ Len(s) \in Nat /\ Len(t) \in Nat
  BY <1>1, LenProperties
<1> HIDE DEF u
<1>3. ASSUME NEW i \in DOMAIN u
      PROVE  u[i] \in ToSet(s) \cup ToSet(t)
  <2>1. CASE i \in 1 .. Len(s)
    BY <1>1, <1>2, <2>1 DEF ToSet, u
  <2>2. CASE i \notin 1 .. Len(s)
    <3>1. i - Len(s) \in 1 .. Len(t) /\ i = Len(s) + (i - Len(s))
      BY <1>2, <2>2
    <3>2. u[i] = t[i - Len(s)]
      BY <1>1, <3>1 DEF u
    <3> QED BY <1>2, <3>1, <3>2 DEF ToSet
  <2> QED BY <2>1, <2>2
<1>4. \A i \in DOMAIN s : i \in DOMAIN u /\ u[i] = s[i]
  BY <1>1, <1>2 DEF u
<1>5. \A i \in DOMAIN t : Len(s) + i \in DOMAIN u /\ u[Len(s) + i] = t[i]
  BY <1>1, <1>2 DEF u
<1>6. ToSet(u) = ToSet(s) \cup ToSet(t)
  BY <1>3, <1>4, <1>5 DEF ToSet
<1> QED BY <1>1, <1>6 DEF u

Confident(T) == {e \in T : e.confidence >= MinConfidence}

(* What a merge of two lists of memories has *)
IsMergeOf(r, X) ==
    /\ r \in Seq(Memory) /\ Apart(r)
    /\ IsCut(ToSet(r), Confident(Totals(X)))

(* r lists K, in the order of its facts. *)
ListsFacts(r, K) ==
    LET q == InOrder({m.fact : m \in K})
    IN r = [n \in DOMAIN q |-> CHOOSE m \in K : m.fact = q[n]]

LEMMA KeptListed ==
    ASSUME NEW K, K \subseteq Memory, IsFiniteSet(K), \A d, e \in K : d.fact = e.fact => d = e,
           NEW r, ListsFacts(r, K)
    PROVE  r \in Seq(Memory) /\ Apart(r) /\ ToSet(r) = K
<1> DEFINE F == {m.fact : m \in K}
           N == Cardinality(F)
           q == InOrder(F)
           f == [m \in K |-> m.fact]
<1>1. F \subseteq Int
  BY MemoryParts, ContextMemoryAssumption
<1>2. IsFiniteSet(F) /\ N \in Nat
  <2>1. f \in Surjection(K, F)
    BY DEF Surjection
  <2> HIDE DEF f, F
  <2> QED BY <2>1, FS_Surjection, FS_CardinalityType
<1>3. IsListing(q, F)
  <2> HIDE DEF F
  <2> QED BY <1>1, <1>2, InOrderSorted DEF F
<1>4. /\ DOMAIN q = 1 .. N /\ \A n \in 1 .. N : q[n] \in F
      /\ \A i, j \in 1 .. N : i < j => q[i] < q[j]
      /\ \A x \in F : \E n \in 1 .. N : q[n] = x
  <2> HIDE DEF F
  <2> QED BY <1>3 DEF IsListing
<1>5. r = [n \in 1 .. N |-> CHOOSE m \in K : m.fact = q[n]]
  BY <1>4 DEF ListsFacts
<1>6. ASSUME NEW n \in 1 .. N
      PROVE  r[n] \in K /\ r[n].fact = q[n] /\ q[n] \in Int
  <2>1. \E m \in K : m.fact = q[n]
    BY <1>4
  <2>2. r[n] = CHOOSE m \in K : m.fact = q[n]
    BY <1>5
  <2>3. q[n] \in Int
    BY <1>1, <1>4
  <2> HIDE DEF N, q
  <2> QED BY <2>1, <2>2, <2>3
<1> HIDE DEF N, F, q, f
<1>7. DOMAIN r = 1 .. N /\ r = [n \in 1 .. N |-> r[n]]
  BY <1>5
<1>8. r \in [1 .. N -> Memory]
  <2>1. \A n \in 1 .. N : r[n] \in Memory
    BY <1>6
  <2> QED BY <1>7, <2>1
<1>9. r \in Seq(Memory)
  BY <1>2, <1>8, SeqDef
<1>10. Apart(r)
  <2> SUFFICES ASSUME NEW i \in 1 .. N, NEW j \in 1 .. N, i # j
               PROVE  r[i].fact # r[j].fact
    BY <1>7 DEF Apart
  <2>1. i < j \/ j < i
    BY <1>2
  <2>2. q[i] < q[j] \/ q[j] < q[i]
    BY <1>4, <2>1
  <2>3. q[i] \in Int /\ q[j] \in Int
    BY <1>6
  <2>4. q[i] # q[j]
    BY <2>2, <2>3
  <2> QED BY <1>6, <2>4
<1>11. ToSet(r) = K
  <2>1. ToSet(r) \subseteq K
    BY <1>6, <1>7 DEF ToSet
  <2>2. ASSUME NEW m \in K
        PROVE  m \in ToSet(r)
    <3>1. PICK n \in 1 .. N : q[n] = m.fact
      BY <1>4 DEF F
    <3>2. r[n] = m
      BY <1>6, <3>1
    <3> QED BY <1>7, <3>2 DEF ToSet
  <2> QED BY <2>1, <2>2
<1> QED BY <1>9, <1>10, <1>11

LEMMA MergedIs ==
    ASSUME NEW a \in Seq(Memory), NEW b \in Seq(Memory)
    PROVE  IsMergeOf(MergeMemories(a, b), ToSet(a) \cup ToSet(b))
<1> DEFINE X == ToSet(a) \cup ToSet(b)
           all == Gather(a \o b)
           P == {i \in DOMAIN all : all[i].confidence >= MinConfidence}
           u == At(all, P)
           K == WithinBudget(u)
           q == InOrder({m.fact : m \in K})
           r == [n \in DOMAIN q |-> CHOOSE m \in K : m.fact = q[n]]
<1>1. a \o b \in Seq(Memory) /\ ToSet(a \o b) = X
  BY ToSetOfTwo, Zenon
<1>2. IsGathered(all, X)
  <2> DEFINE ab == a \o b
  <2>1. ab \in Seq(Memory) /\ ToSet(ab) = X
    BY <1>1
  <2> HIDE DEF ab, X
  <2>2. IsGathered(Gather(ab), X)
    BY <2>1, GatheredAll
  <2> QED BY <2>2 DEF ab
<1>3. X \subseteq Memory
  BY ListParts
<1> HIDE DEF X, all
<1>4. all \in Seq(Memory) /\ Apart(all)
  BY <1>2 DEF IsGathered
<1>5. ToSet(all) = Totals(X)
  BY <1>2, <1>3, GatheredTotals
<1>6. {all[i] : i \in P} = Confident(Totals(X))
  BY <1>5 DEF ToSet, Confident
<1>7. P \subseteq DOMAIN all
  OBVIOUS
<1> HIDE DEF P
<1>8. u \in Seq(Memory) /\ Apart(u) /\ ToSet(u) = Confident(Totals(X))
  BY <1>4, <1>6, <1>7, AtPlaces
<1> HIDE DEF u
<1>9. IsCut(K, ToSet(u))
  BY <1>8, BudgetCuts
<1>10. K \subseteq Memory /\ IsFiniteSet(K)
  <2>1. K \subseteq ToSet(u)
    BY <1>9 DEF IsCut
  <2>2. ToSet(u) \subseteq Memory /\ IsFiniteSet(ToSet(u))
    BY <1>8, ListParts
  <2> HIDE DEF K
  <2> QED BY <2>1, <2>2, FS_Subset
<1>11. \A d, e \in K : d.fact = e.fact => d = e
  <2>1. K \subseteq Totals(X)
    BY <1>8, <1>9 DEF IsCut, Confident
  <2> QED BY <1>3, <2>1, OneTotal
<1> HIDE DEF K
<1>12. r \in Seq(Memory) /\ Apart(r) /\ ToSet(r) = K
  <2>1. ListsFacts(r, K)
    BY DEF ListsFacts
  <2> HIDE DEF r
  <2> QED BY <1>10, <1>11, <2>1, KeptListed
<1>13. MergeMemories(a, b) = r
  BY DEF MergeMemories, K, u, P, all
<1> HIDE DEF r
<1> QED BY <1>8, <1>9, <1>12, <1>13 DEF IsMergeOf, X

LEMMA TotalsFinite ==
    ASSUME NEW M, M \subseteq Memory, IsFiniteSet(M)
    PROVE  Totals(M) \subseteq Memory /\ IsFiniteSet(Totals(M))
<1> DEFINE q == SetToSeq(M)
<1>1. q \in Seq(Memory) /\ ToSet(q) = M
  BY ListOfSet
<1> HIDE DEF q
<1>2. IsGathered(Gather(q), M)
  BY <1>1, GatheredAll
<1>3. Gather(q) \in Seq(Memory) /\ ToSet(Gather(q)) = Totals(M)
  BY <1>2, GatheredTotals DEF IsGathered
<1>4. ToSet(Gather(q)) \subseteq Memory /\ IsFiniteSet(ToSet(Gather(q)))
  BY <1>3, ListParts
<1> QED BY <1>3, <1>4

(* A set of memories has as many members as facts, or more. *)
LEMMA FactsOfMemories ==
    ASSUME NEW K, IsFiniteSet(K), NEW C, \A g \in C : \E e \in K : e.fact = g
    PROVE  IsFiniteSet(C) /\ Cardinality(C) <= Cardinality(K)
<1> DEFINE J == {e \in K : e.fact \in C}
           f == [e \in J |-> e.fact]
<1>1. f \in Surjection(J, C)
  BY DEF Surjection
<1>2. IsFiniteSet(J) /\ Cardinality(J) <= Cardinality(K)
  BY FS_Subset
<1> HIDE DEF J, f
<1>3. IsFiniteSet(C) /\ Cardinality(C) <= Cardinality(J)
  BY <1>1, <1>2, FS_Surjection
<1>4. Cardinality(C) \in Nat /\ Cardinality(J) \in Nat /\ Cardinality(K) \in Nat
  BY <1>2, <1>3, FS_CardinalityType
<1> QED BY <1>2, <1>3, <1>4

LEMMA FactsApart ==
    ASSUME NEW K, IsFiniteSet(K), \A d, e \in K : d.fact = e.fact => d = e,
           NEW C, C = {e.fact : e \in K}
    PROVE  IsFiniteSet(C) /\ Cardinality(C) = Cardinality(K)
<1> DEFINE f == [e \in K |-> e.fact]
<1>1. f \in Surjection(K, C)
  BY DEF Surjection
<1>2. f \in Injection(K, C)
  BY DEF Injection, IsInjective
<1> HIDE DEF f
<1> QED BY <1>1, <1>2, FS_Surjection

-----------------------------------------------------------------------------
(* What is left of a history of memories *)

Best(L, f, c) ==
    /\ \E l \in L : l.fact = f /\ l.confidence = c
    /\ \A l \in L : l.fact = f => l.confidence <= c

(* Other facts that are as good *)
Crowd(H, f, c) == {m.fact : m \in {n \in H : n.fact # f /\ n.confidence >= c}}

Crowded(H, f, c) == Budget # NoBudget /\ Budget <= Cardinality(Crowd(H, f, c))

Stays(H, f, c) ==
    (\E m \in H : m.fact = f /\ m.confidence = c) \/ Crowded(H, f, c)

Within(H, L) == \A m \in H : \E l \in L : l.fact = m.fact /\ m.confidence <= l.confidence

BestStay(H, L) ==
    \A f \in Fact, c \in Nat : Best(L, f, c) /\ c >= MinConfidence => Stays(H, f, c)

AllStay(H, L) == Budget = NoBudget /\ MinConfidence = 0 => Totals(H) = Totals(L)

HeldView(H, L) ==
    /\ H \subseteq Memory /\ IsFiniteSet(H) /\ L \subseteq Memory /\ IsFiniteSet(L)
    /\ Within(H, L) /\ BestStay(H, L) /\ AllStay(H, L)

LEMMA CrowdGrows ==
    ASSUME NEW H, IsFiniteSet(H), NEW G, G \subseteq H, NEW f, NEW c, Crowded(G, f, c)
    PROVE  Crowded(H, f, c)
<1> DEFINE C == Crowd(G, f, c)
           D == Crowd(H, f, c)
<1>1. C \in SUBSET D
  BY DEF Crowd
<1>2. \A g \in D : \E e \in H : e.fact = g
  BY DEF Crowd
<1>3. Budget \in Nat /\ Budget # NoBudget /\ Budget <= Cardinality(C)
  BY ContextMemoryAssumption DEF Crowded
<1> HIDE DEF C, D
<1>4. IsFiniteSet(D)
  BY <1>2, FactsOfMemories
<1>5. IsFiniteSet(C) /\ Cardinality(C) <= Cardinality(D)
  BY <1>1, <1>4, FS_Subset
<1>6. Cardinality(C) \in Nat /\ Cardinality(D) \in Nat
  BY <1>4, <1>5, FS_CardinalityType
<1>7. Budget <= Cardinality(D)
  BY <1>3, <1>5, <1>6
<1> QED BY <1>3, <1>7 DEF Crowded, D

LEMMA CutParts ==
    ASSUME NEW X, X \subseteq Memory, IsFiniteSet(X), NEW K, IsCut(K, Confident(Totals(X)))
    PROVE  /\ K \subseteq Totals(X) /\ K \subseteq Memory /\ IsFiniteSet(K) /\ Cardinality(K) \in Nat
           /\ \A n \in K : n.confidence \in Nat /\ n.confidence >= MinConfidence
           /\ \A d, e \in K : d.fact = e.fact => d = e
           /\ \A e \in Totals(X) \ K, n \in K :
                e.confidence >= MinConfidence => e.confidence <= n.confidence
           /\ \A e \in Totals(X) \ K :
                e.confidence >= MinConfidence => Cardinality(K) = Budget
<1>1. Totals(X) \subseteq Memory /\ IsFiniteSet(Totals(X))
  BY TotalsFinite
<1>2. K \subseteq Totals(X) /\ \A n \in K : n.confidence >= MinConfidence
  BY DEF IsCut, Confident
<1>3. IsFiniteSet(K) /\ Cardinality(K) \in Nat
  BY <1>1, <1>2, FS_Subset, FS_CardinalityType
<1>4. \A d, e \in K : d.fact = e.fact => d = e
  BY <1>2, OneTotal
<1>5. \A n \in K : n.confidence \in Nat
  BY <1>1, <1>2, MemoryParts
<1>6. ASSUME NEW e \in Totals(X) \ K, e.confidence >= MinConfidence
      PROVE  Cardinality(K) = Budget /\ \A n \in K : e.confidence <= n.confidence
  <2>1. e \in Confident(Totals(X)) \ K
    BY <1>6 DEF Confident
  <2> QED BY <2>1 DEF IsCut
<1> QED BY <1>1, <1>2, <1>3, <1>4, <1>5, <1>6

(* Where others crowd a fact out, all that the budget keeps is as good. *)
LEMMA CrowdFills ==
    ASSUME NEW X, X \subseteq Memory, IsFiniteSet(X), NEW K, IsCut(K, Confident(Totals(X))),
           NEW f, NEW c \in Nat, c >= MinConfidence, Crowded(X, f, c)
    PROVE  Cardinality(K) = Budget /\ \A n \in K : n.confidence >= c
<1> DEFINE T == Totals(X)
           C == Crowd(X, f, c)
<1>1. /\ K \subseteq T /\ IsFiniteSet(K) /\ Cardinality(K) \in Nat
      /\ \A n \in K : n.confidence \in Nat
      /\ \A e \in T \ K, n \in K : e.confidence >= MinConfidence => e.confidence <= n.confidence
      /\ \A e \in T \ K : e.confidence >= MinConfidence => Cardinality(K) = Budget
  BY CutParts
<1>2. Budget \in Nat /\ Budget <= Cardinality(C) /\ Budget # NoBudget /\ MinConfidence \in Nat
  BY ContextMemoryAssumption DEF Crowded
<1>3. Cardinality(K) <= Budget
  BY <1>2 DEF IsCut
<1>4. \A g \in C : \E e \in T : e.fact = g /\ e.confidence \in Nat /\ e.confidence >= c
  <2> TAKE g \in C
  <2>1. PICK m \in X : m.fact = g /\ m.confidence >= c
    BY DEF Crowd
  <2>2. PICK e \in T : e.fact = m.fact
    BY <2>1, TotalExists
  <2>3. e \in Memory /\ m.confidence <= e.confidence
    BY <2>1, <2>2, TotalFields
  <2>4. m.confidence \in Nat /\ e.confidence \in Nat
    BY <2>1, <2>3, MemoryParts
  <2>5. e.confidence >= c
    BY <2>1, <2>3, <2>4
  <2> QED BY <2>1, <2>2, <2>4, <2>5
<1> HIDE DEF T, C
<1>5. \A n \in K : n.confidence >= c
  <2> SUFFICES ASSUME NEW n \in K, n.confidence < c
               PROVE  FALSE
    BY <1>1
  <2>1. \A g \in C : \E e \in K \ {n} : e.fact = g
    <3> TAKE g \in C
    <3>1. PICK e \in T : e.fact = g /\ e.confidence \in Nat /\ e.confidence >= c
      BY <1>4
    <3>2. e.confidence >= MinConfidence /\ ~ (e.confidence <= n.confidence)
      BY <1>1, <1>2, <3>1
    <3>3. e \in K
      BY <1>1, <3>2
    <3>4. e # n
      BY <3>2, <1>1, <3>1
    <3> QED BY <3>1, <3>3, <3>4
  <2>2. IsFiniteSet(K \ {n}) /\ Cardinality(K \ {n}) = Cardinality(K) - 1
    BY <1>1, FS_RemoveElement
  <2>3. Cardinality(C) <= Cardinality(K) - 1 /\ Cardinality(C) \in Nat
    BY <2>1, <2>2, FactsOfMemories, FS_CardinalityType
  <2> QED BY <1>1, <1>2, <1>3, <2>3
<1>6. Cardinality(K) = Budget
  <2> SUFFICES ASSUME \A e \in T : e.confidence >= MinConfidence => e \in K
               PROVE  Cardinality(K) = Budget
    BY <1>1
  <2>1. \A g \in C : \E e \in K : e.fact = g
    BY <1>2, <1>4
  <2>2. Cardinality(C) <= Cardinality(K) /\ Cardinality(C) \in Nat
    BY <1>1, <2>1, FactsOfMemories, FS_CardinalityType
  <2> QED BY <1>1, <1>2, <1>3, <2>2
<1> QED BY <1>5, <1>6

LEMMA NothingHeld == HeldView({}, {})
<1>1. IsFiniteSet({})
  BY FS_EmptySet
<1> QED BY <1>1 DEF HeldView, Within, BestStay, AllStay, Best

LEMMA LearnKeeps ==
    ASSUME NEW H, NEW L, HeldView(H, L), NEW m \in Memory
    PROVE  HeldView(H \cup {m}, L \cup {m})
<1> DEFINE H2 == H \cup {m}
           L2 == L \cup {m}
<1>1. /\ H \subseteq Memory /\ IsFiniteSet(H) /\ L \subseteq Memory /\ IsFiniteSet(L)
      /\ Within(H, L) /\ BestStay(H, L) /\ AllStay(H, L)
  BY DEF HeldView
<1>2. H2 \subseteq Memory /\ IsFiniteSet(H2) /\ L2 \subseteq Memory /\ IsFiniteSet(L2)
  BY <1>1, FS_AddElement
<1>3. Within(H2, L2)
  <2>1. m.confidence <= m.confidence
    BY MemoryParts
  <2> QED BY <1>1, <2>1 DEF Within
<1>4. ASSUME NEW f \in Fact, NEW c \in Nat, Best(L2, f, c), c >= MinConfidence
      PROVE  Stays(H2, f, c)
  <2>1. CASE \E l \in L : l.fact = f /\ l.confidence = c
    <3>1. Best(L, f, c)
      BY <1>4, <2>1 DEF Best
    <3>2. Stays(H, f, c)
      BY <1>1, <1>4, <3>1 DEF BestStay
    <3>3. CASE \E n \in H : n.fact = f /\ n.confidence = c
      BY <3>3 DEF Stays
    <3>4. CASE Crowded(H, f, c)
      <4>1. H \subseteq H2
        OBVIOUS
      <4> HIDE DEF H2
      <4>2. Crowded(H2, f, c)
        BY <1>2, <3>4, <4>1, CrowdGrows
      <4> QED BY <4>2 DEF Stays
    <3> QED BY <3>2, <3>3, <3>4 DEF Stays
  <2>2. CASE ~ \E l \in L : l.fact = f /\ l.confidence = c
    <3>1. m.fact = f /\ m.confidence = c
      BY <1>4, <2>2 DEF Best
    <3> QED BY <3>1 DEF Stays
  <2> QED BY <2>1, <2>2
<1>5. ASSUME Budget = NoBudget, MinConfidence = 0
      PROVE  Totals(H2) = Totals(L2)
  <2>1. Totals(H) = Totals(L)
    BY <1>1, <1>5 DEF AllStay
  <2>2. {m} \subseteq Memory
    OBVIOUS
  <2> DEFINE M == {m}
  <2> HIDE DEF M
  <2>3. Totals(Totals(H) \cup M) = Totals(H \cup M) /\ Totals(Totals(L) \cup M) = Totals(L \cup M)
    BY <1>1, <2>2, TotalsOfTotals DEF M
  <2>4. Totals(H \cup M) = Totals(L \cup M)
    BY <2>1, <2>3
  <2> QED BY <2>4 DEF M
<1> HIDE DEF H2, L2
<1>6. HeldView(H2, L2)
  BY <1>2, <1>3, <1>4, <1>5 DEF HeldView, BestStay, AllStay
<1> QED BY <1>6 DEF H2, L2

(* What stays of a side of a merge stays of the merge. *)
LEMMA SideStays ==
    ASSUME NEW X, X \subseteq Memory, IsFiniteSet(X), NEW K, IsCut(K, Confident(Totals(X))),
           NEW L, Within(X, L), L \subseteq Memory,
           NEW f, NEW c \in Nat, Best(L, f, c), c >= MinConfidence, Stays(X, f, c)
    PROVE  Stays(K, f, c)
<1> DEFINE T == Totals(X)
           C == Crowd(K, f, c)
<1>1. /\ K \subseteq T /\ K \subseteq Memory /\ IsFiniteSet(K) /\ Cardinality(K) \in Nat
      /\ \A n \in K : n.confidence \in Nat
      /\ \A d, e \in K : d.fact = e.fact => d = e
      /\ \A e \in T \ K, n \in K : e.confidence >= MinConfidence => e.confidence <= n.confidence
      /\ \A e \in T \ K : e.confidence >= MinConfidence => Cardinality(K) = Budget
  BY CutParts
<1>2. ASSUME NEW e \in T, e.fact = f
      PROVE  e.confidence \in Nat /\ e.confidence <= c
  <2>1. e \in Memory /\ \E m \in X : m.fact = f /\ m.confidence = e.confidence
    BY <1>2, TotalFields
  <2>2. PICK l \in L : l.fact = f /\ e.confidence <= l.confidence
    BY <2>1 DEF Within
  <2>3. l.confidence <= c /\ l.confidence \in Nat /\ e.confidence \in Nat
    BY <2>1, <2>2, MemoryParts DEF Best
  <2> QED BY <2>2, <2>3
<1>3. ASSUME Cardinality(K) = Budget, \A n \in K : n.confidence >= c,
             \A n \in K : n.fact # f
      PROVE  Stays(K, f, c)
  <2>1. C = {n.fact : n \in K}
    BY <1>3 DEF Crowd
  <2>2. Cardinality(C) = Cardinality(K)
    <3> HIDE DEF C
    <3> QED BY <1>1, <2>1, FactsApart
  <2>3. Budget # NoBudget /\ Budget <= Cardinality(C)
    <3> HIDE DEF C
    <3> QED BY <1>1, <1>3, <2>2, ContextMemoryAssumption
  <2> QED BY <2>3 DEF Stays, Crowded
<1>4. ASSUME NEW n \in K, n.fact = f, n.confidence >= c
      PROVE  Stays(K, f, c)
  <2>1. n.confidence = c
    BY <1>1, <1>2, <1>4
  <2> QED BY <1>4, <2>1 DEF Stays
<1>5. CASE \E m \in X : m.fact = f /\ m.confidence = c
  <2>1. PICK m \in X : m.fact = f /\ m.confidence = c
    BY <1>5
  <2>2. PICK e \in T : e.fact = f
    BY <2>1, TotalExists
  <2>3. m.confidence <= e.confidence
    BY <2>1, <2>2, TotalFields
  <2>4. e.confidence = c
    BY <1>2, <2>1, <2>2, <2>3
  <2>5. CASE e \in K
    BY <2>2, <2>4, <2>5 DEF Stays
  <2>6. CASE e \notin K
    <3>1. Cardinality(K) = Budget /\ \A n \in K : n.confidence >= c
      BY <1>1, <2>4, <2>6
    <3>2. \A n \in K : n.fact # f
      BY <2>2, <2>6, <1>1, OneTotal
    <3> QED BY <1>3, <3>1, <3>2
  <2> QED BY <2>5, <2>6
<1>6. CASE Crowded(X, f, c)
  <2>1. Cardinality(K) = Budget /\ \A n \in K : n.confidence >= c
    BY <1>6, CrowdFills
  <2> QED BY <1>3, <1>4, <2>1
<1> QED BY <1>5, <1>6 DEF Stays

LEMMA MergeKeeps ==
    ASSUME NEW H, NEW L, HeldView(H, L), NEW G, NEW M, HeldView(G, M),
           NEW K, IsCut(K, Confident(Totals(H \cup G)))
    PROVE  HeldView(K, L \cup M)
<1> DEFINE X == H \cup G
           N == L \cup M
<1>1. /\ H \subseteq Memory /\ IsFiniteSet(H) /\ L \subseteq Memory /\ IsFiniteSet(L)
      /\ Within(H, L) /\ BestStay(H, L) /\ AllStay(H, L)
      /\ G \subseteq Memory /\ IsFiniteSet(G) /\ M \subseteq Memory /\ IsFiniteSet(M)
      /\ Within(G, M) /\ BestStay(G, M) /\ AllStay(G, M)
  BY DEF HeldView
<1>2. X \subseteq Memory /\ IsFiniteSet(X) /\ N \subseteq Memory /\ IsFiniteSet(N)
      /\ H \subseteq X /\ G \subseteq X
  BY <1>1, FS_Union
<1>3. Within(X, N)
  BY <1>1 DEF Within
<1>4. IsCut(K, Confident(Totals(X)))
  OBVIOUS
<1> HIDE DEF X
<1>5. K \subseteq Totals(X) /\ K \subseteq Memory /\ IsFiniteSet(K)
  BY <1>2, <1>4, CutParts
<1>6. ASSUME NEW f \in Fact, NEW c \in Nat, Best(N, f, c), c >= MinConfidence
      PROVE  Stays(K, f, c)
  <2>1. Best(L, f, c) \/ Best(M, f, c)
    BY <1>6 DEF Best
  <2>2. Stays(H, f, c) \/ Stays(G, f, c)
    BY <1>1, <1>6, <2>1 DEF BestStay
  <2>3. Stays(X, f, c)
    <3>1. (\E m \in X : m.fact = f /\ m.confidence = c) \/ Crowded(H, f, c) \/ Crowded(G, f, c)
      BY <1>2, <2>2 DEF Stays
    <3>2. Crowded(H, f, c) \/ Crowded(G, f, c) => Crowded(X, f, c)
      BY <1>2, CrowdGrows
    <3> QED BY <3>1, <3>2 DEF Stays
  <2> HIDE DEF N
  <2> QED BY <1>2, <1>3, <1>4, <1>6, <2>3, SideStays
<1>7. Within(K, N)
  <2> SUFFICES ASSUME NEW e \in K
               PROVE  \E l \in N : l.fact = e.fact /\ e.confidence <= l.confidence
    BY DEF Within
  <2>1. PICK m \in X : m.fact = e.fact /\ m.confidence = e.confidence
    BY <1>2, <1>5, TotalFields
  <2>2. \E l \in N : l.fact = m.fact /\ m.confidence <= l.confidence
    BY <1>3 DEF Within
  <2> QED BY <2>1, <2>2
<1>8. ASSUME Budget = NoBudget, MinConfidence = 0
      PROVE  Totals(K) = Totals(N)
  <2>1. Totals(H) = Totals(L) /\ Totals(G) = Totals(M)
    BY <1>1, <1>8 DEF AllStay
  <2>2. Totals(X) = Totals(N)
    <3>1. Totals(Totals(H) \cup G) = Totals(H \cup G)
      BY <1>1, TotalsOfTotals
    <3>2. Totals(Totals(L) \cup G) = Totals(L \cup G)
      BY <1>1, TotalsOfTotals
    <3>3. Totals(Totals(G) \cup L) = Totals(G \cup L)
      BY <1>1, TotalsOfTotals
    <3>4. Totals(Totals(M) \cup L) = Totals(M \cup L)
      BY <1>1, TotalsOfTotals
    <3>5. L \cup G = G \cup L /\ M \cup L = N
      OBVIOUS
    <3>6. Totals(H \cup G) = Totals(N)
      BY <2>1, <3>1, <3>2, <3>3, <3>4, <3>5
    <3> QED BY <3>6 DEF X
  <2>3. K = Totals(X)
    <3>1. \A e \in Totals(X) : e.confidence >= MinConfidence
      <4>1. \A e \in Totals(X) : e.confidence \in Nat
        BY MemoryParts DEF Totals
      <4> QED BY <1>8, <4>1
    <3>2. Confident(Totals(X)) = Totals(X)
      BY <3>1 DEF Confident
    <3> QED BY <1>4, <1>8, <3>2 DEF IsCut
  <2>4. Totals(Totals(X) \cup {}) = Totals(X \cup {})
    BY <1>2, TotalsOfTotals
  <2>5. Totals(X) \cup {} = Totals(X) /\ X \cup {} = X
    OBVIOUS
  <2>6. Totals(Totals(X)) = Totals(X)
    BY <2>4, <2>5
  <2> QED BY <2>2, <2>3, <2>6
<1> HIDE DEF N
<1>9. HeldView(K, N)
  BY <1>2, <1>5, <1>6, <1>7, <1>8 DEF HeldView, BestStay, AllStay
<1> QED BY <1>9 DEF N

(* The view of a list of memories, against all of its history *)
IsBestView(view, L) ==
    LET all == {m \in JoinAll(L) : m.confidence >= MinConfidence}
        missing == {m \in all : \A n \in view : n.fact # m.fact}
    IN /\ \A n \in view : \E m \in all : n.fact = m.fact /\ n.confidence = m.confidence
       /\ \A m \in missing : \A n \in view : n.confidence >= m.confidence
       /\ missing # {} => Cardinality(view) = Budget
       /\ Budget = NoBudget /\ MinConfidence = 0 => view = all

LEMMA ViewIsBest ==
    ASSUME NEW H, NEW L, HeldView(H, L), NEW K, IsCut(K, Confident(Totals(H)))
    PROVE  IsBestView(K, L)
<1>1. /\ H \subseteq Memory /\ IsFiniteSet(H) /\ L \subseteq Memory /\ IsFiniteSet(L)
      /\ Within(H, L) /\ BestStay(H, L) /\ AllStay(H, L)
  BY DEF HeldView
<1>2. /\ K \subseteq Totals(H) /\ K \subseteq Memory
      /\ \A n \in K : n.confidence \in Nat /\ n.confidence >= MinConfidence
      /\ \A e \in Totals(H) \ K, n \in K :
                e.confidence >= MinConfidence => e.confidence <= n.confidence
      /\ \A e \in Totals(H) \ K :
                e.confidence >= MinConfidence => Cardinality(K) = Budget
  BY <1>1, CutParts
<1> DEFINE all == Confident(Totals(L))
           missing == {m \in all : \A n \in K : n.fact # m.fact}
<1>3. {m \in JoinAll(L) : m.confidence >= MinConfidence} = all
  BY <1>1, JoinAllTotals DEF Confident
<1>4. ASSUME NEW m \in all
      PROVE  /\ m \in Memory /\ m.fact \in Fact /\ m.confidence \in Nat
             /\ m.confidence >= MinConfidence /\ Best(L, m.fact, m.confidence)
             /\ Stays(H, m.fact, m.confidence)
  <2>1. m \in Totals(L) /\ m.confidence >= MinConfidence
    BY DEF Confident
  <2>2. m \in Memory /\ Best(L, m.fact, m.confidence)
    BY <1>1, <2>1, TotalFields DEF Best
  <2>3. m.fact \in Fact /\ m.confidence \in Nat
    BY <2>2, MemoryParts
  <2> QED BY <1>1, <2>1, <2>2, <2>3 DEF BestStay
<1> HIDE DEF all
<1>5. ASSUME NEW n \in K
      PROVE  \E m \in all : n.fact = m.fact /\ n.confidence = m.confidence
  <2>1. PICK h \in H : h.fact = n.fact /\ h.confidence = n.confidence
    BY <1>1, <1>2, TotalFields
  <2>2. PICK l \in L : l.fact = n.fact /\ n.confidence <= l.confidence
    BY <1>1, <2>1 DEF Within
  <2>3. PICK m \in Totals(L) : m.fact = l.fact
    BY <1>1, TotalExists
  <2>4. l.confidence <= m.confidence /\ m \in Memory
    BY <1>1, <2>3, TotalFields
  <2>5. l.confidence \in Nat /\ m.confidence \in Nat /\ n.confidence \in Nat
        /\ n.confidence >= MinConfidence /\ MinConfidence \in Nat
    BY <1>1, <1>2, <2>4, MemoryParts, ContextMemoryAssumption
  <2>6. n.confidence <= m.confidence /\ m.confidence >= MinConfidence
    BY <2>2, <2>4, <2>5
  <2>7. m \in all
    BY <2>3, <2>6 DEF all, Confident
  <2>8. CASE \E x \in H : x.fact = m.fact /\ x.confidence = m.confidence
    <3>1. m.confidence <= n.confidence
      BY <1>1, <1>2, <2>2, <2>3, <2>8, TotalFields
    <3> QED BY <2>2, <2>3, <2>5, <2>6, <2>7, <3>1
  <2>9. CASE Crowded(H, m.fact, m.confidence)
    <3>1. n.confidence >= m.confidence
      BY <1>1, <2>5, <2>6, <2>9, CrowdFills
    <3> QED BY <2>2, <2>3, <2>5, <2>6, <2>7, <3>1
  <2> QED BY <1>4, <2>7, <2>8, <2>9 DEF Stays
<1>6. ASSUME NEW m \in missing
      PROVE  Cardinality(K) = Budget /\ \A n \in K : n.confidence >= m.confidence
  <2>1. m \in all /\ \A n \in K : n.fact # m.fact
    OBVIOUS
  <2>2. m.confidence \in Nat /\ m.confidence >= MinConfidence /\ Stays(H, m.fact, m.confidence)
        /\ MinConfidence \in Nat
    BY <1>4, <2>1, ContextMemoryAssumption
  <2>3. CASE \E x \in H : x.fact = m.fact /\ x.confidence = m.confidence
    <3>1. PICK x \in H : x.fact = m.fact /\ x.confidence = m.confidence
      BY <2>3
    <3>2. PICK e \in Totals(H) : e.fact = x.fact
      BY <1>1, TotalExists
    <3>3. x.confidence <= e.confidence /\ e \in Memory
      BY <1>1, <3>2, TotalFields
    <3>4. e.confidence \in Nat
      BY <3>3, MemoryParts
    <3>5. e.confidence >= MinConfidence /\ e.confidence >= m.confidence
      BY <2>2, <3>1, <3>3, <3>4
    <3>6. e \notin K
      BY <2>1, <3>1, <3>2
    <3>7. Cardinality(K) = Budget /\ \A n \in K : e.confidence <= n.confidence
      BY <1>2, <3>2, <3>5, <3>6
    <3>8. \A n \in K : n.confidence >= m.confidence
      BY <1>2, <2>2, <3>4, <3>5, <3>7
    <3> QED BY <3>7, <3>8
  <2>4. CASE Crowded(H, m.fact, m.confidence)
    BY <1>1, <2>2, <2>4, CrowdFills
  <2> QED BY <2>2, <2>3, <2>4 DEF Stays
<1>7. ASSUME Budget = NoBudget, MinConfidence = 0
      PROVE  K = all
  BY <1>1, <1>7 DEF AllStay, IsCut, all
<1>8. {m \in JoinAll(L) : m.confidence >= MinConfidence} = all
  BY <1>3
<1> QED BY <1>5, <1>6, <1>7, <1>8 DEF IsBestView

-----------------------------------------------------------------------------
(* Contexts: blocks *)

(* Blocks of B cover N places. *)
LEMMA BlocksCover ==
    ASSUME NEW B \in Nat, B > 0, NEW N \in Nat
    PROVE  /\ (N + B - 1) \div B \in Nat
           /\ ((N + B - 1) \div B) * B >= N
           /\ \A n \in Nat : n < (N + B - 1) \div B => n * B < N
<1> DEFINE q == (N + B - 1) \div B
<1>1. q \in Int /\ B * q <= N + B - 1 /\ N + B - 1 < B * q + B
  OBVIOUS
<1> QED BY <1>1

(* The place that block n ends at, and the one that holds place i *)
BlockEnd(n, N) == IF n * BlockSize < N THEN n * BlockSize ELSE N

Blocks(N) == (N + BlockSize - 1) \div BlockSize

LEMMA BlockEnds ==
    ASSUME NEW N \in Nat
    PROVE  /\ Blocks(N) \in Nat /\ BlockEnd(0, N) = 0 /\ BlockEnd(Blocks(N), N) = N
           /\ \A n \in 1 .. Blocks(N) :
                /\ BlockEnd(n - 1, N) = (n - 1) * BlockSize
                /\ BlockEnd(n, N) \in Nat /\ BlockEnd(n, N) <= N
                /\ BlockEnd(n - 1, N) < BlockEnd(n, N)
<1> DEFINE B == BlockSize
           Q == Blocks(N)
<1>1. B \in Nat /\ B > 0
  BY ContextMemoryAssumption
<1>2. Q \in Nat /\ Q * B >= N /\ \A n \in Nat : n < Q => n * B < N
  BY <1>1, BlocksCover DEF Blocks
<1>3. BlockEnd(0, N) = 0 /\ BlockEnd(Q, N) = N
  BY <1>1, <1>2 DEF BlockEnd
<1>4. ASSUME NEW n \in 1 .. Q
      PROVE  /\ BlockEnd(n - 1, N) = (n - 1) * B
             /\ BlockEnd(n, N) \in Nat /\ BlockEnd(n, N) <= N
             /\ BlockEnd(n - 1, N) < BlockEnd(n, N)
  <2> HIDE DEF Q
  <2>1. n \in Nat /\ n - 1 \in Nat /\ n - 1 < Q
    BY <1>2
  <2>2. (n - 1) * B < N
    BY <1>2, <2>1
  <2>3. (n - 1) * B \in Nat /\ n * B \in Nat /\ n * B = (n - 1) * B + B
    BY <1>1, <2>1
  <2> QED BY <1>1, <2>2, <2>3 DEF BlockEnd
<1> QED BY <1>2, <1>3, <1>4

(* Every place is in a block. *)
LEMMA PlaceInBlock ==
    ASSUME NEW N \in Nat, NEW i \in 1 .. N
    PROVE  \E n \in 1 .. Blocks(N) : BlockEnd(n - 1, N) < i /\ i <= BlockEnd(n, N)
<1> DEFINE Q == Blocks(N)
           Over == {n \in Nat : i <= BlockEnd(n, N)}
<1>1. /\ Q \in Nat /\ BlockEnd(0, N) = 0 /\ BlockEnd(Q, N) = N
      /\ \A n \in 1 .. Q : BlockEnd(n - 1, N) \in Nat
  <2>1. \A n \in 1 .. Q : BlockEnd(n - 1, N) = (n - 1) * BlockSize
    BY BlockEnds
  <2>2. \A n \in 1 .. Q : (n - 1) * BlockSize \in Nat
    BY ContextMemoryAssumption, BlockEnds
  <2> QED BY <2>1, <2>2, BlockEnds
<1> HIDE DEF Q
<1>2. Q \in Over /\ Over \subseteq Nat
  BY <1>1
<1>3. PICK n \in Over : \A k \in Nat : k < n => k \notin Over
  <2> HIDE DEF Over
  <2>1. Over # {}
    BY <1>2
  <2> QED BY <1>2, <2>1, Gathering!Least
<1>4. n # 0 /\ n <= Q
  BY <1>1, <1>2, <1>3
<1>5. n \in 1 .. Q /\ n - 1 \in Nat /\ n - 1 < n
  BY <1>1, <1>4
<1>6. BlockEnd(n - 1, N) < i
  <2>1. n - 1 \notin Over
    BY <1>3, <1>5
  <2>2. ~ (i <= BlockEnd(n - 1, N)) /\ BlockEnd(n - 1, N) \in Nat
    BY <1>1, <1>5, <2>1
  <2> QED BY <2>2
<1> QED BY <1>5, <1>6 DEF Q

-----------------------------------------------------------------------------
(* Blocks *)

Block == [memories : Seq(Memory), index : SUBSET Memory]

LEMMA BlockParts ==
    ASSUME NEW x \in Seq(Block)
    PROVE  /\ Len(x) \in Nat /\ DOMAIN x = 1 .. Len(x)
           /\ \A n \in DOMAIN x : x[n].memories \in Seq(Memory)
<1>1. Len(x) \in Nat /\ DOMAIN x = 1 .. Len(x) /\ \A n \in 1 .. Len(x) : x[n] \in Block
  BY ListParts
<1> QED BY <1>1 DEF Block

InBlocks(x) == UNION {ToSet(x[n].memories) : n \in DOMAIN x}

(* What the memories of blocks add up to, block by block *)
IsRunOf(st, x) ==
    /\ st[0] = <<>> /\ st[Len(x)] = AllMemories(x)
    /\ \A n \in 1 .. Len(x) : st[n] = st[n - 1] \o x[n].memories

LEMMA MemoriesRun ==
    ASSUME NEW x \in Seq(Block)
    PROVE  \E st : IsRunOf(st, x)
<1> DEFINE n == Len(x)
<1>1. n \in Nat /\ DOMAIN x = 1 .. n
  BY BlockParts
<1>2. AllMemories(x) = Flattening!FoldOver(<<>>, x, DOMAIN x)
  BY DEF AllMemories, FoldLeft, MapThenFoldSet, Flattening!FoldOver
<1>3. PICK st : Flattening!IsRun(st, <<>>, x, n) /\ st[n] = Flattening!FoldOver(<<>>, x, 1 .. n)
  <2> HIDE DEF n
  <2> QED BY <1>1, PositionsFold, Flattening!FoldRuns
<1>4. IsRunOf(st, x)
  BY <1>1, <1>2, <1>3 DEF Flattening!IsRun, IsRunOf, AddMemories
<1> QED BY <1>4

LEMMA MemoriesTogether ==
    ASSUME NEW s \in Seq(Memory), NEW t \in Seq(Memory)
    PROVE  s \o t \in Seq(Memory) /\ ToSet(s \o t) = ToSet(s) \cup ToSet(t)
BY ToSetOfTwo, Zenon

LEMMA MemoriesOfBlocks ==
    ASSUME NEW x \in Seq(Block)
    PROVE  AllMemories(x) \in Seq(Memory) /\ ToSet(AllMemories(x)) = InBlocks(x)
<1> DEFINE n == Len(x)
           Upto(i) == UNION {ToSet(x[k].memories) : k \in 1 .. i}
<1>1. n \in Nat /\ DOMAIN x = 1 .. n /\ \A i \in 1 .. n : x[i].memories \in Seq(Memory)
  BY BlockParts
<1>2. PICK st : IsRunOf(st, x)
  BY MemoriesRun
<1>3. st[0] = <<>> /\ st[n] = AllMemories(x) /\ \A i \in 1 .. n : st[i] = st[i - 1] \o x[i].memories
  BY <1>2 DEF IsRunOf
<1> DEFINE Bad == {i \in 0 .. n : ~ (st[i] \in Seq(Memory) /\ ToSet(st[i]) = Upto(i))}
<1>4. ASSUME NEW i \in Bad, \A j \in 0 .. n : j < i => j \notin Bad
      PROVE  FALSE
  <2>1. CASE i = 0
    <3>1. Upto(0) = {} /\ <<>> \in Seq(Memory) /\ ToSet(<<>>) = {}
      BY EmptySeq DEF ToSet
    <3> QED BY <1>3, <2>1, <3>1
  <2>2. CASE i # 0
    <3>1. i \in 1 .. n /\ i - 1 \in 0 .. n /\ i - 1 < i
      BY <1>1, <2>2
    <3>2. st[i - 1] \in Seq(Memory) /\ ToSet(st[i - 1]) = Upto(i - 1)
      BY <1>4, <3>1
    <3>3. Upto(i) = Upto(i - 1) \cup ToSet(x[i].memories)
      <4>1. \A k \in 1 .. i : k \in 1 .. i - 1 \/ k = i
        BY <3>1
      <4>2. i \in 1 .. i /\ \A k \in 1 .. i - 1 : k \in 1 .. i
        BY <3>1
      <4> QED BY <4>1, <4>2
    <3> DEFINE p == st[i - 1]
               m == x[i].memories
               U == Upto(i - 1)
               V == Upto(i)
    <3>4. p \in Seq(Memory) /\ m \in Seq(Memory) /\ st[i] = p \o m /\ ToSet(p) = U /\ V = U \cup ToSet(m)
          /\ ~ (st[i] \in Seq(Memory) /\ ToSet(st[i]) = V)
      BY <1>1, <1>3, <3>1, <3>2, <3>3
    <3> HIDE DEF p, m, U, V
    <3>5. p \o m \in Seq(Memory) /\ ToSet(p \o m) = ToSet(p) \cup ToSet(m)
      BY <3>4, MemoriesTogether, Zenon
    <3> QED BY <3>4, <3>5, Zenon
  <2> QED BY <2>1, <2>2
<1>5. Bad = {}
  <2>1. Bad \subseteq 0 .. n /\ n \in Nat
    BY <1>1
  <2> HIDE DEF Bad, n
  <2> QED BY <1>4, <2>1, FirstFails
<1>6. n \in 0 .. n
  BY <1>1
<1> QED BY <1>1, <1>3, <1>5, <1>6 DEF InBlocks

Part(list, n) ==
    SubSeq(list, (n - 1) * BlockSize + 1,
           IF n * BlockSize < Len(list) THEN n * BlockSize ELSE Len(list))

(* Place i of part n is place BlockEnd(n - 1) + i of the list. *)
LEMMA PartIs ==
    ASSUME NEW list \in Seq(Memory), NEW n \in 1 .. Blocks(Len(list))
    PROVE  LET from == BlockEnd(n - 1, Len(list))
               size == BlockEnd(n, Len(list)) - from
           IN /\ Part(list, n) \in Seq(Memory) /\ Len(Part(list, n)) = size
              /\ size \in Nat /\ from \in Nat /\ DOMAIN Part(list, n) = 1 .. size
              /\ \A i \in 1 .. size : from + i \in DOMAIN list /\ Part(list, n)[i] = list[from + i]
<1> DEFINE N == Len(list)
           from == BlockEnd(n - 1, N)
           end == BlockEnd(n, N)
           p == Part(list, n)
<1>1. N \in Nat /\ DOMAIN list = 1 .. N /\ \A i \in 1 .. N : list[i] \in Memory
  BY ListParts
<1>2. from = (n - 1) * BlockSize /\ end \in Nat /\ end <= N /\ from < end
  BY <1>1, BlockEnds
<1>3. from \in Nat
  <2>1. Blocks(N) \in Nat
    BY <1>1, BlockEnds
  <2>2. n - 1 \in Nat /\ BlockSize \in Nat
    BY <2>1, ContextMemoryAssumption
  <2>3. (n - 1) * BlockSize \in Nat
    BY <2>2
  <2> HIDE DEF from
  <2> QED BY <1>2, <2>3
<1>4. p = SubSeq(list, from + 1, end)
  BY <1>2 DEF Part, BlockEnd
<1> HIDE DEF N, from, end, p
<1>5. \A i \in from + 1 .. end : list[i] \in Memory
  BY <1>1, <1>2, <1>3
<1>6. /\ p \in Seq(Memory) /\ Len(p) = end - from
      /\ \A i \in 1 .. end - from : p[i] = list[from + i]
  <2> DEFINE low == from + 1
  <2>1. low \in Int /\ end \in Int /\ low <= end /\ low = from + 1
    BY <1>2, <1>3
  <2>2. \A i \in low .. end : list[i] \in Memory
    BY <1>5
  <2>3. p = SubSeq(list, low, end)
    BY <1>4
  <2> HIDE DEF low
  <2>4. /\ p \in Seq(Memory) /\ Len(p) = end - low + 1
        /\ \A i \in 1 .. end - low + 1 : p[i] = list[low + i - 1]
    BY <2>1, <2>2, <2>3, SubSeqProperties
  <2>5. end - low + 1 = end - from /\ \A i \in 1 .. end - from : low + i - 1 = from + i
    BY <1>2, <1>3, <2>1
  <2> QED BY <2>4, <2>5
<1>7. \A i \in 1 .. end - from : from + i \in DOMAIN list
  BY <1>1, <1>2, <1>3
<1>8. end - from \in Nat /\ DOMAIN p = 1 .. end - from
  BY <1>2, <1>3, <1>6, LenProperties
<1> QED BY <1>3, <1>6, <1>7, <1>8 DEF N, from, end, p

LEMMA ConsolidateParts ==
    ASSUME NEW list \in Seq(Memory), NEW x, x = Consolidate(list)
    PROVE  /\ x \in Seq(Block) /\ Len(x) = Blocks(Len(list))
           /\ \A n \in DOMAIN x : /\ x[n].memories = Part(list, n)
                                  /\ x[n].index = ToSet(Gather(Part(list, n)))
<1> DEFINE Q == Blocks(Len(list))
           block(n) == [memories |-> Part(list, n), index |-> ToSet(Gather(Part(list, n)))]
<1>1. Len(list) \in Nat /\ Q \in Nat
  BY ListParts, BlockEnds
<1>2. x = [n \in 1 .. Q |-> block(n)]
  BY DEF Consolidate, Part, Blocks
<1>3. \A n \in 1 .. Q : Part(list, n) \in Seq(Memory)
  BY PartIs
<1>4. \A n \in 1 .. Q : block(n) \in Block
  <2> TAKE n \in 1 .. Q
  <2> DEFINE p == Part(list, n)
  <2>1. p \in Seq(Memory)
    BY <1>3
  <2> HIDE DEF p
  <2>2. ToSet(p) \subseteq Memory
    BY <2>1, ListParts
  <2>3. ToSet(Gather(p)) \subseteq Memory
    <3>1. IsGathered(Gather(p), ToSet(p))
      BY <2>1, GatheredAll
    <3>2. ToSet(Gather(p)) = Totals(ToSet(p))
      BY <2>2, <3>1, GatheredTotals
    <3> QED BY <3>2 DEF Totals
  <2>4. [memories |-> p, index |-> ToSet(Gather(p))] \in Block
    BY <2>1, <2>3 DEF Block
  <2> QED BY <2>4 DEF p
<1>5. \A n \in 1 .. Q : x[n].memories = Part(list, n) /\ x[n].index = ToSet(Gather(Part(list, n)))
  BY <1>2
<1>6. x \in [1 .. Q -> Block] /\ DOMAIN x = 1 .. Q
  <2> HIDE DEF block
  <2> QED BY <1>2, <1>4
<1> HIDE DEF Q
<1>7. x \in Seq(Block)
  BY <1>1, <1>6, SeqDef
<1>8. Len(x) = Q
  BY <1>1, <1>6, <1>7, LenProperties
<1> QED BY <1>5, <1>6, <1>7, <1>8 DEF Q

LEMMA PartHolds ==
    ASSUME NEW list \in Seq(Memory), NEW n \in 1 .. Blocks(Len(list))
    PROVE  /\ Part(list, n) \in Seq(Memory) /\ ToSet(Part(list, n)) \subseteq ToSet(list)
           /\ Apart(list) => Apart(Part(list, n))
           /\ \A i \in DOMAIN list :
                BlockEnd(n - 1, Len(list)) < i /\ i <= BlockEnd(n, Len(list))
                  => list[i] \in ToSet(Part(list, n))
<1> DEFINE p == Part(list, n)
           from == BlockEnd(n - 1, Len(list))
           end == BlockEnd(n, Len(list))
<1>1. /\ p \in Seq(Memory) /\ end - from \in Nat /\ from \in Nat
      /\ DOMAIN p = 1 .. end - from
      /\ \A i \in 1 .. end - from : from + i \in DOMAIN list /\ p[i] = list[from + i]
  BY PartIs
<1>2. /\ DOMAIN list = 1 .. Len(list) /\ Len(list) \in Nat
      /\ \A i \in DOMAIN list : list[i] \in ToSet(list) /\ i \in Nat
  BY ListParts
<1>3. end \in Nat
  BY <1>2, BlockEnds
<1> HIDE DEF p, from, end
<1>4. ToSet(p) \subseteq ToSet(list)
  BY <1>1, <1>2 DEF ToSet
<1>5. ASSUME Apart(list)
      PROVE  Apart(p)
  <2> SUFFICES ASSUME NEW i \in DOMAIN p, NEW j \in DOMAIN p, p[i].fact = p[j].fact
               PROVE  i = j
    BY DEF Apart
  <2>1. from + i = from + j
    BY <1>1, <1>5 DEF Apart
  <2> QED BY <1>1, <2>1
<1>6. ASSUME NEW i \in DOMAIN list, from < i, i <= end
      PROVE  list[i] \in ToSet(p)
  <2>1. i - from \in 1 .. end - from /\ from + (i - from) = i
    BY <1>1, <1>2, <1>3, <1>6
  <2>2. p[i - from] = list[i] /\ i - from \in DOMAIN p
    BY <1>1, <2>1
  <2> QED BY <2>2 DEF ToSet
<1> QED BY <1>1, <1>4, <1>5, <1>6 DEF p, from, end

LEMMA ConsolidateHolds ==
    ASSUME NEW list \in Seq(Memory)
    PROVE  InBlocks(Consolidate(list)) = ToSet(list)
<1> DEFINE x == Consolidate(list)
           Q == Blocks(Len(list))
<1>1. /\ Len(x) = Q /\ DOMAIN x = 1 .. Len(x)
      /\ \A n \in DOMAIN x : x[n].memories = Part(list, n)
  BY ConsolidateParts, BlockParts
<1> HIDE DEF x
<1>2. DOMAIN x = 1 .. Q /\ \A n \in 1 .. Q : x[n].memories = Part(list, n)
  BY <1>1
<1>3. InBlocks(x) = UNION {ToSet(Part(list, n)) : n \in 1 .. Q}
  <2> HIDE DEF Q
  <2> QED BY <1>2 DEF InBlocks
<1>4. \A n \in 1 .. Q : ToSet(Part(list, n)) \subseteq ToSet(list)
  BY PartHolds
<1>5. ASSUME NEW m \in ToSet(list)
      PROVE  \E n \in 1 .. Q : m \in ToSet(Part(list, n))
  <2>1. Len(list) \in Nat /\ DOMAIN list = 1 .. Len(list)
    BY ListParts
  <2>2. PICK i \in DOMAIN list : m = list[i]
    BY DEF ToSet
  <2>3. PICK n \in 1 .. Q : BlockEnd(n - 1, Len(list)) < i /\ i <= BlockEnd(n, Len(list))
    BY <2>1, PlaceInBlock
  <2>4. list[i] \in ToSet(Part(list, n))
    BY <2>3, PartHolds
  <2> QED BY <2>2, <2>4
<1> HIDE DEF Q
<1>6. InBlocks(x) = ToSet(list)
  BY <1>3, <1>4, <1>5
<1> QED BY <1>6 DEF x

LEMMA ConsolidateLength ==
    ASSUME NEW list \in Seq(Memory)
    PROVE  Len(AllMemories(Consolidate(list))) = Len(list)
<1> DEFINE x == Consolidate(list)
           N == Len(list)
           Q == Blocks(N)
<1>1. /\ x \in Seq(Block) /\ Len(x) = Q /\ DOMAIN x = 1 .. Len(x)
      /\ \A n \in DOMAIN x : x[n].memories = Part(list, n)
  BY ConsolidateParts, BlockParts
<1>2. N \in Nat
  BY ListParts
<1>3. /\ Q \in Nat /\ BlockEnd(0, N) = 0 /\ BlockEnd(Q, N) = N
      /\ \A n \in 1 .. Q : BlockEnd(n, N) \in Nat
  BY <1>2, BlockEnds
<1>4. ASSUME NEW n \in 1 .. Q
      PROVE  /\ x[n].memories \in Seq(Memory) /\ BlockEnd(n - 1, N) \in Nat
             /\ Len(x[n].memories) = BlockEnd(n, N) - BlockEnd(n - 1, N)
  <2>1. x[n].memories = Part(list, n)
    BY <1>1
  <2> QED BY <2>1, PartIs
<1> HIDE DEF x
<1>5. PICK st : IsRunOf(st, x)
  BY <1>1, MemoriesRun
<1>6. /\ st[0] = <<>> /\ st[Q] = AllMemories(x)
      /\ \A n \in 1 .. Q : st[n] = st[n - 1] \o x[n].memories
  BY <1>1, <1>5 DEF IsRunOf
<1> DEFINE Bad == {i \in 0 .. Q : ~ (st[i] \in Seq(Memory) /\ Len(st[i]) = BlockEnd(i, N))}
<1> HIDE DEF Q, N
<1>7. ASSUME NEW i \in Bad, \A j \in 0 .. Q : j < i => j \notin Bad
      PROVE  FALSE
  <2>1. CASE i = 0
    <3>1. <<>> \in Seq(Memory) /\ Len(<<>>) = 0
      BY EmptySeq
    <3> QED BY <1>3, <1>6, <2>1, <3>1
  <2>2. CASE i # 0
    <3>1. i \in 1 .. Q /\ i - 1 \in 0 .. Q /\ i - 1 < i
      BY <1>3, <2>2
    <3> DEFINE p == st[i - 1]
               m == x[i].memories
    <3>2. p \in Seq(Memory) /\ Len(p) = BlockEnd(i - 1, N)
      BY <1>7, <3>1
    <3>3. m \in Seq(Memory) /\ Len(m) = BlockEnd(i, N) - BlockEnd(i - 1, N)
          /\ BlockEnd(i - 1, N) \in Nat /\ BlockEnd(i, N) \in Nat /\ st[i] = p \o m
      BY <1>3, <1>4, <1>6, <3>1
    <3>4. ~ (st[i] \in Seq(Memory) /\ Len(st[i]) = BlockEnd(i, N))
      OBVIOUS
    <3> HIDE DEF p, m, Bad
    <3>5. p \o m \in Seq(Memory) /\ Len(p \o m) = Len(p) + Len(m)
      BY <3>2, <3>3, ConcatProperties
    <3> QED BY <3>2, <3>3, <3>4, <3>5
  <2> QED BY <2>1, <2>2
<1>8. Bad = {}
  <2>1. Bad \subseteq 0 .. Q /\ Q \in Nat
    BY <1>3
  <2> HIDE DEF Bad
  <2> QED BY <1>7, <2>1, FirstFails
<1>9. Q \in 0 .. Q
  BY <1>3
<1> QED BY <1>3, <1>6, <1>8, <1>9 DEF x, N

LEMMA BlocksTogether ==
    ASSUME NEW x \in Seq(Block), NEW y \in Seq(Block)
    PROVE  x \o y \in Seq(Block) /\ InBlocks(x \o y) = InBlocks(x) \cup InBlocks(y)
<1> DEFINE u == x \o y
<1>1. u \in Seq(Block) /\ ToSet(u) = ToSet(x) \cup ToSet(y)
  BY ToSetOfTwo, Zenon
<1>2. \A z : InBlocks(z) = UNION {ToSet(b.memories) : b \in ToSet(z)}
  BY DEF InBlocks, ToSet
<1> HIDE DEF u
<1>3. InBlocks(u) = InBlocks(x) \cup InBlocks(y)
  BY <1>1, <1>2
<1> QED BY <1>1, <1>3 DEF u

-----------------------------------------------------------------------------
(* Contexts: archives *)

LEMMA ApartTotals ==
    ASSUME NEW p \in Seq(Memory), Apart(p)
    PROVE  Totals(ToSet(p)) = ToSet(p) /\ ToSet(Gather(p)) = ToSet(p)
<1> DEFINE M == ToSet(p)
<1>1. /\ DOMAIN p = 1 .. Len(p) /\ \A i \in DOMAIN p : p[i] \in Memory /\ p[i] \in M
      /\ \A m \in M : \E i \in DOMAIN p : p[i] = m
      /\ M \subseteq Memory
  BY ListParts
<1> HIDE DEF M
<1>2. ASSUME NEW i \in DOMAIN p
      PROVE  IsTotal(p[i], M)
  <2>1. OfFact(M, p[i].fact) = {p[i]}
    BY <1>1 DEF OfFact, Apart
  <2>2. p[i].confidence <= p[i].confidence /\ p[i].time <= p[i].time
    BY <1>1, MemoryParts
  <2> QED BY <2>1, <2>2 DEF IsTotal
<1>3. IsGathered(p, M)
  BY <1>1, <1>2 DEF IsGathered
<1>4. M = Totals(M)
  BY <1>1, <1>3, GatheredTotals DEF M
<1>5. ToSet(Gather(p)) = Totals(M)
  <2>1. IsGathered(Gather(p), M)
    BY GatheredAll DEF M
  <2> QED BY <1>1, <2>1, GatheredTotals
<1> QED BY <1>4, <1>5 DEF M

(* An archive is the blocks of a list that has each fact once. *)
ArchiveView(A, S) ==
    /\ S \subseteq Memory /\ IsFiniteSet(S)
    /\ \E list \in Seq(Memory) :
         A = Consolidate(list) /\ Apart(list) /\ ToSet(list) = Totals(S)

LEMMA NothingStored == ArchiveView(<<>>, {})
<1>1. <<>> \in Seq(Memory) /\ Len(<<>>) = 0 /\ ToSet(<<>>) = {} /\ Apart(<<>>)
  BY EmptySeq DEF ToSet, Apart
<1> DEFINE x == Consolidate(<<>>)
<1>2. x \in Seq(Block) /\ Len(x) = Blocks(0)
  BY <1>1, ConsolidateParts
<1>3. Blocks(0) = 0
  BY ContextMemoryAssumption, BlocksCover DEF Blocks
<1>4. <<>> = x
  <2> HIDE DEF x
  <2> QED BY <1>2, <1>3, EmptySeq
<1>5. Totals({}) = {}
  BY DEF Totals, IsTotal, OfFact
<1>6. IsFiniteSet({})
  BY FS_EmptySet
<1> QED BY <1>1, <1>4, <1>5, <1>6 DEF ArchiveView

LEMMA ArchiveParts ==
    ASSUME NEW A, NEW S, ArchiveView(A, S)
    PROVE  /\ A \in Seq(Block) /\ InBlocks(A) = Totals(S)
           /\ S \subseteq Memory /\ IsFiniteSet(S)
<1>1. PICK list \in Seq(Memory) : A = Consolidate(list) /\ ToSet(list) = Totals(S)
  BY DEF ArchiveView
<1>2. A \in Seq(Block)
  BY <1>1, ConsolidateParts
<1>3. InBlocks(A) = ToSet(list)
  BY <1>1, ConsolidateHolds
<1> QED BY <1>1, <1>2, <1>3 DEF ArchiveView

LEMMA StoreKeeps ==
    ASSUME NEW A, NEW S, ArchiveView(A, S),
           NEW y \in Seq(Block), NEW P, P \subseteq Memory, IsFiniteSet(P),
           InBlocks(y) \subseteq Memory, IsFiniteSet(InBlocks(y)), Totals(InBlocks(y)) = Totals(P)
    PROVE  ArchiveView(MergeBlocks(A, y, {}), S \cup P)
<1> DEFINE list == AllMemories(A \o y)
           new == Gather(At(list, {i \in DOMAIN list : list[i].fact \notin {}}))
           M == InBlocks(A) \cup InBlocks(y)
<1>1. A \in Seq(Block) /\ InBlocks(A) = Totals(S) /\ S \subseteq Memory /\ IsFiniteSet(S)
  BY ArchiveParts
<1>2. A \o y \in Seq(Block) /\ InBlocks(A \o y) = M
  BY <1>1, BlocksTogether
<1>3. list \in Seq(Memory) /\ ToSet(list) = M
  <2> DEFINE x == A \o y
  <2>1. x \in Seq(Block) /\ InBlocks(x) = M
    BY <1>2
  <2> HIDE DEF x, M
  <2>2. AllMemories(x) \in Seq(Memory) /\ ToSet(AllMemories(x)) = M
    BY <2>1, MemoriesOfBlocks
  <2> QED BY <2>2 DEF x
<1> HIDE DEF list
<1>4. {i \in DOMAIN list : list[i].fact \notin {}} = DOMAIN list
  OBVIOUS
<1>5. At(list, DOMAIN list) \in Seq(Memory) /\ ToSet(At(list, DOMAIN list)) = M
  <2>1. /\ At(list, DOMAIN list) \in Seq(Memory)
        /\ ToSet(At(list, DOMAIN list)) = {list[i] : i \in DOMAIN list}
    BY <1>3, AtPlaces
  <2> QED BY <1>3, <2>1 DEF ToSet
<1>6. IsGathered(new, M)
  <2>1. new = Gather(At(list, DOMAIN list))
    BY <1>4
  <2> HIDE DEF new, M
  <2> QED BY <1>5, <2>1, GatheredAll
<1>7. M \subseteq Memory
  BY <1>1 DEF Totals
<1>8. MergeBlocks(A, y, {}) = Consolidate(new)
  BY DEF MergeBlocks, list
<1> HIDE DEF new, M
<1>9. new \in Seq(Memory) /\ Apart(new) /\ ToSet(new) = Totals(M)
  BY <1>6, <1>7, GatheredTotals DEF IsGathered
<1>10. Totals(M) = Totals(S \cup P)
  <2> DEFINE Y == InBlocks(y)
  <2>1. M = Totals(S) \cup Y
    BY <1>1 DEF M
  <2>2. Y \subseteq Memory /\ IsFiniteSet(Y) /\ Totals(Y) = Totals(P)
    OBVIOUS
  <2> HIDE DEF Y
  <2>3. Totals(Totals(S) \cup Y) = Totals(S \cup Y)
    BY <1>1, <2>2, TotalsOfTotals
  <2>4. Totals(Totals(Y) \cup S) = Totals(Y \cup S)
    BY <1>1, <2>2, TotalsOfTotals
  <2>5. Totals(Totals(P) \cup S) = Totals(P \cup S)
    BY <1>1, TotalsOfTotals
  <2>6. S \cup Y = Y \cup S /\ P \cup S = S \cup P
    OBVIOUS
  <2> QED BY <2>1, <2>2, <2>3, <2>4, <2>5, <2>6
<1>11. S \cup P \subseteq Memory /\ IsFiniteSet(S \cup P)
  BY <1>1, FS_Union
<1>12. new \in Seq(Memory) /\ Apart(new) /\ ToSet(new) = Totals(S \cup P)
  BY <1>9, <1>10
<1> QED BY <1>8, <1>11, <1>12 DEF ArchiveView

IsArchive(blocks, S) ==
    /\ UNION {blocks[n].index : n \in DOMAIN blocks} = JoinAll(S)
    /\ \A n \in DOMAIN blocks : ToSet(blocks[n].memories) = blocks[n].index
    /\ Len(AllMemories(blocks)) = Cardinality(JoinAll(S))

LEMMA ApartLength ==
    ASSUME NEW list \in Seq(Memory), Apart(list)
    PROVE  Cardinality(ToSet(list)) = Len(list)
<1>1. /\ Len(list) \in Nat /\ DOMAIN list = 1 .. Len(list)
      /\ \A i \in 1 .. Len(list) : list[i] \in ToSet(list)
      /\ \A x \in ToSet(list) : \E i \in 1 .. Len(list) : list[i] = x
  BY ListParts
<1> DEFINE f == [i \in 1 .. Len(list) |-> list[i]]
<1>2. f \in Surjection(1 .. Len(list), ToSet(list))
  BY <1>1 DEF Surjection
<1>3. f \in Injection(1 .. Len(list), ToSet(list))
  BY <1>1 DEF Injection, IsInjective, Apart
<1>4. IsFiniteSet(1 .. Len(list)) /\ Cardinality(1 .. Len(list)) = Len(list)
  BY <1>1, FS_Interval
<1> HIDE DEF f
<1> QED BY <1>2, <1>3, <1>4, FS_Surjection

LEMMA ViewIsArchive ==
    ASSUME NEW A, NEW S, ArchiveView(A, S)
    PROVE  IsArchive(A, S)
<1>1. PICK list \in Seq(Memory) : A = Consolidate(list) /\ Apart(list) /\ ToSet(list) = Totals(S)
  BY DEF ArchiveView
<1>2. JoinAll(S) = Totals(S)
  BY JoinAllTotals DEF ArchiveView
<1>3. /\ A \in Seq(Block) /\ Len(A) = Blocks(Len(list)) /\ DOMAIN A = 1 .. Len(A)
      /\ \A n \in DOMAIN A : /\ A[n].memories = Part(list, n)
                             /\ A[n].index = ToSet(Gather(Part(list, n)))
  BY <1>1, ConsolidateParts, BlockParts
<1>4. \A n \in DOMAIN A : ToSet(A[n].memories) = A[n].index
  <2> TAKE n \in DOMAIN A
  <2>1. n \in 1 .. Blocks(Len(list))
    BY <1>3
  <2>2. Part(list, n) \in Seq(Memory) /\ Apart(Part(list, n))
    BY <1>1, <2>1, PartHolds
  <2>3. ToSet(Gather(Part(list, n))) = ToSet(Part(list, n))
    BY <2>2, ApartTotals
  <2> QED BY <1>3, <2>3
<1>5. UNION {A[n].index : n \in DOMAIN A} = InBlocks(A)
  BY <1>4 DEF InBlocks
<1>6. InBlocks(A) = Totals(S)
  BY ArchiveParts
<1>7. Len(AllMemories(A)) = Len(list)
  BY <1>1, ConsolidateLength
<1>8. Cardinality(Totals(S)) = Len(list)
  BY <1>1, ApartLength
<1> QED BY <1>2, <1>4, <1>5, <1>6, <1>7, <1>8 DEF IsArchive

-----------------------------------------------------------------------------
(* Contexts: the proof *)

(* The archive, the filter and the memories stored have an entry per agent. *)
PerThinker(f) == f = [a \in Thinker |-> f[a]]

MemoryInv ==
    /\ held \in [Thinker -> Seq(Memory)] /\ learned \in [Thinker -> SUBSET Memory]
    /\ PerThinker(archive) /\ PerThinker(bloom) /\ PerThinker(stored)
    /\ IsFiniteSet(AllLearned)
    /\ \A a \in Thinker : HeldView(ToSet(held[a]), learned[a])
    /\ ~LongLived => \A a \in Thinker : bloom[a] = {} /\ ArchiveView(archive[a], stored[a])

LEMMA MemoryStart ==
    ASSUME MemoryInit
    PROVE  MemoryInv
<1>1. <<>> \in Seq(Memory) /\ ToSet(<<>>) = {} /\ IsFiniteSet({})
  BY EmptySeq, FS_EmptySet DEF ToSet
<1>2. held \in [Thinker -> Seq(Memory)] /\ learned \in [Thinker -> SUBSET Memory]
  BY <1>1 DEF MemoryInit
<1>3. PerThinker(archive) /\ PerThinker(bloom) /\ PerThinker(stored)
  BY DEF MemoryInit, PerThinker
<1>4. AllLearned = {}
  BY DEF MemoryInit, AllLearned
<1>5. ASSUME NEW a \in Thinker
      PROVE  /\ HeldView(ToSet(held[a]), learned[a])
             /\ bloom[a] = {} /\ ArchiveView(archive[a], stored[a])
  <2>1. held[a] = <<>> /\ learned[a] = {} /\ bloom[a] = {} /\ archive[a] = <<>> /\ stored[a] = {}
    BY DEF MemoryInit
  <2> QED BY <1>1, <2>1, NothingHeld, NothingStored
<1> QED BY <1>1, <1>2, <1>3, <1>4, <1>5 DEF MemoryInv

LEMMA LearnStep ==
    ASSUME MemoryInv, NEW a \in Thinker, NEW m \in Memory, Learn(a, m)
    PROVE  MemoryInv'
<1>1. /\ held \in [Thinker -> Seq(Memory)] /\ learned \in [Thinker -> SUBSET Memory]
      /\ PerThinker(archive) /\ PerThinker(bloom) /\ PerThinker(stored)
      /\ IsFiniteSet(AllLearned)
      /\ \A b \in Thinker : HeldView(ToSet(held[b]), learned[b])
      /\ ~LongLived => \A b \in Thinker : bloom[b] = {} /\ ArchiveView(archive[b], stored[b])
  BY DEF MemoryInv
<1>2. /\ held' = [held EXCEPT ![a] = Append(@, m)]
      /\ learned' = [learned EXCEPT ![a] = @ \cup {m}]
      /\ archive' = archive /\ bloom' = bloom /\ stored' = stored
  BY DEF Learn
<1> DEFINE h == held[a]
<1>3. h \in Seq(Memory)
  BY <1>1
<1>4. Append(h, m) \in Seq(Memory) /\ ToSet(Append(h, m)) = ToSet(h) \cup {m}
  <2> HIDE DEF h
  <2>1. /\ Append(h, m) \in Seq(Memory) /\ Len(Append(h, m)) = Len(h) + 1
        /\ \A i \in 1 .. Len(h) : Append(h, m)[i] = h[i]
        /\ Append(h, m)[Len(h) + 1] = m
    BY <1>3, AppendProperties
  <2> DEFINE q == Append(h, m)
  <2>2. Len(h) \in Nat /\ DOMAIN h = 1 .. Len(h) /\ DOMAIN q = 1 .. Len(h) + 1
    BY <1>3, <2>1, LenProperties
  <2> HIDE DEF q
  <2>3. \A i \in DOMAIN q : i \in DOMAIN h \/ i = Len(h) + 1
    BY <2>2
  <2>4. Len(h) + 1 \in DOMAIN q /\ \A i \in DOMAIN h : i \in DOMAIN q
    BY <2>2
  <2>5. (\A i \in DOMAIN h : q[i] = h[i]) /\ q[Len(h) + 1] = m
    BY <2>1, <2>2 DEF q
  <2>6. ToSet(q) = ToSet(h) \cup {m}
    BY <2>3, <2>4, <2>5 DEF ToSet
  <2> QED BY <2>1, <2>6 DEF q
<1>5. held' \in [Thinker -> Seq(Memory)] /\ learned' \in [Thinker -> SUBSET Memory]
  BY <1>1, <1>2, <1>4
<1>6. IsFiniteSet(AllLearned')
  <2>1. AllLearned' = AllLearned \cup {m}
    BY <1>1, <1>2 DEF AllLearned
  <2> QED BY <1>1, <2>1, FS_AddElement
<1>7. ASSUME NEW b \in Thinker
      PROVE  HeldView(ToSet(held'[b]), learned'[b])
  <2>1. CASE b = a
    <3>1. held'[b] = Append(h, m) /\ learned'[b] = learned[a] \cup {m}
      BY <1>1, <1>2, <2>1
    <3>2. HeldView(ToSet(h) \cup {m}, learned[a] \cup {m})
      BY <1>1, LearnKeeps
    <3> QED BY <1>4, <3>1, <3>2
  <2>2. CASE b # a
    <3>1. held'[b] = held[b] /\ learned'[b] = learned[b]
      BY <1>1, <1>2, <2>2
    <3> QED BY <1>1, <3>1
  <2> QED BY <2>1, <2>2
<1> QED BY <1>1, <1>2, <1>5, <1>6, <1>7 DEF MemoryInv, PerThinker

LEMMA MergeStep ==
    ASSUME MemoryInv, NEW a \in Thinker, NEW b \in Thinker, MergeFrom(a, b)
    PROVE  MemoryInv'
<1>1. /\ held \in [Thinker -> Seq(Memory)] /\ learned \in [Thinker -> SUBSET Memory]
      /\ PerThinker(archive) /\ PerThinker(bloom) /\ PerThinker(stored)
      /\ IsFiniteSet(AllLearned)
      /\ \A c \in Thinker : HeldView(ToSet(held[c]), learned[c])
      /\ ~LongLived => \A c \in Thinker : bloom[c] = {} /\ ArchiveView(archive[c], stored[c])
  BY DEF MemoryInv
<1>2. /\ held' = [held EXCEPT ![a] = MergeMemories(held[a], held[b])]
      /\ learned' = [learned EXCEPT ![a] = learned[a] \cup learned[b]]
      /\ archive' = archive /\ bloom' = bloom /\ stored' = stored
  BY DEF MergeFrom
<1> DEFINE r == MergeMemories(held[a], held[b])
<1>3. IsMergeOf(r, ToSet(held[a]) \cup ToSet(held[b]))
  BY <1>1, MergedIs
<1> HIDE DEF r
<1>4. r \in Seq(Memory) /\ IsCut(ToSet(r), Confident(Totals(ToSet(held[a]) \cup ToSet(held[b]))))
  BY <1>3 DEF IsMergeOf
<1>5. held' \in [Thinker -> Seq(Memory)] /\ learned' \in [Thinker -> SUBSET Memory]
  BY <1>1, <1>2, <1>4 DEF r
<1>6. AllLearned' = AllLearned
  BY <1>1, <1>2 DEF AllLearned
<1>7. ASSUME NEW c \in Thinker
      PROVE  HeldView(ToSet(held'[c]), learned'[c])
  <2>1. CASE c = a
    <3>1. held'[c] = r /\ learned'[c] = learned[a] \cup learned[b]
      BY <1>1, <1>2, <2>1 DEF r
    <3>2. HeldView(ToSet(r), learned[a] \cup learned[b])
      BY <1>1, <1>4, MergeKeeps
    <3> QED BY <3>1, <3>2
  <2>2. CASE c # a
    <3>1. held'[c] = held[c] /\ learned'[c] = learned[c]
      BY <1>1, <1>2, <2>2
    <3> QED BY <1>1, <3>1
  <2> QED BY <2>1, <2>2
<1> QED BY <1>1, <1>2, <1>5, <1>6, <1>7 DEF MemoryInv, PerThinker

(* Blocks that hold what past has *)
Holds(blocks, past) ==
    /\ blocks \in Seq(Block) /\ InBlocks(blocks) \subseteq Memory /\ IsFiniteSet(InBlocks(blocks))
    /\ past \subseteq Memory /\ IsFiniteSet(past) /\ Totals(InBlocks(blocks)) = Totals(past)

LEMMA StoreStep ==
    ASSUME MemoryInv, NEW a \in Thinker, NEW blocks, NEW past, ~LongLived => Holds(blocks, past),
           StoreBlocks(a, blocks, past)
    PROVE  MemoryInv'
<1>1. /\ held \in [Thinker -> Seq(Memory)] /\ learned \in [Thinker -> SUBSET Memory]
      /\ PerThinker(archive) /\ PerThinker(bloom) /\ PerThinker(stored)
      /\ IsFiniteSet(AllLearned)
      /\ \A c \in Thinker : HeldView(ToSet(held[c]), learned[c])
      /\ ~LongLived => \A c \in Thinker : bloom[c] = {} /\ ArchiveView(archive[c], stored[c])
  BY DEF MemoryInv
<1> DEFINE merged == MergeBlocks(archive[a], blocks, bloom[a])
           facts == UNION {{m.fact : m \in ToSet(merged[n].memories)} : n \in DOMAIN merged}
<1>2. /\ archive' = [archive EXCEPT ![a] = merged]
      /\ bloom' = [bloom EXCEPT ![a] = IF LongLived THEN bloom[a] \cup facts ELSE bloom[a]]
      /\ stored' = [stored EXCEPT ![a] = stored[a] \cup past]
      /\ held' = held /\ learned' = learned
  BY DEF StoreBlocks
<1> HIDE DEF merged, facts
<1>3. /\ archive = [c \in Thinker |-> archive[c]] /\ bloom = [c \in Thinker |-> bloom[c]]
      /\ stored = [c \in Thinker |-> stored[c]]
  BY <1>1 DEF PerThinker
<1>4. PerThinker(archive') /\ PerThinker(bloom') /\ PerThinker(stored')
  <2>1. DOMAIN archive = Thinker /\ DOMAIN bloom = Thinker /\ DOMAIN stored = Thinker
    BY <1>3
  <2> QED BY <1>2, <2>1 DEF PerThinker
<1>5. AllLearned' = AllLearned
  BY <1>2 DEF AllLearned
<1>6. ASSUME ~LongLived, NEW c \in Thinker
      PROVE  bloom'[c] = {} /\ ArchiveView(archive'[c], stored'[c])
  <2>1. bloom[c] = {} /\ bloom[a] = {} /\ ArchiveView(archive[a], stored[a])
        /\ ArchiveView(archive[c], stored[c])
    BY <1>1, <1>6
  <2>2. CASE c = a
    <3>1. archive'[c] = merged /\ bloom'[c] = bloom[a] /\ stored'[c] = stored[a] \cup past
      BY <1>2, <1>3, <1>6, <2>2
    <3>2. merged = MergeBlocks(archive[a], blocks, {})
      BY <2>1 DEF merged
    <3>3. ArchiveView(MergeBlocks(archive[a], blocks, {}), stored[a] \cup past)
      BY <1>6, <2>1, StoreKeeps DEF Holds
    <3> QED BY <2>1, <3>1, <3>2, <3>3
  <2>3. CASE c # a
    <3>1. archive'[c] = archive[c] /\ bloom'[c] = bloom[c] /\ stored'[c] = stored[c]
      BY <1>2, <1>3, <2>3
    <3> QED BY <2>1, <3>1
  <2> QED BY <2>2, <2>3
<1> QED BY <1>1, <1>2, <1>4, <1>5, <1>6 DEF MemoryInv

LEMMA HeldHolds ==
    ASSUME NEW h \in Seq(Memory)
    PROVE  Holds(Consolidate(h), ToSet(h))
<1>1. Consolidate(h) \in Seq(Block) /\ InBlocks(Consolidate(h)) = ToSet(h)
  BY ConsolidateParts, ConsolidateHolds
<1>2. ToSet(h) \subseteq Memory /\ IsFiniteSet(ToSet(h))
  BY ListParts
<1> QED BY <1>1, <1>2 DEF Holds

LEMMA ArchiveHolds ==
    ASSUME NEW A, NEW S, ArchiveView(A, S)
    PROVE  Holds(A, S)
<1>1. A \in Seq(Block) /\ InBlocks(A) = Totals(S) /\ S \subseteq Memory /\ IsFiniteSet(S)
  BY ArchiveParts
<1>2. Totals(S) \subseteq Memory /\ IsFiniteSet(Totals(S))
  BY <1>1, TotalsFinite
<1>3. Totals(Totals(S)) = Totals(S)
  <2>1. Totals(Totals(S) \cup {}) = Totals(S \cup {})
    BY <1>1, TotalsOfTotals
  <2>2. Totals(S) \cup {} = Totals(S) /\ S \cup {} = S
    OBVIOUS
  <2> QED BY <2>1, <2>2
<1> QED BY <1>1, <1>2, <1>3 DEF Holds

LEMMA MemoryStep ==
    ASSUME MemoryInv, [MemoryNext]_memoryVars
    PROVE  MemoryInv'
<1>1. ASSUME NEW a \in Thinker, NEW f \in Fact, NEW c \in Confidence, NEW t \in Tag,
             Learn(a, [fact |-> f, confidence |-> c, time |-> Cardinality(AllLearned) + 1,
                       tags |-> {t}])
      PROVE  MemoryInv'
  <2> DEFINE n == Cardinality(AllLearned) + 1
             m == [fact |-> f, confidence |-> c, time |-> n, tags |-> {t}]
  <2>1. n \in Nat
    BY FS_CardinalityType DEF MemoryInv
  <2> HIDE DEF n
  <2>2. m \in Memory
    BY <2>1, ContextMemoryAssumption DEF Memory
  <2>3. Learn(a, m)
    BY <1>1 DEF n
  <2> HIDE DEF m
  <2> QED BY <2>2, <2>3, LearnStep
<1>2. ASSUME NEW a \in Thinker, NEW b \in Thinker, MergeFrom(a, b)
      PROVE  MemoryInv'
  BY <1>2, MergeStep
<1>3. ASSUME NEW a \in Thinker, NEW b \in Thinker, ArchiveFrom(a, b)
      PROVE  MemoryInv'
  <2>1. ~LongLived => Holds(archive[b], stored[b])
    BY ArchiveHolds DEF MemoryInv
  <2> QED BY <1>3, <2>1, StoreStep DEF ArchiveFrom
<1>4. ASSUME NEW a \in Thinker, ArchiveHeld(a)
      PROVE  MemoryInv'
  <2>1. held[a] \in Seq(Memory)
    BY DEF MemoryInv
  <2>2. Holds(Consolidate(held[a]), ToSet(held[a]))
    BY <2>1, HeldHolds
  <2> QED BY <1>4, <2>2, StoreStep DEF ArchiveHeld
<1>5. CASE UNCHANGED memoryVars
  BY <1>5 DEF memoryVars, MemoryInv, PerThinker, AllLearned
<1> QED BY <1>1, <1>2, <1>3, <1>4, <1>5 DEF MemoryNext

LEMMA MemoryInvHolds ==
    ASSUME MemoryInv
    PROVE  ContextOfHistory
<1>1. ASSUME NEW a \in Thinker
      PROVE  IsBestView(ToSet(MergeMemories(held[a], <<>>)), learned[a])
  <2>1. held[a] \in Seq(Memory) /\ HeldView(ToSet(held[a]), learned[a])
    BY DEF MemoryInv
  <2> DEFINE r == MergeMemories(held[a], <<>>)
  <2>2. <<>> \in Seq(Memory) /\ ToSet(<<>>) = {}
    BY EmptySeq DEF ToSet
  <2>3. IsMergeOf(r, ToSet(held[a]) \cup ToSet(<<>>))
    BY <2>1, <2>2, MergedIs
  <2> HIDE DEF r
  <2>4. ToSet(held[a]) \cup ToSet(<<>>) = ToSet(held[a])
    BY <2>2
  <2>5. IsCut(ToSet(r), Confident(Totals(ToSet(held[a]))))
    BY <2>3, <2>4 DEF IsMergeOf
  <2> QED BY <2>1, <2>5, ViewIsBest DEF r
<1>2. BestAreKept
  BY <1>1 DEF BestAreKept, IsBestView
<1>3. ASSUME ~LongLived, NEW a \in Thinker
      PROVE  IsArchive(archive[a], stored[a])
  <2>1. ArchiveView(archive[a], stored[a])
    BY <1>3 DEF MemoryInv
  <2> QED BY <2>1, ViewIsArchive
<1>4. ArchiveHoldsAll
  BY <1>3 DEF ArchiveHoldsAll, IsArchive
<1> QED BY <1>2, <1>4 DEF ContextOfHistory

(* In every order and grouping of merges and of archiving, a merge of the   *)
(* memories that an agent holds has of each fact the confidence that all of *)
(* its past gives it, the budget costs it nothing better than what is left, *)
(* and blocks that are merged with a fresh filter hold all that was stored, *)
(* each fact once: ContextMerge.merge, ContextConsolidator.merge_blocks.    *)
THEOREM ContextFollowsHistory == MemorySpec => []ContextOfHistory
<1>1. MemoryInit => MemoryInv
  BY MemoryStart
<1>2. MemoryInv /\ [MemoryNext]_memoryVars => MemoryInv'
  BY MemoryStep
<1>3. MemoryInv => ContextOfHistory
  BY MemoryInvHolds
<1> QED BY <1>1, <1>2, <1>3, PTL DEF MemorySpec

=============================================================================
