----------------------------- MODULE TypedTrust -----------------------------
(***************************************************************************)
(* TypedTrustScore (crdt_merge/e4/typed_trust.py) as operators: negative   *)
(* evidence by dimension and observer, added by an observer and joined by  *)
(* maximum.  Amounts and trust are counted in tenths: One is trust 1.0.    *)
(* Thresholds and probation are the constants of the source.               *)
(***************************************************************************)
EXTENDS Dicts, Integers, FiniteSets, Functions

CONSTANT Dimension    \* TRUST_DIMENSIONS, six of them in the source

ASSUME DimensionAssumption == IsFiniteSet(Dimension) /\ Dimension # {}

One == 10

ProbationTrust == 5

(* What the observer's counter says *)
Slot(score, d, observer) == LookUp(LookUp(score, d, EmptyDict), observer, 0)

SumOf(f) == FoldFunction(+, 0, f)

(* No evidence at all, under the name of probationary() and full_trust() *)
Probationary == EmptyDict

(* A dimension without evidence has the trust of probation, one with very   *)
(* little has more.                                                         *)
TrustForDimension(score, d) ==
    IF d \notin DOMAIN score THEN ProbationTrust
    ELSE IF SumOf(score[d]) >= One THEN 0 ELSE One - SumOf(score[d])

(* overall_trust() is this sum divided by the number of dimensions *)
OverallTrust(score) == SumOf([d \in Dimension |-> TrustForDimension(score, d)])

(* below 0.1, 0.4 and 0.8 *)
VerificationLevel(score) ==
    LET trust == OverallTrust(score)
        below(tenths) == trust < tenths * Cardinality(Dimension)
    IN IF below(1) THEN 3 ELSE IF below(4) THEN 2 ELSE IF below(8) THEN 1 ELSE 0

RecordEvidence(score, observer, d, amount) ==
    LET obs == LookUp(score, d, EmptyDict)
    IN Put(score, d, Put(obs, observer, LookUp(obs, observer, 0) + amount))

(* Observers that both know count once for each of the two. *)
JoinScoresSum(a, b) ==
    [d \in DOMAIN a \cup DOMAIN b |->
        LET m == LookUp(a, d, EmptyDict)
            n == LookUp(b, d, EmptyDict)
        IN [o \in DOMAIN m \cup DOMAIN n |-> LookUp(m, o, 0) + LookUp(n, o, 0)]]

JoinScores(a, b) ==
    [d \in DOMAIN a \cup DOMAIN b |->
        LET m == LookUp(a, d, EmptyDict)
            n == LookUp(b, d, EmptyDict)
        IN [o \in DOMAIN m \cup DOMAIN n |->
              IF LookUp(m, o, 0) >= LookUp(n, o, 0) THEN LookUp(m, o, 0)
              ELSE LookUp(n, o, 0)]]

=============================================================================
