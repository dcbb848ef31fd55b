---------------------------- MODULE TrustLattice ----------------------------
(***************************************************************************)
(* Peers with a DeltaTrustLattice, an AdaptiveVerificationController, a    *)
(* TrustCircuitBreaker shared by the two, and a TrustGossipEngine          *)
(* (crdt_merge/e4 and crdt_merge/e4/integration, as ensure_init wires      *)
(* them).  A peer that observes misbehaviour gets a delta, which others    *)
(* receive from it directly or in sync payloads.  Transport is the         *)
(* caller's: a delta or a payload may come late, repeatedly or never.      *)
(*                                                                         *)
(* Signatures, Merkle roots, clocks and bounds of a delta are abstracted   *)
(* to the number of verification levels whose checks of them it passes.    *)
(* Evidence is decoded by an encoder that callers inject: decodes says     *)
(* whether its result verifies, which that of the default encoder never    *)
(* does.  node[p].known and .delivered are history variables.              *)
(***************************************************************************)
EXTENDS TypedTrust, SequencesExt

CONSTANTS
    Peer,          \* peers that run this code
    Subject,       \* names that evidence is about, peers among them
    Evidence,      \* [observer, target, dimension, amount] with a valid proof
    Checks,        \* [passes, decodes]: what receivers find out about a delta
    QueueLimit,    \* async_queue_limit of the verifier
    BatchSize,     \* batch_size of run_async_followup
    Sigma,         \* sigma_threshold of the breaker
    MinSamples,    \* min_samples of the breaker
    Window,        \* window_size of the breaker
    MaxEvidence,   \* bound: observations
    MaxPayloads,   \* bound: sync payloads
    MaxRepeat,     \* bound: how often a piece of evidence counts
    MaxQueue       \* bound: deltas in a lattice queue

ASSUME TrustAssumption ==
    /\ Peer \subseteq Subject
    /\ \A e \in Evidence :
         /\ e.observer \in Subject /\ e.target \in Subject /\ e.dimension \in Dimension
         /\ e.amount \in 1 .. One
    /\ Checks \subseteq [passes : 0 .. 3, decodes : BOOLEAN]
    /\ QueueLimit \in Nat \ {0} /\ BatchSize \in Nat \ {0}
    /\ Sigma \in Nat /\ MinSamples \in Nat \ {0} /\ Window \in Nat \ {0}

VARIABLES
    node,      \* node[p]: the objects of peer p
    made,      \* deltas that observe_and_propagate returned to its callers
    payloads   \* sync payloads that were sent

trustVars == <<node, made, payloads>>

(* queue: _async_queue of the lattice; pending: the deque of the verifier *)
NewNode ==
    [scores |-> [s \in Subject |-> Probationary], queue |-> <<>>, pending |-> <<>>,
     velocity |-> <<>>, tripped |-> FALSE, known |-> {}, delivered |-> {}]

TrustInit ==
    /\ node = [p \in Peer |-> NewNode]
    /\ made = {}
    /\ payloads = {}

-----------------------------------------------------------------------------
(* Circuit breaker *)

LastOf(n, seq) == SubSeq(seq, IF Len(seq) > n THEN Len(seq) - n + 1 ELSE 1, Len(seq))

(* The last velocity v is above mean + Sigma * std of the window, squared   *)
(* and multiplied by the square of the number of samples.                   *)
Anomalous(velocity) ==
    LET n == Len(velocity)
        total == SumOf(velocity)
        excess == n * velocity[n] - total
    IN /\ n >= MinSamples
       /\ excess > 0
       /\ excess * excess
            > Sigma * Sigma * (n * SumOf([i \in 1 .. n |-> velocity[i] * velocity[i]])
                                 - total * total)

RecordTrustChange(n, old, new) ==
    LET change == OverallTrust(new) - OverallTrust(old)
        velocity == LastOf(Window, Append(n.velocity, IF change < 0 THEN -change ELSE change))
    IN [n EXCEPT !.velocity = velocity, !.tripped = @ \/ Anomalous(velocity)]

(* is_tripped() clears the flag when the cooldown is over. *)
Cooldown(p) ==
    /\ node[p].tripped
    /\ node' = [node EXCEPT ![p].tripped = FALSE]
    /\ UNCHANGED <<made, payloads>>

ResetBreaker(p) ==
    /\ node' = [node EXCEPT ![p].tripped = FALSE, ![p].velocity = <<>>]
    /\ UNCHANGED <<made, payloads>>

-----------------------------------------------------------------------------
(* Deltas *)

Bounded(n) ==
    /\ Len(n.queue) <= MaxQueue
    /\ \A e \in Evidence :
         Slot(n.scores[e.target], e.dimension, e.observer) <= MaxRepeat * e.amount

(* The caller's signing function and the receiver's Merkle tree and clock   *)
(* decide how many levels a delta passes.                                   *)
Observe(p, e) ==
    LET n == node[p]
        old == n.scores[e.target]
        new == RecordEvidence(old, e.observer, e.dimension, e.amount)
        known == [id |-> Cardinality(made) + 1, by |-> p, evidence |-> e]
    IN /\ Cardinality(made) < MaxEvidence
       /\ ~n.tripped
       /\ e.observer # e.target
       /\ node' = [node EXCEPT ![p] =
            RecordTrustChange([n EXCEPT !.scores[e.target] = new, !.known = @ \cup {known}],
                              old, new)]
       /\ Bounded(node'[p])
       /\ \E check \in Checks :
            made' = made \cup {[known |-> known, source |-> e.observer, originator |-> p,
                                passes |-> check.passes, decodes |-> check.decodes]}
       /\ UNCHANGED payloads

(* The trust of the originator is not looked at. *)
PcoVerifyUntrusting(n, delta, level) ==
    /\ level # 3
    /\ delta.passes > level

(* AggregateProofCarryingOperation.verify *)
PcoVerify(n, delta, level) ==
    /\ level # 3
    /\ delta.passes > level
    /\ level = 2 /\ delta.originator \in DOMAIN n.scores
         => VerificationLevel(n.scores[delta.originator]) # 3

(* Counter-evidence carries a proof of 33 zero bytes, which verifies for no *)
(* peer: record_evidence raises, and nothing changes.                       *)
RecordCounterEvidence(n, peer) == n

(* Evidence that came in a delta is added, whether it is known or not. *)
ApplyEvidence(n, delta) ==
    LET e == delta.known.evidence
        old == n.scores[e.target]
        new == JoinScores(old, RecordEvidence(old, e.observer, e.dimension, e.amount))
    IN RecordTrustChange([n EXCEPT !.scores[e.target] = new, !.known = @ \cup {delta.known},
                                   !.delivered = @ \cup {delta.known}], old, new)

LatticeLevel(n, delta) == VerificationLevel(n.scores[delta.source])

LatticeAccepts(n, delta) ==
    /\ ~n.tripped
    /\ PcoVerify(n, delta, LatticeLevel(n, delta))
    /\ delta.decodes

(* receive_trust_delta: what passed its level 0 or 1 is queued first.       *)
Receive(n, delta) ==
    LET level == LatticeLevel(n, delta)
        queued == [n EXCEPT !.queue =
                     IF ~n.tripped /\ level < 2 /\ PcoVerify(n, delta, level)
                     THEN Append(@, delta) ELSE @]
    IN IF LatticeAccepts(n, delta) THEN ApplyEvidence(queued, delta)
       ELSE RecordCounterEvidence(queued, delta.source)

(* a tripped breaker sets level 2 *)
VerifierLevel(n, delta) == IF n.tripped THEN 2 ELSE LatticeLevel(n, delta)

VerifierAccepts(n, delta) ==
    /\ PcoVerify(n, delta, 0)
    /\ PcoVerify(n, delta, VerifierLevel(n, delta))

(* AdaptiveVerificationController.verify: the deque evicts its oldest.      *)
Verify(n, delta) ==
    IF ~VerifierAccepts(n, delta) THEN RecordCounterEvidence(n, delta.source)
    ELSE IF VerifierLevel(n, delta) < 2
         THEN [n EXCEPT !.pending = LastOf(QueueLimit, Append(@, delta))]
         ELSE n

ReceiveTrustDelta(p, delta) ==
    /\ Bounded(Receive(node[p], delta))
    /\ node' = [node EXCEPT ![p] = Receive(@, delta)]
    /\ UNCHANGED <<made, payloads>>

(* prepare_sync takes what waits in the lattice queue, at most one data     *)
(* delta here.                                                              *)
PrepareSync(p, data) ==
    /\ Cardinality(payloads) < MaxPayloads
    /\ payloads' = payloads \cup {[data |-> data, trust |-> node[p].queue]}
    /\ node' = [node EXCEPT ![p].queue = <<>>]
    /\ UNCHANGED made

(* receive_sync: the data deltas to the verifier, the others to the lattice *)
ReceiveSync(p, payload) ==
    LET routed == FoldLeft(Receive, FoldLeft(Verify, node[p], SetToSeq(payload.data)),
                           payload.trust)
    IN /\ Bounded(routed)
       /\ node' = [node EXCEPT ![p] = routed]
       /\ UNCHANGED <<made, payloads>>

(* run_async_followup: whatever the result, the deltas leave the deque.     *)
RunAsyncFollowup(p) ==
    LET n == node[p]
        batch == IF Len(n.pending) < BatchSize THEN Len(n.pending) ELSE BatchSize
    IN /\ batch > 0
       /\ node' = [node EXCEPT ![p].pending = SubSeq(@, batch + 1, Len(@))]
       /\ UNCHANGED <<made, payloads>>

-----------------------------------------------------------------------------
(* merge(): a new lattice with the joined scores, an empty queue and the    *)
(* same breaker.                                                            *)
MergeLattice(p, q) ==
    LET a == node[p]
        b == node[q]
        joined == [s \in Subject |-> JoinScores(a.scores[s], b.scores[s])]
    IN /\ node' = [node EXCEPT ![p].scores = joined, ![p].queue = <<>>,
                               ![p].known = @ \cup b.known,
                               ![p].delivered = @ \cup b.delivered]
       /\ UNCHANGED <<made, payloads>>

TrustNext ==
    \E p \in Peer :
        \/ \E e \in Evidence : Observe(p, e)
        \/ \E delta \in made : ReceiveTrustDelta(p, delta)
        \/ \E data \in {{}} \cup {{delta} : delta \in made} : PrepareSync(p, data)
        \/ \E payload \in payloads : ReceiveSync(p, payload)
        \/ RunAsyncFollowup(p) \/ Cooldown(p) \/ ResetBreaker(p)
        \/ \E q \in Peer \ {p} : MergeLattice(p, q)

TrustSpec == TrustInit /\ [][TrustNext]_trustVars

=============================================================================
