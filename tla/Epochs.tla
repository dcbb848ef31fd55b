------------------------------- MODULE Epochs -------------------------------
(***************************************************************************)
(* EpochManager and EpochState of crdt_merge/e4/resilience/                *)
(* epoch_protocol.py: an epoch number that merges by maximum, and counts   *)
(* of the evidence of each epoch, of which old ones are pruned.            *)
(*                                                                         *)
(* Time is left out: an interval may be over at any moment, so an advance  *)
(* is always possible and _evidence_count decides nothing.  A transition   *)
(* is known by its to_epoch.                                               *)
(***************************************************************************)
EXTENDS Dicts, Integers, FiniteSetsExt

CONSTANTS
    Manager,        \* peers
    Retention,      \* [Manager -> retention_epochs]
    MaxEpoch,       \* bound: epochs
    MaxRecords,     \* bound: evidence of one peer
    MaxStates       \* bound: states that are on their way

ASSUME EpochAssumption ==
    /\ Retention \in [Manager -> Nat]
    /\ MaxEpoch \in Nat /\ MaxRecords \in Nat /\ MaxStates \in Nat

VARIABLES
    epochs,     \* epochs[p]: [epoch, retention, history, counts, heard]
    sent        \* states on their way, however late they arrive

epochVars == <<epochs, sent>>

(* heard, a history variable, has the evidence of the causal past.          *)
EpochInit ==
    /\ epochs = [p \in Manager |->
                    [epoch |-> 0, retention |-> Retention[p], history |-> {},
                     counts |-> EmptyDict, heard |-> {}]]
    /\ sent = {}

(* record_evidence, in the current epoch *)
RecordInEpoch(p) ==
    LET s == epochs[p]
        own == {x \in s.heard : x.by = p}
    IN /\ Cardinality(own) < MaxRecords
       /\ epochs' = [epochs EXCEPT
              ![p].counts = Put(@, s.epoch, LookUp(@, s.epoch, 0) + 1),
              ![p].heard = @ \cup {[by |-> p, n |-> Cardinality(own), epoch |-> s.epoch]}]
       /\ UNCHANGED sent

(* force_advance, also from advance_if_needed *)
Advance(p) ==
    /\ epochs[p].epoch < MaxEpoch
    /\ epochs' = [epochs EXCEPT ![p].epoch = @ + 1,
                                ![p].history = @ \cup {epochs[p].epoch + 1}]
    /\ UNCHANGED sent

(* The oldest epoch that is to be kept is pruned as well. *)
PrunableOldest(s) == {e \in DOMAIN s.counts : e <= s.epoch - s.retention}

(* prunable_epochs *)
Prunable(s) == {e \in DOMAIN s.counts : e < s.epoch - s.retention}

(* gc_evidence *)
Prune(p) ==
    /\ epochs' = [epochs EXCEPT ![p].counts =
                      [e \in DOMAIN @ \ Prunable(epochs[p]) |-> @[e]]]
    /\ UNCHANGED sent

(* EpochState.merge *)
MergeEpochs(s, t) ==
    [epoch |-> Max({s.epoch, t.epoch}),
     retention |-> Min({s.retention, t.retention}),
     history |-> s.history \cup t.history,
     counts |-> [e \in DOMAIN s.counts \cup DOMAIN t.counts |->
                    Max({LookUp(s.counts, e, 0), LookUp(t.counts, e, 0)})],
     heard |-> s.heard \cup t.heard]

SendState(p) ==
    /\ Cardinality(sent) < MaxStates
    /\ sent' = sent \cup {epochs[p]}
    /\ UNCHANGED epochs

(* merge_remote_epoch *)
MergeRemote(p, state) ==
    /\ epochs' = [epochs EXCEPT ![p] = MergeEpochs(@, state)]
    /\ UNCHANGED sent

EpochNext ==
    \E p \in Manager :
        \/ RecordInEpoch(p) \/ Advance(p) \/ Prune(p) \/ SendState(p)
        \/ \E state \in sent : MergeRemote(p, state)

EpochSpec == EpochInit /\ [][EpochNext]_epochVars

-----------------------------------------------------------------------------
(* Properties *)

RecordsOf(s, q, e) == Cardinality({x \in s.heard : x.by = q /\ x.epoch = e})

RecordsIn(s, e) == Cardinality({x \in s.heard : x.epoch = e})

(* However late states arrive and whoever pruned what, and with different   *)
(* windows of retention: a peer has the transition to every epoch up to its *)
(* own; the count of an epoch that is within its window covers all that it  *)
(* heard from any one peer, and no count has more than was heard of all.    *)
(* (Counts of peers for the same epoch are joined by maximum and not added, *)
(* and a pruned epoch may come back from a peer: it is out of the window.)  *)
CountsOfHistory ==
    \A p \in Manager :
        LET s == epochs[p] IN
        /\ s.history = 1 .. s.epoch
        /\ \A e \in 0 .. s.epoch :
             /\ LookUp(s.counts, e, 0) <= RecordsIn(s, e)
             /\ e >= s.epoch - s.retention =>
                  \A q \in Manager : LookUp(s.counts, e, 0) >= RecordsOf(s, q, e)

=============================================================================
