------------------------------ MODULE MCTrust ------------------------------
(* Small instances of TrustContext for TLC *)
EXTENDS TrustContext

(* Much evidence against peer 2 puts it into quarantine, a little against   *)
(* peer 1 makes it trusted.                                                 *)
SomeEvidence ==
    {[observer |-> 1, target |-> 2, dimension |-> "integrity", amount |-> 10],
     [observer |-> 2, target |-> 1, dimension |-> "integrity", amount |-> 2]}

(* An intact delta, and one of the default encoder whose root is not known  *)
(* to the receiver                                                          *)
SomeChecks ==
    {[passes |-> 3, decodes |-> TRUE], [passes |-> 1, decodes |-> FALSE]}

(* Memories read the scores and nothing else of the lattice: beside them    *)
(* scores change by one observation of peer 1 and merges alone.             *)
ScoresOnly ==
    /\ payloads = {}
    /\ \A delta \in made :
         delta.passes = 3 /\ delta.known.id = 1 /\ delta.known.by = 1
           /\ delta.known.evidence.target = 2
    /\ \A p \in Peer : node[p].delivered = {} /\ node[p].queue = <<>>

ScoresNext ==
    \E p \in Peer :
        \/ \E e \in Evidence : Observe(p, e)
        \/ \E q \in Peer \ {p} : MergeLattice(p, q)

(* Peer 1 sends, and what it sends is not empty.  The first delta can be    *)
(* decoded, and a breaker is reset after a trip.                            *)
LatticeStep ==
    /\ payloads' # payloads =>
         /\ node'[2] = node[2]
         /\ \A payload \in payloads' : payload.data # {} \/ payload.trust # <<>>
    /\ \A delta \in made' : delta.known.id = 1 => delta.decodes
    /\ \A p \in Peer : node[p].velocity # <<>> /\ node'[p].velocity = <<>>
                     => node[p].tripped

(* Writes are in the name of agent 2, or of agent 1 by itself; the first    *)
(* may have a later time than those that follow.  Peer 1 sends its memory,  *)
(* or takes one snapshot after the first write.                             *)
MemoryStep ==
    /\ writes' > 0
    /\ \A p \in Peer : \A op \in past'[p] \ past[p] :
         op.kind = "put" /\ writes' > writes =>
           /\ op.write.peer = 2 \/ p = 1
           /\ op.write.time = 2 => writes' = 1
    /\ forms' # forms => forms' = {FormOf(1)} /\ past[1] # {}
    /\ snapshots' # snapshots => writes = 1 /\ snapshots'[2] = {} /\ forms = {}

MCNext ==
    \/ writes = 0 /\ TrustNext /\ LatticeStep /\ UNCHANGED contextVars
    \/ writes > 0 /\ ScoresNext /\ LatticeStep /\ ScoresOnly' /\ UNCHANGED contextVars
    \/ ScoresOnly /\ ContextNext /\ MemoryStep /\ UNCHANGED trustVars

MCSpec == Init /\ [][MCNext]_vars

=============================================================================
