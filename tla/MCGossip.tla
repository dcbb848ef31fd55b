------------------------------ MODULE MCGossip ------------------------------
(* Small instances of Gossip for TLC *)
EXTENDS GossipOwned

TwoNodes == {1, 2}
ThreeNodes == {1, 2, 3}

(* Every node may write the one key. *)
SharedKey == [k \in Key |-> Node]

(* Both nodes write key 1, and node 1 alone writes key 2. *)
SharedAndOwned == [k \in Key |-> IF k = 1 THEN Node ELSE {1}]

(* Key k belongs to node k. *)
OwnedKeys == [k \in Key |-> {k}]

=============================================================================
