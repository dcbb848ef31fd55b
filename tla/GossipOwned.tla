---------------------------- MODULE GossipOwned ----------------------------
(***************************************************************************)
(* Gossip with one writer for every key, and the versioned map that it     *)
(* implements.  The version of a key at a node is the counter of its       *)
(* writer in the clock of the entry that the node holds.                   *)
(***************************************************************************)
EXTENDS Gossip

Owner == [k \in Key |-> CHOOSE w \in Node : w \in Writers[k]]

HeldVersion ==
    [n \in Node |-> [k \in Key |->
        IF Held(n, k) = {} THEN 0
        ELSE (CHOOSE e \in store[n] : e.key = k).clock[Owner[k]]]]

Map == INSTANCE VersionedMap WITH held <- HeldVersion

(* Whichever pairs synchronise in whatever order, every node moves through  *)
(* the versions of a key forwards only, and only to versions that its       *)
(* writer holds or has overwritten: anti-entropy implements the versioned   *)
(* map.                                                                     *)
ImplementsVersionedMap == Map!Spec

=============================================================================
