---------------------------- MODULE VersionedMap ----------------------------
(***************************************************************************)
(* What gossip promises for keys that one node writes: every node holds a  *)
(* version of every key, 0 for none.  The owner publishes later and later  *)
(* versions, the other nodes adopt what the owner has published, and no    *)
(* node ever goes back.                                                    *)
(***************************************************************************)
EXTENDS Integers

CONSTANTS Node, Key,
          Owner     \* [Key -> Node]: the writer of a key

VARIABLE held       \* held[n][k]: the version of k that n holds

Init == held = [n \in Node |-> [k \in Key |-> 0]]

Publish(k) ==
    /\ held'[Owner[k]][k] > held[Owner[k]][k]
    /\ held' = [held EXCEPT ![Owner[k]][k] = held'[Owner[k]][k]]

(* One exchange may bring several nodes up to date on several keys. *)
Adopt ==
    /\ DOMAIN held' = Node
    /\ \A n \in Node :
        /\ DOMAIN held'[n] = Key
        /\ \A k \in Key :
             /\ held'[n][k] \in held[n][k] .. held[Owner[k]][k]

Next == Adopt \/ \E k \in Key : Publish(k)

Spec == Init /\ [][Next]_held

=============================================================================
