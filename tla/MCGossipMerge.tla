--------------------------- MODULE MCGossipMerge ---------------------------
(* Small instances of GossipMerge for TLC *)
EXTENDS GossipMerge

TwoNodes == {1, 2}

(* Every node may write every key. *)
SharedKey == [k \in Key |-> Node]

(* Values 1 and 2 have one text, above that of None. *)
OneText == [v \in Value \cup {NoValue} |-> IF v = NoValue THEN 0 ELSE 1]

(* Node 1 has a file and restarts from it when node 2 knows of an event     *)
(* that the file lacks.  Each writes once, and node 1 again after that.      *)
FileOfOne ==
    /\ \A file \in files' : file.node = 1
    /\ restarts' > restarts => \E file \in files : clock[2][1] > file.clock[1]
    /\ clock'[1][1] <= 1 + restarts /\ clock'[2][2] <= 1

MCNext == MergeNext /\ FileOfOne

MCSpec == MergeInit /\ [][MCNext]_mergeVars

=============================================================================
