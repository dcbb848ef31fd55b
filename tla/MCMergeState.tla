---------------------------- MODULE MCMergeState ----------------------------
(* Small instances of MergeState for TLC *)
EXTENDS MergeState

TwoReplicas == {1, 2}

(* Replica 1 has the base model, the others inherit it. *)
OneBase == [r \in Replica |-> IF r = 1 THEN CHOOSE b \in Base : TRUE ELSE NoBase]

=============================================================================
