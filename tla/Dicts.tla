------------------------------- MODULE Dicts -------------------------------
(* Dicts of the code are functions whose domain is what the dict holds. *)

EmptyDict == [x \in {} |-> 0]

(* dict.get(x, default) *)
LookUp(dict, x, default) == IF x \in DOMAIN dict THEN dict[x] ELSE default

Put(dict, x, v) == [y \in DOMAIN dict \cup {x} |-> IF y = x THEN v ELSE dict[y]]

Drop(dict, x) == [y \in DOMAIN dict \ {x} |-> dict[y]]

=============================================================================
