----------------------------- MODULE CoreCRDTs -----------------------------
(***************************************************************************)
(* The value types of crdt_merge/core.py as operators: GCounter,           *)
(* PNCounter, LWWRegister, ORSet and LWWMap.  A replica is a value, an     *)
(* operation returns the changed value, merge() returns a new one.         *)
(*                                                                         *)
(* A node id is a sequence of agents: "a", or "a+b" for the state that     *)
(* AgentState.merge made of two.                                           *)
(***************************************************************************)
EXTENDS Dicts, Integers, Sequences

(* s > t, for the strings of two ids whose agents have names of one length *)
IdAbove(s, t) ==
    \E i \in DOMAIN s :
        /\ i <= Len(t) + 1
        /\ \A j \in 1 .. i - 1 : s[j] = t[j]
        /\ i = Len(t) + 1 \/ s[i] > t[i]

-----------------------------------------------------------------------------
(* GCounter: id -> count *)

Increment(counts, id, amount) == Put(counts, id, LookUp(counts, id, 0) + amount)

(* The counts of both are added. *)
MergeCountsSum(a, b) ==
    [id \in DOMAIN a \cup DOMAIN b |-> LookUp(a, id, 0) + LookUp(b, id, 0)]

MergeCounts(a, b) ==
    [id \in DOMAIN a \cup DOMAIN b |->
        LET m == LookUp(a, id, 0)
            n == LookUp(b, id, 0)
        IN IF m >= n THEN m ELSE n]

(* PNCounter *)

NewPNCounter == [pos |-> EmptyDict, neg |-> EmptyDict]

MergePN(a, b) == [pos |-> MergeCounts(a.pos, b.pos),
                  neg |-> MergeCounts(a.neg, b.neg)]

-----------------------------------------------------------------------------
(* LWWRegister: [value, time, node] *)

(* The other replica wins a tie. *)
MergeRegisterTieOther(a, b) == IF b.time >= a.time THEN b ELSE a

MergeRegister(a, b) ==
    IF \/ b.time > a.time
       \/ b.time = a.time /\ IdAbove(b.node, a.node)
    THEN b
    ELSE a

-----------------------------------------------------------------------------
(* ORSet: [elements: element -> live tags, tombs: removed tags] *)

NewORSet == [elements |-> EmptyDict, tombs |-> {}]

SetAdd(s, e, tag) ==
    [s EXCEPT !.elements = Put(@, e, LookUp(@, e, {}) \cup {tag})]

(* An element without live tags is left as it is. *)
SetRemove(s, e) ==
    LET tags == LookUp(s.elements, e, {})
    IN IF tags = {}
       THEN s
       ELSE [elements |-> Put(s.elements, e, {}), tombs |-> s.tombs \cup tags]

(* remove_tag raises for an element that was never in the map. *)
SetRemoveTag(s, e, tag) ==
    [elements |-> Put(s.elements, e, s.elements[e] \ {tag}),
     tombs |-> s.tombs \cup {tag}]

(* The union is taken without the tombstones of the other. *)
MergeSetOwnTombs(a, b) ==
    [elements |-> [e \in DOMAIN a.elements \cup DOMAIN b.elements |->
                    (LookUp(a.elements, e, {}) \cup LookUp(b.elements, e, {}))
                        \ a.tombs],
     tombs |-> a.tombs \cup b.tombs]

MergeSet(a, b) ==
    LET tombs == a.tombs \cup b.tombs
    IN [elements |-> [e \in DOMAIN a.elements \cup DOMAIN b.elements |->
                        (LookUp(a.elements, e, {}) \cup LookUp(b.elements, e, {}))
                            \ tombs],
        tombs |-> tombs]

(* from_dict(to_dict(s)) *)
ReloadSet(s) ==
    [s EXCEPT !.elements = [e \in DOMAIN @ |-> @[e] \ s.tombs]]

-----------------------------------------------------------------------------
(* LWWMap: [regs: key -> register, tombs: key -> time of deletion] *)

NewLWWMap == [regs |-> EmptyDict, tombs |-> EmptyDict]

(* set() overwrites the register whatever its time is. *)
MapSet(m, k, reg) ==
    [regs |-> Put(m.regs, k, reg),
     tombs |-> [x \in {y \in DOMAIN m.tombs : y = k => reg.time <= m.tombs[y]} |->
                    m.tombs[x]]]

MapDelete(m, k, time) == [m EXCEPT !.tombs = Put(@, k, time)]

IsLive(m, k) ==
    /\ k \in DOMAIN m.regs
    /\ k \in DOMAIN m.tombs => m.regs[k].time > m.tombs[k]

(* The tombstones of the other are dropped. *)
MergeMapOwnTombs(a, b) ==
    [regs |-> [k \in DOMAIN a.regs \cup DOMAIN b.regs |->
                MergeRegister(LookUp(a.regs, k, LookUp(b.regs, k, 0)),
                              LookUp(b.regs, k, LookUp(a.regs, k, 0)))],
     tombs |-> a.tombs]

MergeMap(a, b) ==
    [regs |-> [k \in DOMAIN a.regs \cup DOMAIN b.regs |->
                MergeRegister(LookUp(a.regs, k, LookUp(b.regs, k, 0)),
                              LookUp(b.regs, k, LookUp(a.regs, k, 0)))],
     tombs |-> MergeCounts(a.tombs, b.tombs)]

=============================================================================
