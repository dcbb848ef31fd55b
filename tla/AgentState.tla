----------------------------- MODULE AgentState -----------------------------
(***************************************************************************)
(* Agents that hold an AgentState (crdt_merge/agentic.py) each: facts in   *)
(* an LWWMap, tags in an ORSet, PNCounters by name, a bounded message log. *)
(* An agent sends its to_dict form, and a receiver goes on with            *)
(* merge(own, from_dict(received)).  Transport is the caller's: a form may *)
(* be merged late, repeatedly, in any order, or never.                     *)
(*                                                                         *)
(* Callers that keep to the documented use write facts with timestamps     *)
(* above those they replace and share no state inside a transaction;       *)
(* Careless = TRUE drops both.                                             *)
(*                                                                         *)
(* seen is a history variable: the operations in the causal past of an     *)
(* agent.  Operations are numbered, and the number serves as the uuid of a *)
(* tag, the value of a fact and the wall-clock time of a message.          *)
(***************************************************************************)
EXTENDS CoreCRDTs, Listing, SequencesExt

CONSTANTS
    Agent,        \* agent ids, integers in the order of the strings
    Key,          \* fact keys
    Element,      \* tags, as the elements of the ORSet
    Counter,      \* counter names
    Time,         \* timestamps of facts
    Cap,          \* [Agent -> max_messages]
    DefaultCap,   \* max_messages of a state built by from_dict
    Tokens,       \* [Agent -> capacity of the rate limiter, NoLimiter for none]
    NoLimiter,
    Careless,     \* TRUE: callers write old timestamps and share dirty states
    MaxOps,       \* bound: operations
    MaxShares,    \* bound: states shared
    MaxId         \* bound: agents in an id

ASSUME AgentAssumption ==
    /\ Agent \subseteq Int
    /\ Time \subseteq Nat
    /\ Cap \in [Agent -> Nat \ {0}]
    /\ DefaultCap \in Nat \ {0}
    /\ Careless \in BOOLEAN
    /\ MaxOps \in Nat /\ MaxShares \in Nat /\ MaxId \in Nat

VARIABLES
    agent,   \* agent[a]: the AgentState that a holds
    saved,   \* saved[a]: {} or the snapshot of the open transaction
    shared,  \* to_dict forms that were sent
    ops,     \* number of operations so far
    seen

vars == <<agent, saved, shared, ops, seen>>

NewAgent(id, cap, limiter) ==
    [id |-> id, facts |-> NewLWWMap, tags |-> NewORSet, counters |-> EmptyDict,
     log |-> <<>>, cap |-> cap, limiter |-> limiter]

Init ==
    /\ agent = [a \in Agent |-> NewAgent(<<a>>, Cap[a], Tokens[a])]
    /\ saved = [a \in Agent |-> {}]
    /\ shared = {}
    /\ ops = 0
    /\ seen = [a \in Agent |-> {}]

-----------------------------------------------------------------------------
(* Local operations *)

(* Agent a performs operation op, numbered ops + 1, and holds state s. *)
Perform(a, s, op) ==
    /\ ops < MaxOps
    /\ ops' = ops + 1
    /\ agent' = [agent EXCEPT ![a] = s]
    /\ seen' = [seen EXCEPT ![a] = @ \cup {op}]
    /\ UNCHANGED <<saved, shared>>

(* Two writes under one id never have the same timestamp. *)
FreshTime(id, t) ==
    \A a \in Agent : \A op \in seen[a] : op.kind = "set" /\ op.id = id => op.time # t

(* acquire() is the first thing that add_fact does. *)
AddFact(a, k, t) ==
    LET s == agent[a]
        reg == [value |-> ops + 1, time |-> t, node |-> s.id]
    IN /\ s.limiter # 0
       /\ FreshTime(s.id, t)
       /\ Careless \/ LookUp(s.facts.regs, k, [time |-> -1]).time < t
       /\ Perform(a, [s EXCEPT !.facts = MapSet(@, k, reg),
                               !.limiter = IF @ = NoLimiter THEN @ ELSE @ - 1],
                  [kind |-> "set", key |-> k, time |-> t, id |-> s.id,
                   value |-> ops + 1])

(* AgentState has no wrapper for LWWMap.delete: the caller deletes in the map. *)
DeleteFact(a, k, t) ==
    LET s == agent[a]
    IN /\ Careless \/ LookUp(s.facts.tombs, k, -1) < t
       /\ Perform(a, [s EXCEPT !.facts = MapDelete(@, k, t)],
                  [kind |-> "delete", key |-> k, time |-> t])

AddTag(a, e) ==
    Perform(a, [agent[a] EXCEPT !.tags = SetAdd(@, e, ops + 1)],
            [kind |-> "tag", element |-> e, tag |-> ops + 1])

RemoveTag(a, e) ==
    LET tags == LookUp(agent[a].tags.elements, e, {})
    IN Perform(a, [agent[a] EXCEPT !.tags = SetRemove(@, e)],
               [kind |-> "untag", tags |-> tags])

(* ORSet.remove_tag of one of the tags that the element has *)
RemoveOneTag(a, e) ==
    \E tag \in LookUp(agent[a].tags.elements, e, {}) :
        Perform(a, [agent[a] EXCEPT !.tags = SetRemoveTag(@, e, tag)],
                [kind |-> "untag", tags |-> {tag}])

(* increment() and decrement() of a named counter *)
Count(a, c, side) ==
    LET s == agent[a]
        pn == LookUp(s.counters, c, NewPNCounter)
    IN Perform(a, [s EXCEPT !.counters =
                     Put(@, c, [pn EXCEPT ![side] = Increment(@, s.id, 1)])],
               [kind |-> "count", counter |-> c, side |-> side, id |-> s.id,
                by |-> a, number |-> ops + 1])

(* A full log drops the new message. *)
FirstOf(n, log) == SubSeq(log, 1, IF Len(log) > n THEN n ELSE Len(log))

LastOf(n, log) == SubSeq(log, IF Len(log) > n THEN Len(log) - n + 1 ELSE 1, Len(log))

(* The deque drops its first message when it is full. *)
AppendMessage(a) ==
    Perform(a, [agent[a] EXCEPT !.log = LastOf(agent[a].cap, Append(@, ops + 1))],
            [kind |-> "message", number |-> ops + 1])

(* Time passes for the token bucket. *)
Refill(a) ==
    /\ agent[a].limiter \notin {NoLimiter, Tokens[a]}
    /\ agent' = [agent EXCEPT ![a].limiter = @ + 1]
    /\ UNCHANGED <<saved, shared, ops, seen>>

-----------------------------------------------------------------------------
(* transaction(): a deep copy on entry, restored when the body raises.  The *)
(* copy fails when there is a rate limiter, whose lock cannot be copied.    *)

Begin(a) ==
    /\ saved[a] = {}
    /\ agent[a].limiter = NoLimiter
    /\ saved' = [saved EXCEPT ![a] = {[state |-> agent[a], seen |-> seen[a]]}]
    /\ UNCHANGED <<agent, shared, ops, seen>>

Commit(a) ==
    /\ saved[a] # {}
    /\ saved' = [saved EXCEPT ![a] = {}]
    /\ UNCHANGED <<agent, shared, ops, seen>>

Rollback(a) ==
    \E copy \in saved[a] :
        /\ agent' = [agent EXCEPT ![a] = copy.state]
        /\ seen' = [seen EXCEPT ![a] = copy.seen]
        /\ saved' = [saved EXCEPT ![a] = {}]
        /\ UNCHANGED <<shared, ops>>

-----------------------------------------------------------------------------
(* Exchange of states *)

(* "+".join(sorted({a, b})) *)
MergedId(a, b) ==
    IF a = b THEN a ELSE IF IdAbove(a, b) THEN b \o a ELSE a \o b

(* Both logs without the repetitions, in the order of time *)
MergeLogs(a, b, cap) == LastOf(cap, InOrder(ToSet(a) \cup ToSet(b)))

(* self.merge(other): key_provider and rate_limiter are not passed on. *)
MergeAgents(a, b) ==
    LET cap == IF a.cap >= b.cap THEN a.cap ELSE b.cap
    IN [id |-> MergedId(a.id, b.id),
        facts |-> MergeMap(a.facts, b.facts),
        tags |-> MergeSet(a.tags, b.tags),
        counters |-> [c \in DOMAIN a.counters \cup DOMAIN b.counters |->
                        MergePN(LookUp(a.counters, c, NewPNCounter),
                                LookUp(b.counters, c, NewPNCounter))],
        log |-> MergeLogs(a.log, b.log, cap),
        cap |-> cap,
        limiter |-> NoLimiter]

(* from_dict(to_dict(s)) *)
Reload(s) ==
    [s EXCEPT !.tags = ReloadSet(@), !.log = LastOf(DefaultCap, @),
              !.cap = DefaultCap, !.limiter = NoLimiter]

Share(a) ==
    /\ Cardinality(shared) < MaxShares
    /\ Careless \/ saved[a] = {}
    /\ shared' = shared \cup {[state |-> Reload(agent[a]), seen |-> seen[a]]}
    /\ UNCHANGED <<agent, saved, ops, seen>>

(* The result is a new object, which an open transaction does not cover. *)
Absorb(a, form) ==
    LET merged == MergeAgents(agent[a], form.state)
    IN /\ saved[a] = {}
       /\ Len(merged.id) <= MaxId
       /\ agent' = [agent EXCEPT ![a] = merged]
       /\ seen' = [seen EXCEPT ![a] = @ \cup form.seen]
       /\ UNCHANGED <<saved, shared, ops>>

Next ==
    \E a \in Agent :
        \/ \E k \in Key, t \in Time : AddFact(a, k, t) \/ DeleteFact(a, k, t)
        \/ \E e \in Element : AddTag(a, e) \/ RemoveTag(a, e) \/ RemoveOneTag(a, e)
        \/ \E c \in Counter, side \in {"pos", "neg"} : Count(a, c, side)
        \/ AppendMessage(a) \/ Refill(a)
        \/ Begin(a) \/ Commit(a) \/ Rollback(a)
        \/ Share(a) \/ \E form \in shared : Absorb(a, form)

Spec == Init /\ [][Next]_vars

-----------------------------------------------------------------------------
(* Properties *)

Seen(a, kind) == {op \in seen[a] : op.kind = kind}

(* Add wins, and a removed tag stays out: whatever the order of merges, the *)
(* tags of an element are those added in the causal past of the agent and   *)
(* removed nowhere in it.                                                   *)
TagsOfHistory ==
    \A a \in Agent, e \in Element :
        LookUp(agent[a].tags.elements, e, {})
          = {op.tag : op \in {add \in Seen(a, "tag") : add.element = e}}
              \ UNION {op.tags : op \in Seen(a, "untag")}

Later(v, w) == v.time > w.time \/ (v.time = w.time /\ IdAbove(v.id, w.id))

(* A fact is the latest write in the causal past, by timestamp and id, and  *)
(* is visible unless a deletion there is as late.                           *)
FactsOfHistory ==
    \A a \in Agent, k \in Key :
        LET writes == {op \in Seen(a, "set") : op.key = k}
            deletes == {op \in Seen(a, "delete") : op.key = k}
            last == {w \in writes : \A v \in writes \ {w} : Later(w, v)}
            live == {w \in last : \A d \in deletes : w.time > d.time}
            facts == agent[a].facts
        IN {w.value : w \in live} = IF IsLive(facts, k) THEN {facts.regs[k].value} ELSE {}

(* A slot of a counter never counts more than was counted under its id, and *)
(* counts all of it as long as one agent alone used the id.  Agents that    *)
(* merged with each other both go on under "a+b", and lose counts.          *)
CountersOfHistory ==
    \A a \in Agent, c \in Counter, side \in {"pos", "neg"} :
        LET slots == LookUp(agent[a].counters, c, NewPNCounter)[side]
            done(id) == {op \in Seen(a, "count") :
                            op.counter = c /\ op.side = side /\ op.id = id}
            users(id) == {op.by : op \in done(id)}
        IN \A id \in DOMAIN slots \cup {op.id : op \in Seen(a, "count")} :
             /\ LookUp(slots, id, 0) <= Cardinality(done(id))
             /\ Cardinality(users(id)) <= 1
                  => LookUp(slots, id, 0) = Cardinality(done(id))

(* Logs of different caps meet in merges and the deque drops its oldest:    *)
(* the newest messages of the causal past, as many as the smallest cap,     *)
(* are always there, in the order of time.                                  *)
LogKeepsNewest ==
    \A a \in Agent :
        LET past == {op.number : op \in Seen(a, "message")}
            caps == {Cap[b] : b \in Agent} \cup {DefaultCap}
        IN /\ \A m \in past :
             (\A c \in caps : Cardinality({n \in past : n > m}) < c)
                 => m \in ToSet(agent[a].log)
           /\ \A i, j \in DOMAIN agent[a].log :
                i < j => agent[a].log[i] < agent[a].log[j]

Knowledge(s) == <<s.facts, s.tags, s.counters>>

(* SharedKnowledge.merge folds merge() over its arguments: what it knows    *)
(* depends neither on their order nor on how they are grouped.              *)
SharedOrderFree ==
    LET M(s, t) == MergeAgents(s, t)
    IN \A a \in Agent, f, g \in shared :
         LET s == agent[a]
         IN /\ Knowledge(M(s, f.state)) = Knowledge(M(f.state, s))
            /\ Knowledge(M(M(s, f.state), g.state))
                 = Knowledge(M(s, M(f.state, g.state)))

=============================================================================
