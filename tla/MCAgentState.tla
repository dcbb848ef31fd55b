---------------------------- MODULE MCAgentState ----------------------------
(* Small instances of AgentState, and of what else agents and peers keep,   *)
(* for TLC.  The four share nothing: a behaviour is one of one of them.     *)
EXTENDS AgentState, ContextMemory, Epochs, KeyRegistry

TwoAgents == {1, 2}

(* Agent 1 has a log of one message and a rate limiter for one fact. *)
SmallCaps == [a \in Agent |-> a]

OneLimited == [a \in Agent |-> IF a = 1 THEN 1 ELSE NoLimiter]

(* Facts, tags, counters and log are merged side by side and never read     *)
(* each other: a behaviour works on one of them, which keeps them small.    *)
Part(kind) ==
    CASE kind \in {"set", "delete"} -> "facts"
      [] kind \in {"tag", "untag"} -> "tags"
      [] kind = "count" -> "counters"
      [] kind = "message" -> "log"

Past == UNION {seen[a] : a \in Agent}

(* Two agents count under one id and merge: the third state matters only    *)
(* for the counters.                                                        *)
OnePart ==
    /\ Cardinality({Part(op.kind) : op \in Past}) <= 1
    /\ Cardinality(shared) > 2 =>
         /\ \A a \in Agent : Len(agent[a].id) > 1 /\ saved[a] = {}
         /\ \A op \in Past : op.kind = "count" /\ op.side = "pos"

(* What an agent does inside a transaction nobody sees before it ends, so   *)
(* the others may as well wait; and one without operations does nothing.    *)
(* Nobody needs a token after the last operation, or the state of an agent  *)
(* that has seen none.                                                      *)
Undisturbed ==
    /\ ops = MaxOps => \A a \in Agent : saved[a] = {} => saved'[a] = {}
    /\ ops = MaxOps => \A a \in Agent : agent'[a].limiter \in {agent[a].limiter, NoLimiter}
    /\ \A form \in shared' : form.seen # {}
    /\ \A a \in Agent : saved[a] # {} =>
         /\ shared' = shared
         /\ \A b \in Agent \ {a} : agent'[b] = agent[b] /\ saved'[b] = saved[b]

AgentNext == Next /\ OnePart' /\ Undisturbed

(* Memories are merged, or archived as they were learned. *)
MergedOrArchived ==
    /\ \E a \in Thinker : archive'[a] # <<>>
    => /\ \A a \in Thinker : ToSet(held'[a]) = learned'[a]
       /\ \A m \in UNION {learned'[a] : a \in Thinker} : m.confidence < 3

ContextNext == MemoryNext /\ MergedOrArchived

SomeRetention == [p \in Manager |-> IF p = 1 THEN 1 ELSE 0]

MCInit == Init /\ MemoryInit /\ EpochInit /\ KeyInit

MCNext ==
    \/ MemoryInit /\ EpochInit /\ KeyInit /\ AgentNext
         /\ UNCHANGED <<memoryVars, epochVars, keyVars>>
    \/ Init /\ EpochInit /\ KeyInit /\ ContextNext /\ UNCHANGED <<vars, epochVars, keyVars>>
    \/ Init /\ MemoryInit /\ KeyInit /\ EpochNext /\ UNCHANGED <<vars, memoryVars, keyVars>>
    \/ Init /\ MemoryInit /\ EpochInit /\ KeyNext /\ UNCHANGED <<vars, memoryVars, epochVars>>

MCSpec == MCInit /\ [][MCNext]_<<vars, memoryVars, epochVars, keyVars>>

=============================================================================
