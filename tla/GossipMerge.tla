---------------------------- MODULE GossipMerge ----------------------------
(***************************************************************************)
(* Whole-state merge of GossipState replicas, the other way in which       *)
(* crdt_merge/gossip.py synchronises: node n replaces its state by         *)
(* state_n.merge(state_m).  Unlike anti-entropy, merge() picks a value by  *)
(* its content and joins the clocks.  A node may be saved to a file, as    *)
(* the commands of cli/cmd_gossip.py do, and start again from it: it then  *)
(* has an older clock, and gives a count to a second write.  The nodes may *)
(* run anti-entropy and replay remote events in between.                   *)
(*                                                                         *)
(* Entries that differ only in values of one text, as 1 and "1", have one  *)
(* digest in the code and two here: with equal clocks they are sent in     *)
(* vain, as _should_update refuses them.                                   *)
(***************************************************************************)
EXTENDS Gossip

CONSTANTS
    Text,                   \* Text[v]: the place of str(v) in the string order
    MaxFiles, MaxRestarts   \* bounds

ASSUME FilesAssumption == MaxFiles \in Nat /\ MaxRestarts \in Nat

ASSUME ContentAssumption == Text \in [Value \cup {NoValue} -> Int]

VARIABLES
    files,      \* to_dict forms that were saved
    restarts    \* nodes that were read from a file so far

mergeVars == <<vars, files, restarts>>

(***************************************************************************)
(* _deterministic_entry_key(a) >= _deterministic_entry_key(b), on the pair *)
(* (str(value), tombstone).  Values of one text tie.                       *)
(***************************************************************************)
ContentAtLeast(a, b) ==
    \/ Text[a.value] > Text[b.value]
    \/ Text[a.value] = Text[b.value] /\ (a.tombstone \/ ~b.tombstone)

(* The receiver keeps its own content. *)
MergeEntryKeepLeft(a, b) == [a EXCEPT !.clock = Join(a.clock, b.clock)]

(* The clock is the clock of the winner. *)
MergeEntryWinnerClock(a, b) == IF ContentAtLeast(a, b) THEN a ELSE b

MergeEntry(a, b) ==
    [(IF ContentAtLeast(a, b) THEN a ELSE b)
        EXCEPT !.clock = Join(a.clock, b.clock)]

(* The entries of GossipState.merge *)
MergeStores(S, T) ==
    {MergeEntry(p[1], p[2]) : p \in {q \in S \X T : q[1].key = q[2].key}}
        \cup {e \in S : \A f \in T : f.key # e.key}
        \cup {f \in T : \A e \in S : e.key # f.key}

(* state_n = state_n.merge(state_m) *)
Merge(n, m) ==
    /\ n # m
    /\ store' = [store EXCEPT ![n] = MergeStores(@, store[m])]
    /\ clock' = [clock EXCEPT ![n] = Join(@, clock[m])]
    /\ seen' = [seen EXCEPT ![n] = @ \cup seen[m]]
    /\ UNCHANGED <<net, replayed>>

(* to_dict *)
Save(n) ==
    /\ Cardinality(files) < MaxFiles
    /\ files' = files \cup {[node |-> n, entries |-> store[n], clock |-> clock[n]]}
    /\ UNCHANGED <<vars, restarts>>

(* from_dict, in place of the node that saved the file *)
Restart(file) ==
    /\ restarts < MaxRestarts
    /\ restarts' = restarts + 1
    /\ store' = [store EXCEPT ![file.node] = file.entries]
    /\ clock' = [clock EXCEPT ![file.node] = file.clock]
    /\ seen' = [seen EXCEPT ![file.node] = file.entries]
    /\ UNCHANGED <<net, replayed, files>>

MergeInit == Init /\ files = {} /\ restarts = 0

MergeNext ==
    \/ /\ Write \/ Exchange \/ \E n, m \in Node : Merge(n, m)
       /\ UNCHANGED <<files, restarts>>
    \/ \E n \in Node : Save(n)
    \/ \E file \in files : Restart(file)

MergeSpec == MergeInit /\ [][MergeNext]_mergeVars

-----------------------------------------------------------------------------
(* Properties *)

(* The states that merge can be given: those of the nodes and of the files  *)
Stores == {store[n] : n \in Node} \cup {file.entries : file \in files}

(* The entries of S as their texts show them *)
Printed(S) == {[e EXCEPT !.value = Text[@]] : e \in S}

(* The two entries sort alike but hold different values. *)
Tied(e, f) ==
    /\ e.key = f.key /\ e.tombstone = f.tombstone
    /\ Text[e.value] = Text[f.value] /\ e.value # f.value

(* Of two tied entries each side keeps its own. *)
MergeCommutes(S, T) ==
    /\ Printed(MergeStores(S, T)) = Printed(MergeStores(T, S))
    /\ MergeStores(S, T) = MergeStores(T, S) <=> ~\E e \in S, f \in T : Tied(e, f)

(* "Commutative, associative, idempotent": the laws of merge on the states  *)
(* that the nodes can reach, also where a restart gave two writes of a node *)
(* one clock.  Commutative they are as far as str(value) tells: exactly the *)
(* ties of different values, as of 1 and "1", depend on the receiver.       *)
MergeLaws ==
    \A S, T, U \in Stores :
        /\ MergeStores(S, S) = S
        /\ MergeCommutes(S, T)
        /\ MergeStores(MergeStores(S, T), U) = MergeStores(S, MergeStores(T, U))

(* merge never moves the clock of a stored entry back, and the node clock   *)
(* stays above all of them, replayed keys apart: the next local write still *)
(* dominates.                                                               *)
MergeAdvances ==
    [][\A n, m \in Node : Merge(n, m) =>
         /\ \A e \in store[n] : \E f \in store'[n] :
              f.key = e.key /\ Leq(e.clock, f.clock)
         /\ \A f \in store'[n] :
              f.key \notin replayed => Leq(f.clock, clock'[n])]_mergeVars

=============================================================================
