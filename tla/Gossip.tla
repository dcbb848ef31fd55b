------------------------------- MODULE Gossip -------------------------------
(***************************************************************************)
(* Digest-based anti-entropy between the GossipState replicas of           *)
(* crdt_merge/gossip.py.                                                   *)
(*                                                                         *)
(* A store is the set of its GossipEntry records, at most one per key.     *)
(* The digest of an entry hashes its value, clock and tombstone flag, so a *)
(* digest {key: hash} is modelled by the set of entries it was taken from. *)
(* The repository leaves the transport to the caller: net holds the        *)
(* messages in flight, which may be delivered in any order, lost, or       *)
(* delivered again.                                                        *)
(*                                                                         *)
(* seen and replayed are history variables: seen[n] is every entry that    *)
(* was written at n or handed to apply_entries at n, replayed the keys     *)
(* that some update() was given an external clock for.                     *)
(***************************************************************************)
EXTENDS Clocks, FiniteSets

CONSTANTS
    Key,
    Value,        \* payloads, integers in the order of str(value)
    NoValue,      \* None, the payload of a tombstone of an unknown key
    Writers,      \* [Key -> SUBSET Node]: the nodes whose users write a key
    MaxCount,     \* bound: local events of one node
    MaxInFlight   \* bound: messages in flight

ASSUME ConstantsAssumption ==
    /\ Writers \in [Key -> SUBSET Node]
    /\ MaxCount \in Nat
    /\ MaxInFlight \in Nat

VARIABLES
    store,   \* store[n]: GossipState._entries of node n
    clock,   \* clock[n]: GossipState._clock of node n
    net,     \* messages in flight
    seen,    \* seen[n]: entries written at or handed to node n
    replayed \* keys written with update(key, value, clock)

vars == <<store, clock, net, seen, replayed>>

Entry == [key: Key, value: Value \cup {NoValue}, clock: Clock,
          tombstone: BOOLEAN]

Message ==
    [type: {"digest", "entries"}, from: Node, to: Node, body: SUBSET Entry]
        \cup [type: {"pull"}, from: Node, to: Node, body: SUBSET Key]

OnePerKey(S) == \A e, f \in S : e.key = f.key => e = f

(* The state keeps its type; a store, a digest and a batch of entries have  *)
(* one entry per key.                                                       *)
TypeOK ==
    /\ store \in [Node -> SUBSET Entry]
    /\ \A n \in Node : OnePerKey(store[n])
    /\ clock \in [Node -> Clock]
    /\ net \subseteq Message
    /\ \A m \in net : m.type # "pull" => OnePerKey(m.body)
    /\ seen \in [Node -> SUBSET Entry]
    /\ replayed \subseteq Key

Init ==
    /\ store = [n \in Node |-> {}]
    /\ clock = [n \in Node |-> ZeroClock]
    /\ net = {}
    /\ seen = [n \in Node |-> {}]
    /\ replayed = {}

-----------------------------------------------------------------------------
(* Conflict resolution *)

(* The last arrival wins, whatever its clock is. *)
ShouldUpdateLastArrival(old, new) == old # new

(* GossipState._should_update *)
ShouldUpdate(old, new) ==
    Before(old, new) \/ (Concurrent(old, new) /\ StringAbove(new, old))

(* The entries of S that hold the key of e let e in. *)
Accepts(S, e) == \A f \in S : f.key = e.key => ShouldUpdate(f.clock, e.clock)

(* An entry is added beside the one it should replace. *)
PutBeside(S, B) == S \cup B

(* S after the entries of B, with distinct keys, have been stored in it *)
Put(S, B) == {f \in S : \A e \in B : e.key # f.key} \cup B

(* c is the merge of base with the clocks of the entries in B. *)
IsJoinOf(c, base, B) ==
    \A i \in Node :
        /\ c[i] >= base[i]
        /\ \A e \in B : c[i] >= e.clock[i]
        /\ c[i] = base[i] \/ \E e \in B : c[i] = e.clock[i]

BoundedClock == [Node -> 0 .. MaxCount]

-----------------------------------------------------------------------------
(* Local operations *)

CanTick(n) == clock[n][n] < MaxCount

(* The write forgets to tick the node clock. *)
LocalTickMissing(n) == clock[n]

(* Both mutations start with self._clock.increment(self._node_id). *)
LocalTick(n) == Tick(clock[n], n)

(* The incremented clock goes into the entry but is not kept by the node. *)
WriteEntryClockLost(n, e, c, accepted) ==
    /\ clock' = clock
    /\ store' = [store EXCEPT ![n] = IF accepted THEN Put(@, {e}) ELSE @]
    /\ seen' = [seen EXCEPT ![n] = @ \cup {e}]
    /\ UNCHANGED net

(* The node clock is advanced to c, the entry e is stored under guard. *)
WriteEntry(n, e, c, accepted) ==
    /\ clock' = [clock EXCEPT ![n] = c]
    /\ store' = [store EXCEPT ![n] = IF accepted THEN Put(@, {e}) ELSE @]
    /\ seen' = [seen EXCEPT ![n] = @ \cup {e}]
    /\ UNCHANGED net

(* GossipState.update(key, value) without an external clock *)
Update(n, k, v) ==
    LET c == LocalTick(n)
        e == [key |-> k, value |-> v, clock |-> c, tombstone |-> FALSE]
    IN  /\ CanTick(n)
        /\ n \in Writers[k]
        /\ WriteEntry(n, e, c, Accepts(store[n], e))
        /\ UNCHANGED replayed

(* GossipState.update(key, value, clock), the replay of a remote event: the *)
(* entry x of a message on its way to n is written again under the clock of *)
(* x, which goes into the new entry and not into the clock of the node.     *)
UpdateReplay(n) ==
    /\ CanTick(n)
    /\ \E m \in net :
         /\ m.type = "entries" /\ m.to = n
         /\ \E x \in m.body :
              /\ ~x.tombstone
              /\ n \in Writers[x.key]
              /\ LET c == LocalTick(n)
                     e == [x EXCEPT !.clock = Join(x.clock, c)]
                 IN  WriteEntry(n, e, c, Accepts(store[n], e))
              /\ replayed' = replayed \cup {x.key}

(* GossipState.delete: a tombstone with the value that was there, stored   *)
(* whatever the clock of the existing entry is                             *)
Delete(n, k) ==
    LET c == LocalTick(n)
        old == {f \in store[n] : f.key = k}
    IN  /\ CanTick(n)
        /\ n \in Writers[k]
        /\ \E v \in Value \cup {NoValue} :
             /\ IF old = {} THEN v = NoValue ELSE \E f \in old : v = f.value
             /\ WriteEntry(n, [key |-> k, value |-> v, clock |-> c,
                               tombstone |-> TRUE], c, TRUE)
        /\ UNCHANGED replayed

-----------------------------------------------------------------------------
(* Anti-entropy over the network *)

(* The node stores entries without learning their clocks. *)
ApplyEntriesUnlearned(n, B) ==
    /\ store' = [store EXCEPT ![n] = Put(@, {e \in B : Accepts(store[n], e)})]
    /\ clock' = clock
    /\ seen' = [seen EXCEPT ![n] = @ \cup B]

(* The entries are stored under the clock of the node. *)
ApplyEntriesStamped(n, B) ==
    LET accepted == {e \in B : Accepts(store[n], e)}
    IN  \E c \in BoundedClock :
          /\ IsJoinOf(c, clock[n], accepted)
          /\ clock' = [clock EXCEPT ![n] = c]
          /\ store' = [store EXCEPT ![n] =
                         Put(@, {[e EXCEPT !.clock = c] : e \in accepted})]
          /\ seen' = [seen EXCEPT ![n] = @ \cup B]

(* GossipState.apply_entries: the accepted entries replace those of their  *)
(* keys and their clocks are merged into the clock of the node.            *)
ApplyEntries(n, B) ==
    LET accepted == {e \in B : Accepts(store[n], e)}
    IN  /\ store' = [store EXCEPT ![n] = Put(@, accepted)]
        /\ \E c \in BoundedClock :
             /\ IsJoinOf(c, clock[n], accepted)
             /\ clock' = [clock EXCEPT ![n] = c]
        /\ seen' = [seen EXCEPT ![n] = @ \cup B]

(* GossipState.anti_entropy_push: the keys that the remote lacks or has a  *)
(* different hash for, as the entries that get_entries returns for them    *)
PushSet(n, digest) == store[n] \ digest

(* GossipState.anti_entropy_pull *)
PullSet(n, digest) == {e.key : e \in digest \ store[n]}

Msg(t, n, m, b) == [type |-> t, from |-> n, to |-> m, body |-> b]

(* Messages replace those in rest; empty answers are not sent. *)
Send(rest, new) ==
    LET sent == {m \in new : m.body # {} \/ m.type = "digest"}
    IN  /\ Cardinality(rest \cup sent) <= MaxInFlight
        /\ net' = rest \cup sent

SendDigest(n, m) ==
    /\ n # m
    /\ Send(net, {Msg("digest", n, m, store[n])})
    /\ UNCHANGED <<store, clock, seen, replayed>>

(* anti_entropy_push_pull answers a digest with the entries to push and    *)
(* the keys to pull.                                                       *)
ReceiveDigest(m, rest) ==
    /\ m.type = "digest"
    /\ Send(rest, {Msg("entries", m.to, m.from, PushSet(m.to, m.body)),
                   Msg("pull", m.to, m.from, PullSet(m.to, m.body))})
    /\ UNCHANGED <<store, clock, seen, replayed>>

(* get_entries skips the keys it does not know. *)
ReceivePull(m, rest) ==
    /\ m.type = "pull"
    /\ Send(rest, {Msg("entries", m.to, m.from,
                       {e \in store[m.to] : e.key \in m.body})})
    /\ UNCHANGED <<store, clock, seen, replayed>>

ReceiveEntries(m, rest) ==
    /\ m.type = "entries"
    /\ ApplyEntries(m.to, m.body)
    /\ net' = rest
    /\ UNCHANGED replayed

(* A delivery removes the message or leaves it for another delivery. *)
Receive(m) ==
    \E rest \in {net, net \ {m}} :
        \/ ReceiveDigest(m, rest)
        \/ ReceivePull(m, rest)
        \/ ReceiveEntries(m, rest)

Lose(m) ==
    /\ net' = net \ {m}
    /\ UNCHANGED <<store, clock, seen, replayed>>

-----------------------------------------------------------------------------
Write ==
    \E n \in Node :
        \/ \E k \in Key, v \in Value : Update(n, k, v)
        \/ UpdateReplay(n)
        \/ \E k \in Key : Delete(n, k)

Exchange ==
    \/ \E n, m \in Node : SendDigest(n, m)
    \/ \E m \in net : Receive(m) \/ Lose(m)

Next == Write \/ Exchange

Spec == Init /\ [][Next]_vars

-----------------------------------------------------------------------------
(***************************************************************************)
(* The pairwise synchronisation of the repository's tests and guide, as    *)
(* one step: a compares its digest with b's, b applies the entries a       *)
(* pushes, then a applies the entries it pulls from b.                     *)
(***************************************************************************)
SyncPair(a, b) ==
    LET pushed == {e \in PushSet(a, store[b]) : Accepts(store[b], e)}
        storeB == Put(store[b], pushed)
        pulled == {e \in storeB : e.key \in PullSet(a, store[b])}
        taken == {e \in pulled : Accepts(store[a], e)}
    IN  /\ a # b
        /\ \E cb \in BoundedClock :
             /\ IsJoinOf(cb, clock[b], pushed)
             /\ \E ca \in BoundedClock :
                  /\ IsJoinOf(ca, clock[a], taken)
                  /\ clock' = [clock EXCEPT ![a] = ca, ![b] = cb]
        /\ store' = [store EXCEPT ![a] = Put(@, taken), ![b] = storeB]
        /\ seen' = [seen EXCEPT ![a] = @ \cup pulled,
                                ![b] = @ \cup PushSet(a, store[b])]
        /\ UNCHANGED <<net, replayed>>

SyncNext == Write \/ \E a, b \in Node : SyncPair(a, b)

(* The caller keeps synchronising every pair of nodes. *)
SyncSpec ==
    /\ Init
    /\ [][SyncNext]_vars
    /\ \A a, b \in Node : WF_vars(SyncPair(a, b))

-----------------------------------------------------------------------------
(* Properties *)

(* Every entry that was ever written *)
Entries == UNION {seen[n] : n \in Node}

InFlight == UNION {m.body : m \in {x \in net : x.type # "pull"}}

Held(n, k) == {e \in store[n] : e.key = k}

History(n, k) == {e \in seen[n] : e.key = k}

(* Nothing is made up on the way: a node stores only what was written at it *)
(* or handed to it, and messages carry only what was written.               *)
NothingInvented ==
    /\ \A n \in Node : store[n] \subseteq seen[n]
    /\ InFlight \subseteq Entries

(* No node and no entry, wherever it is, knows an event of node i that i    *)
(* has not ticked: digests, batches and retries never invent a clock value. *)
ClockSound ==
    \A i \in Node :
        /\ \A n \in Node : clock[n][i] <= clock[i][i]
        /\ \A e \in Entries : e.clock[i] <= clock[i][i]

(* The clock of a node covers the clock of every entry it stores, so its    *)
(* next local write is causally after all of them.  Not so for replayed     *)
(* keys: update(clock=...) does not merge the clock into the node clock.    *)
StoreWithinClock ==
    \A n \in Node : \A e \in store[n] :
        e.key \notin replayed => Leq(e.clock, clock[n])

(* Two entries of a key with equal clocks are the same entry, in any        *)
(* stores and messages: the EQUAL case of _should_update, which drops the   *)
(* newcomer, never drops something new.                                     *)
SameClockSameEntry ==
    \A e, f \in Entries : e.key = f.key /\ e.clock = f.clock => e = f

(* Only one node writes the key. *)
SingleWriter(k) == \E w \in Node : Writers[k] = {w}

(* Of a key with one writer, nothing that a node stores is causally older   *)
(* than something it was handed before, along any chain of replacements and *)
(* whatever the nodes write under other keys.  Two writers of a key lose    *)
(* newer entries to the string tiebreak of _should_update.                  *)
NoCausalLoss ==
    \A n \in Node, k \in Key : SingleWriter(k) =>
        \A e \in Held(n, k), s \in History(n, k) : ~Before(e.clock, s.clock)

(* Two nodes that were handed the same entries of a key with one writer, in *)
(* whatever order and how often, hold the same entry of it.                 *)
OwnedKeyConvergence ==
    \A n, m \in Node, k \in Key : SingleWriter(k) =>
        (History(n, k) = History(m, k) => Held(n, k) = Held(m, k))

(* "All nodes converge to the same value regardless of message order": the  *)
(* same of every key, as the docstring of _should_update has it.            *)
KeyConvergence ==
    \A n, m \in Node, k \in Key \ replayed :
        History(n, k) = History(m, k) => Held(n, k) = Held(m, k)

(* The entry that a local write leaves under a key is one that every node   *)
(* with the replaced entry will accept: updates and deletions propagate.    *)
LocalWriteAccepted(k) ==
    \A n \in Node :
        Delete(n, k) \/ (\E v \in Value : Update(n, k, v)) =>
            \A e \in Held(n, k), f \in Held(n, k)' :
                ShouldUpdate(e.clock, f.clock)

(* So it is as long as nobody has replayed the key under an external clock. *)
LocalWritePropagates ==
    [][\A k \in Key \ replayed : LocalWriteAccepted(k)]_vars

(* "The deletion propagates to other nodes", with update(clock=...) too     *)
AnyWritePropagates == [][\A k \in Key : LocalWriteAccepted(k)]_vars

(* Once the users stop writing, pairwise synchronisation brings all stores  *)
(* to the same entries for good.                                            *)
EventuallyEqual == <>[](\A n, m \in Node : store[n] = store[m])

=============================================================================
