---------------------------- MODULE GossipProofs ----------------------------
(***************************************************************************)
(* Proofs about Gossip, for any number of nodes, keys, values and writes,  *)
(* any writers, and any loss, repetition and reordering of messages; about *)
(* the whole-state merge of GossipMerge; and, in the last part, about      *)
(* Gossip when every key has exactly one writer.                           *)
(***************************************************************************)
EXTENDS GossipMerge, GossipOwned, TLAPS

(* The inductive invariant *)
SoundInv ==
    /\ TypeOK
    /\ NothingInvented
    /\ ClockSound
    /\ StoreWithinClock
    /\ SameClockSameEntry

-----------------------------------------------------------------------------
(* Clocks *)

LEMMA TickFacts ==
    ASSUME NEW c \in Clock, NEW n \in Node
    PROVE  /\ Tick(c, n) \in Clock
           /\ Tick(c, n)[n] = c[n] + 1
           /\ \A i \in Node : i # n => Tick(c, n)[i] = c[i]
           /\ Leq(c, Tick(c, n))
BY DEF Clock, Tick, Leq

LEMMA JoinFacts ==
    ASSUME NEW c \in Clock, NEW d \in Clock
    PROVE  /\ Join(c, d) \in Clock
           /\ \A i \in Node : /\ Join(c, d)[i] >= c[i] /\ Join(c, d)[i] >= d[i]
                              /\ Join(c, d)[i] \in {c[i], d[i]}
BY DEF Clock, Join, Higher

LEMMA LeqTransitive ==
    ASSUME NEW c \in Clock, NEW d \in Clock, NEW e \in Clock, Leq(c, d), Leq(d, e)
    PROVE  Leq(c, e)
<1>1. \A n \in Node : c[n] \in Nat /\ d[n] \in Nat /\ e[n] \in Nat
  BY DEF Clock
<1>2. \A n \in Node : c[n] <= d[n] /\ d[n] <= e[n]
  BY DEF Leq
<1>3. \A n \in Node : c[n] <= e[n]
  <2> TAKE n \in Node
  <2>1. c[n] <= d[n] /\ d[n] <= e[n]
    BY <1>2
  <2> QED  BY <1>1, <2>1
<1> QED  BY <1>3 DEF Leq

LEMMA LeqAntisymmetric ==
    ASSUME NEW c \in Clock, NEW d \in Clock, Leq(c, d), Leq(d, c)
    PROVE  c = d
BY DEF Clock, Leq

-----------------------------------------------------------------------------
(* The stores *)

LEMMA PutOnePerKey ==
    ASSUME NEW S, NEW B, OnePerKey(S), OnePerKey(B)
    PROVE  OnePerKey(Put(S, B))
BY DEF OnePerKey, Put

(* What every step of the network keeps *)
LEMMA SendFacts ==
    ASSUME NEW rest, rest \subseteq net, NEW new, Send(rest, new)
    PROVE  \A m \in net' : m \in net \/ m \in new
BY DEF Send

LEMMA MsgFacts ==
    ASSUME NEW t \in {"digest", "entries"}, NEW n \in Node, NEW m \in Node,
           NEW b \in SUBSET Entry, OnePerKey(b)
    PROVE  /\ Msg(t, n, m, b) \in Message
           /\ Msg(t, n, m, b).type # "pull"
           /\ Msg(t, n, m, b).body = b
BY DEF Msg, Message

LEMMA PullMsgFacts ==
    ASSUME NEW n \in Node, NEW m \in Node, NEW b \in SUBSET Key
    PROVE  /\ Msg("pull", n, m, b) \in Message
           /\ Msg("pull", n, m, b).type = "pull"
BY DEF Msg, Message

(* A message that carries entries carries entries of nodes. *)
LEMMA MessageFacts ==
    ASSUME NEW m \in Message
    PROVE  /\ m.from \in Node /\ m.to \in Node
           /\ m.type \in {"digest", "entries", "pull"}
           /\ m.type # "pull" => m.body \in SUBSET Entry
           /\ m.type = "pull" => m.body \in SUBSET Key
BY DEF Message

(***************************************************************************)
(* A local write: node n ticks its clock and makes the entry e.  A replay   *)
(* joins the clock of an entry x of the key to it: one of X, known or on    *)
(* its way.                                                                 *)
(***************************************************************************)
Replays(n, e, x) ==
    /\ x.key = e.key
    /\ e.key \in replayed'
    /\ e.clock = Join(x.clock, Tick(clock[n], n))

WritesOn(X, n, e) ==
    /\ n \in Writers[e.key]
    /\ clock' = [clock EXCEPT ![n] = Tick(clock[n], n)]
    /\ store' \in {store, [store EXCEPT ![n] = Put(store[n], {e})]}
    /\ Accepts(store[n], e) => store' = [store EXCEPT ![n] = Put(store[n], {e})]
    /\ seen' = [seen EXCEPT ![n] = seen[n] \cup {e}]
    /\ net' = net
    /\ replayed \subseteq replayed' /\ replayed' \subseteq Key
    /\ \/ e.clock = Tick(clock[n], n)
       \/ \E x \in X : Replays(n, e, x)

Writes(n, e) == WritesOn(Entries, n, e)

LEMMA KnownEntry ==
    ASSUME SoundInv, NEW e \in Entries
    PROVE  e \in Entry /\ \A i \in Node : e.clock[i] <= clock[i][i]
BY DEF SoundInv, TypeOK, ClockSound, Entries

(* The clock of the new entry has the new event of n and no other new one.  *)
LEMMA WriteClock ==
    ASSUME SoundInv, NEW n \in Node, NEW e \in Entry, Writes(n, e)
    PROVE  /\ e.clock[n] = clock[n][n] + 1
           /\ \A i \in Node : i # n => e.clock[i] <= clock[i][i]
<1> DEFINE c == Tick(clock[n], n)
<1>1. clock[n] \in Clock
  BY DEF SoundInv, TypeOK
<1>2. /\ c \in Clock /\ c[n] = clock[n][n] + 1
      /\ \A i \in Node : i # n => c[i] = clock[n][i]
  BY <1>1, TickFacts
<1>3. \A i \in Node : i # n => c[i] <= clock[i][i]
  BY <1>2 DEF SoundInv, ClockSound
<1>4. CASE e.clock = c
  BY <1>2, <1>3, <1>4
<1>5. ASSUME NEW x \in Entries, e.clock = Join(x.clock, c)
      PROVE  /\ e.clock[n] = clock[n][n] + 1
             /\ \A i \in Node : i # n => e.clock[i] <= clock[i][i]
  <2>1. x.clock \in Clock /\ \A i \in Node : x.clock[i] <= clock[i][i]
    BY KnownEntry DEF Entry
  <2> HIDE DEF c
  <2>2. \A i \in Node : e.clock[i] >= c[i] /\ e.clock[i] \in {x.clock[i], c[i]}
    BY <1>2, <1>5, <2>1, JoinFacts
  <2>3. clock[n][n] \in Nat /\ x.clock[n] \in Nat
    BY <1>1, <2>1 DEF Clock
  <2>4. e.clock[n] = clock[n][n] + 1
    BY <1>2, <2>1, <2>2, <2>3
  <2> QED  BY <1>3, <2>1, <2>2, <2>4
<1> QED  BY <1>4, <1>5 DEF Writes, WritesOn, Replays

(* A write keeps the types, and the store of its node within the clock.     *)
LEMMA WriteKeeps ==
    ASSUME TypeOK, StoreWithinClock, NEW X, NEW n \in Node, NEW e \in Entry,
           WritesOn(X, n, e)
    PROVE  TypeOK' /\ StoreWithinClock'
<1> DEFINE c == Tick(clock[n], n)
<1>0. /\ clock \in [Node -> Clock] /\ c \in Clock /\ Leq(clock[n], c)
  BY TickFacts DEF TypeOK
<1>1. /\ clock' = [clock EXCEPT ![n] = c]
      /\ net' = net
      /\ seen' = [seen EXCEPT ![n] = seen[n] \cup {e}]
      /\ \/ store' = [store EXCEPT ![n] = Put(store[n], {e})]
         \/ store' = store
      /\ e.clock = c \/ e.key \in replayed'
      /\ replayed \subseteq replayed' /\ replayed' \subseteq Key
  BY DEF WritesOn, Replays
<1> HIDE DEF c
<1>2. \A m \in Node :
        /\ clock'[m] = IF m = n THEN c ELSE clock[m]
        /\ store'[m] = store[m] \/ (m = n /\ store'[m] = Put(store[m], {e}))
  <2>1. \A m \in Node : clock'[m] = IF m = n THEN c ELSE clock[m]
    BY <1>0, <1>1
  <2>2. \A m \in Node :
          store'[m] = store[m] \/ (m = n /\ store'[m] = Put(store[m], {e}))
    BY <1>1 DEF TypeOK
  <2> QED  BY <2>1, <2>2
<1>3. TypeOK'
  <2>1. \A m \in Node : OnePerKey(store'[m])
    <3>1. OnePerKey({e})
      BY DEF OnePerKey
    <3> QED  BY <1>2, <3>1, PutOnePerKey DEF TypeOK
  <2>2. Put(store[n], {e}) \subseteq Entry
    BY DEF TypeOK, Put
  <2> QED  BY <1>0, <1>1, <2>1, <2>2 DEF TypeOK
<1>4. StoreWithinClock'
  <2> SUFFICES ASSUME NEW m \in Node, NEW f \in store'[m], f.key \notin replayed'
               PROVE  Leq(f.clock, clock'[m])
    BY DEF StoreWithinClock
  <2>0. f.key \notin replayed
    BY <1>1
  <2>1. CASE f \in store[m]
    <3>1. f.clock \in Clock /\ Leq(f.clock, clock[m])
      BY <2>0, <2>1 DEF StoreWithinClock, TypeOK, Entry
    <3> QED  BY <1>0, <1>2, <3>1, LeqTransitive
  <2>2. CASE f = e /\ m = n
    BY <1>0, <1>1, <1>2, <2>2 DEF Leq, Clock
  <2> QED  BY <1>2, <2>1, <2>2 DEF Put
<1> QED  BY <1>3, <1>4

LEMMA WriteSound ==
    ASSUME SoundInv, NEW n \in Node, NEW e \in Entry, Writes(n, e)
    PROVE  SoundInv'
<1> DEFINE c == Tick(clock[n], n)
<1>0. /\ TypeOK /\ clock \in [Node -> Clock] /\ c \in Clock
      /\ c[n] = clock[n][n] + 1 /\ \A i \in Node : i # n => c[i] = clock[i][i] \/ c[i] = clock[n][i]
      /\ Leq(clock[n], c)
  BY TickFacts DEF SoundInv, TypeOK
<1>1. /\ clock' = [clock EXCEPT ![n] = c]
      /\ net' = net
      /\ seen' = [seen EXCEPT ![n] = seen[n] \cup {e}]
      /\ \/ store' = [store EXCEPT ![n] = Put(store[n], {e})]
         \/ store' = store
      /\ e.clock = c \/ e.key \in replayed'
      /\ replayed \subseteq replayed' /\ replayed' \subseteq Key
      /\ e.clock[n] = clock[n][n] + 1
      /\ \A i \in Node : i # n => e.clock[i] <= clock[i][i]
  BY WriteClock DEF Writes, WritesOn, Replays
<1> HIDE DEF c
<1>2. \A m \in Node :
        /\ clock'[m] = IF m = n THEN c ELSE clock[m]
        /\ seen'[m] = IF m = n THEN seen[n] \cup {e} ELSE seen[m]
        /\ store'[m] = store[m] \/ (m = n /\ store'[m] = Put(store[m], {e}))
  <2>1. \A m \in Node : clock'[m] = IF m = n THEN c ELSE clock[m]
    BY <1>0, <1>1
  <2>2. \A m \in Node : seen'[m] = IF m = n THEN seen[n] \cup {e} ELSE seen[m]
    BY <1>0, <1>1 DEF TypeOK
  <2>3. \A m \in Node :
          store'[m] = store[m] \/ (m = n /\ store'[m] = Put(store[m], {e}))
    BY <1>0, <1>1 DEF TypeOK
  <2> QED  BY <2>1, <2>2, <2>3
<1>3. Entries' = Entries \cup {e}
  BY <1>2 DEF Entries
<1>4. \A f \in Entries : f \in Entry
  BY <1>0 DEF TypeOK, Entries
<1>5. TypeOK' /\ StoreWithinClock'
  BY WriteKeeps DEF SoundInv, Writes
<1>6. NothingInvented'
  BY <1>1, <1>2, <1>3 DEF SoundInv, NothingInvented, Put, InFlight
<1>7. ClockSound'
  <2>1. \A i \in Node : clock[i][i] <= clock'[i][i] /\ clock[i][i] \in Nat /\ clock'[i][i] \in Nat
    BY <1>0, <1>2 DEF Clock, Leq
  <2>2. \A i, m \in Node : clock'[m][i] <= clock'[i][i]
    <3> SUFFICES ASSUME NEW i \in Node, NEW m \in Node
                 PROVE  clock'[m][i] <= clock'[i][i]
      OBVIOUS
    <3>1. clock[m][i] <= clock[i][i] /\ clock[m][i] \in Nat /\ clock[n][i] <= clock[i][i]
          /\ clock[n][i] \in Nat
      BY <1>0 DEF SoundInv, ClockSound, Clock
    <3>2. CASE m # n
      BY <1>2, <2>1, <3>1, <3>2
    <3>3. CASE m = n /\ i # n
      BY <1>0, <1>2, <2>1, <3>1, <3>3
    <3>4. CASE m = n /\ i = n
      BY <2>1, <3>4
    <3> QED  BY <3>2, <3>3, <3>4
  <2>3. \A i \in Node : \A f \in Entries' : f.clock[i] <= clock'[i][i]
    <3> SUFFICES ASSUME NEW i \in Node, NEW f \in Entries'
                 PROVE  f.clock[i] <= clock'[i][i]
      OBVIOUS
    <3>1. CASE f \in Entries
      <4>1. f.clock[i] <= clock[i][i] /\ f.clock[i] \in Nat
        BY <1>4, <3>1 DEF SoundInv, ClockSound, Entry, Clock
      <4> QED  BY <2>1, <4>1
    <3>2. CASE f = e
      <4>1. e.clock[i] \in Nat
        BY DEF Entry, Clock
      <4>2. CASE i = n
        BY <1>0, <1>1, <1>2, <2>1, <3>2, <4>1, <4>2
      <4>3. CASE i # n
        BY <1>1, <2>1, <3>2, <4>1, <4>3
      <4> QED  BY <4>2, <4>3
    <3> QED  BY <1>3, <3>1, <3>2
  <2> QED  BY <2>2, <2>3 DEF ClockSound
<1>8. SameClockSameEntry'
  <2>1. \A f \in Entries : f.clock # e.clock
    BY <1>0, <1>1, <1>4 DEF SoundInv, ClockSound, Entry, Clock
  <2> QED  BY <1>3, <2>1 DEF SoundInv, SameClockSameEntry
<1> QED  BY <1>5, <1>6, <1>7, <1>8 DEF SoundInv

(***************************************************************************)
(* Every node m takes in a batch B[m] of known entries: apply_entries at   *)
(* one node, a synchronisation of two.                                     *)
(***************************************************************************)
TakesIn(B) ==
    \A m \in Node :
        LET accepted == {e \in B[m] : Accepts(store[m], e)}
        IN  /\ store'[m] = Put(store[m], accepted)
            /\ IsJoinOf(clock'[m], clock[m], accepted)
            /\ seen'[m] = seen[m] \cup B[m]

TakeInFrom(X, B) ==
    /\ B \in [Node -> SUBSET Entry]
    /\ \A m \in Node : OnePerKey(B[m]) /\ B[m] \subseteq X
    /\ TakesIn(B)
    /\ store' \in [Node -> SUBSET Entry] /\ seen' \in [Node -> SUBSET Entry]
    /\ clock' \in [Node -> Clock]
    /\ net' \subseteq net /\ replayed' = replayed

TakeIn(B) == TakeInFrom(Entries, B)

(* Batches keep the types, and every store within its clock.                *)
LEMMA TakeInKeeps ==
    ASSUME TypeOK, StoreWithinClock, NEW X, NEW B, TakeInFrom(X, B)
    PROVE  TypeOK' /\ StoreWithinClock'
<1> USE DEF TakeInFrom
<1> DEFINE A(m) == {e \in B[m] : Accepts(store[m], e)}
<1>0. clock \in [Node -> Clock] /\ store \in [Node -> SUBSET Entry]
  BY DEF TypeOK
<1>1. \A m \in Node :
        /\ store'[m] = Put(store[m], A(m))
        /\ IsJoinOf(clock'[m], clock[m], A(m))
        /\ OnePerKey(A(m))
  BY DEF TakesIn, OnePerKey
<1> HIDE DEF A
<1>2. TypeOK'
  <2>1. \A m \in Node : OnePerKey(store'[m])
    BY <1>1, PutOnePerKey DEF TypeOK
  <2> QED  BY <2>1 DEF TypeOK
<1>3. StoreWithinClock'
  <2> SUFFICES ASSUME NEW m \in Node, NEW f \in store'[m], f.key \notin replayed
               PROVE  Leq(f.clock, clock'[m])
    BY DEF StoreWithinClock
  <2>1. CASE f \in A(m)
    BY <1>1, <2>1 DEF IsJoinOf, Leq
  <2>2. CASE f \in store[m]
    <3>1. f.clock \in Clock /\ Leq(f.clock, clock[m])
      BY <1>0, <2>2 DEF StoreWithinClock, Entry
    <3>2. Leq(clock[m], clock'[m])
      BY <1>0, <1>1 DEF IsJoinOf, Leq, Clock
    <3> QED  BY <1>0, <3>1, <3>2, LeqTransitive
  <2> QED  BY <1>1, <2>1, <2>2 DEF Put
<1> QED  BY <1>2, <1>3

LEMMA TakeInSound ==
    ASSUME SoundInv, NEW B, TakeIn(B)
    PROVE  SoundInv'
<1> USE DEF TakeIn, TakeInFrom
<1> DEFINE A(m) == {e \in B[m] : Accepts(store[m], e)}
<1>0. /\ TypeOK /\ clock \in [Node -> Clock] /\ store \in [Node -> SUBSET Entry]
      /\ seen \in [Node -> SUBSET Entry]
  BY DEF SoundInv, TypeOK
<1>1. \A m \in Node :
        /\ store'[m] = Put(store[m], A(m))
        /\ IsJoinOf(clock'[m], clock[m], A(m))
        /\ seen'[m] = seen[m] \cup B[m]
        /\ A(m) \subseteq B[m]
        /\ OnePerKey(A(m))
  BY DEF TakesIn, OnePerKey
<1> HIDE DEF A
<1>2. Entries' = Entries
  BY <1>1 DEF Entries
<1>3. TypeOK' /\ StoreWithinClock'
  BY TakeInKeeps DEF SoundInv
<1>4. NothingInvented'
  <2>1. \A m \in Node : store'[m] \subseteq seen'[m]
    BY <1>1 DEF SoundInv, NothingInvented, Put
  <2>2. InFlight' \subseteq InFlight
    BY DEF InFlight
  <2> QED  BY <1>2, <2>1, <2>2 DEF SoundInv, NothingInvented
<1>5. ClockSound'
  <2>1. \A i \in Node : clock[i][i] <= clock'[i][i] /\ clock[i][i] \in Nat /\ clock'[i][i] \in Nat
    BY <1>0, <1>1 DEF IsJoinOf, Clock
  <2>2. \A i, m \in Node : clock'[m][i] <= clock'[i][i]
    <3> SUFFICES ASSUME NEW i \in Node, NEW m \in Node
                 PROVE  clock'[m][i] <= clock'[i][i]
      OBVIOUS
    <3>1. clock'[m][i] = clock[m][i] \/ \E e \in A(m) : clock'[m][i] = e.clock[i]
      BY <1>1 DEF IsJoinOf
    <3>2. clock'[m][i] <= clock[i][i]
      BY <1>1, <3>1 DEF SoundInv, ClockSound
    <3>3. clock'[m][i] \in Nat
      BY DEF Clock
    <3> QED  BY <2>1, <3>2, <3>3
  <2>3. \A i \in Node : \A f \in Entries' : f.clock[i] <= clock'[i][i]
    <3>1. \A i \in Node : \A f \in Entries : f.clock[i] \in Nat /\ f.clock[i] <= clock[i][i]
      BY <1>0 DEF SoundInv, ClockSound, Entries, Entry, Clock
    <3> QED  BY <1>2, <2>1, <3>1
  <2> QED  BY <2>2, <2>3 DEF ClockSound
<1>6. SameClockSameEntry'
  BY <1>2 DEF SoundInv, SameClockSameEntry
<1> QED  BY <1>3, <1>4, <1>5, <1>6 DEF SoundInv

(* A step that only sends: the new messages carry what a node stores.       *)
Sends ==
    /\ UNCHANGED <<store, clock, seen, replayed>>
    /\ \A m \in net' : \/ m \in net
                       \/ /\ m \in Message
                          /\ m.type # "pull" =>
                               /\ OnePerKey(m.body)
                               /\ \E n \in Node : m.body \subseteq store[n]

LEMMA SendKeeps ==
    ASSUME TypeOK, StoreWithinClock, Sends PROVE TypeOK' /\ StoreWithinClock'
BY DEF Sends, TypeOK, StoreWithinClock

LEMMA SendSound ==
    ASSUME SoundInv, Sends PROVE SoundInv'
<1> USE DEF Sends
<1>1. Entries' = Entries
  BY DEF Entries
<1>2. TypeOK'
  BY SendKeeps DEF SoundInv
<1>3. InFlight' \subseteq Entries
  <2> SUFFICES ASSUME NEW m \in net', m.type # "pull"
               PROVE  m.body \subseteq Entries
    BY DEF InFlight
  <2>1. CASE m \in net
    BY <2>1 DEF SoundInv, NothingInvented, InFlight
  <2>2. CASE \E n \in Node : m.body \subseteq store[n]
    BY <2>2 DEF SoundInv, NothingInvented, Entries
  <2> QED  BY <2>1, <2>2
<1> QED  BY <1>1, <1>2, <1>3
  DEF SoundInv, NothingInvented, ClockSound, StoreWithinClock, SameClockSameEntry

-----------------------------------------------------------------------------
(* The actions, one by one *)

LEMMA InitSound == Init => SoundInv
<1> SUFFICES ASSUME Init PROVE SoundInv
  OBVIOUS
<1>1. Entries = {} /\ InFlight = {}
  BY DEF Init, Entries, InFlight
<1>2. ZeroClock \in Clock
  BY DEF ZeroClock, Clock
<1>3. TypeOK
  BY <1>2 DEF Init, TypeOK, OnePerKey
<1>4. ClockSound
  BY <1>1, <1>2 DEF Init, ClockSound, Clock
<1> QED  BY <1>1, <1>3, <1>4
  DEF Init, SoundInv, NothingInvented, StoreWithinClock, SameClockSameEntry

LEMMA UpdateWrites ==
    ASSUME TypeOK, NEW X, NEW n \in Node, NEW k \in Key, NEW v \in Value,
           Update(n, k, v)
    PROVE  \E e \in Entry : e.key = k /\ WritesOn(X, n, e)
<1> DEFINE c == Tick(clock[n], n)
           e == [key |-> k, value |-> v, clock |-> c, tombstone |-> FALSE]
<1>1. /\ WriteEntry(n, e, c, Accepts(store[n], e)) /\ replayed' = replayed
      /\ n \in Writers[k]
  BY DEF Update, LocalTick
<1>2. /\ clock[n] \in Clock /\ store \in [Node -> SUBSET Entry]
      /\ replayed \subseteq Key
  BY DEF TypeOK
<1>3. c \in Clock
  BY <1>2, TickFacts
<1>4. e \in Entry /\ e.key = k /\ e.clock = c
  BY <1>3 DEF Entry
<1> HIDE DEF e
<1> QED  BY <1>1, <1>2, <1>4 DEF WritesOn, WriteEntry

LEMMA DeleteWrites ==
    ASSUME TypeOK, NEW X, NEW n \in Node, NEW k \in Key, Delete(n, k)
    PROVE  \E e \in Entry : e.key = k /\ WritesOn(X, n, e)
<1> DEFINE c == Tick(clock[n], n)
           Tomb(v) == [key |-> k, value |-> v, clock |-> c, tombstone |-> TRUE]
<1>1. PICK v \in Value \cup {NoValue} : WriteEntry(n, Tomb(v), c, TRUE)
  BY DEF Delete, LocalTick
<1>2. /\ clock[n] \in Clock /\ store \in [Node -> SUBSET Entry]
      /\ replayed \subseteq Key /\ replayed' = replayed /\ n \in Writers[k]
  BY DEF Delete, TypeOK
<1>3. c \in Clock
  BY <1>2, TickFacts
<1>4. Tomb(v) \in Entry /\ Tomb(v).key = k /\ Tomb(v).clock = c
  BY <1>3 DEF Entry
<1> HIDE DEF Tomb
<1> QED  BY <1>1, <1>2, <1>4 DEF WritesOn, WriteEntry

LEMMA UpdateReplayWrites ==
    ASSUME TypeOK, NEW n \in Node, UpdateReplay(n)
    PROVE  \E e \in Entry : WritesOn(InFlight, n, e)
<1> DEFINE c == Tick(clock[n], n)
           Again(y) == [y EXCEPT !.clock = Join(y.clock, c)]
<1>0. PICK m \in net :
        /\ m.type = "entries"
        /\ \E x \in m.body :
             /\ n \in Writers[x.key]
             /\ WriteEntry(n, Again(x), c, Accepts(store[n], Again(x)))
             /\ replayed' = replayed \cup {x.key}
  BY DEF UpdateReplay, LocalTick
<1> HIDE DEF Again
<1>1. PICK x \in m.body :
        /\ n \in Writers[x.key]
        /\ WriteEntry(n, Again(x), c, Accepts(store[n], Again(x)))
        /\ replayed' = replayed \cup {x.key}
  BY <1>0
<1>2. x \in InFlight
  BY <1>0 DEF InFlight
<1>3. x \in Entry
  BY <1>0, MessageFacts DEF TypeOK
<1>4. /\ clock[n] \in Clock /\ x.clock \in Clock /\ x.key \in Key
      /\ store \in [Node -> SUBSET Entry] /\ replayed \subseteq Key
  BY <1>3 DEF TypeOK, Entry
<1>5. c \in Clock
  BY <1>4, TickFacts
<1>6. Join(x.clock, c) \in Clock
  BY <1>4, <1>5, JoinFacts
<1>7. /\ Again(x) \in Entry /\ Again(x).key = x.key
      /\ Again(x).clock = Join(x.clock, c)
  BY <1>3, <1>6 DEF Entry, Again
<1>8. Replays(n, Again(x), x)
  BY <1>1, <1>7 DEF Replays
<1> QED  BY <1>1, <1>2, <1>4, <1>7, <1>8 DEF WritesOn, WriteEntry

(* What a node puts into a message is in its store. *)
LEMMA PartOfStore ==
    ASSUME TypeOK, NEW n \in Node, NEW b, b \subseteq store[n]
    PROVE  b \in SUBSET Entry /\ OnePerKey(b)
BY DEF TypeOK, OnePerKey

LEMMA ExchangeSends ==
    ASSUME TypeOK
    PROVE  /\ \A n, m \in Node : SendDigest(n, m) => Sends
           /\ \A m \in net : \A rest \in SUBSET net :
                /\ ReceiveDigest(m, rest) => Sends
                /\ ReceivePull(m, rest) => Sends
           /\ \A m \in net : Lose(m) => Sends
<1>0. net \subseteq Message
  BY DEF TypeOK
<1>1. ASSUME NEW n \in Node, NEW m \in Node, SendDigest(n, m)
      PROVE  Sends
  <2> DEFINE d == Msg("digest", n, m, store[n])
  <2>1. \A x \in net' : x \in net \/ x \in {d}
    BY <1>1, SendFacts DEF SendDigest
  <2>2. store[n] \in SUBSET Entry /\ OnePerKey(store[n])
    BY PartOfStore
  <2>3. d \in Message /\ d.body = store[n]
    BY <2>2, MsgFacts
  <2> HIDE DEF d
  <2>4. \A x \in net' : \/ x \in net
                        \/ /\ x \in Message
                           /\ x.type # "pull" =>
                                /\ OnePerKey(x.body)
                                /\ \E a \in Node : x.body \subseteq store[a]
    BY <2>1, <2>2, <2>3
  <2> QED  BY <1>1, <2>4 DEF Sends, SendDigest
<1>2. ASSUME NEW m \in net, NEW rest \in SUBSET net, ReceiveDigest(m, rest)
      PROVE  Sends
  <2> DEFINE b == PushSet(m.to, m.body)
             ks == PullSet(m.to, m.body)
             p == Msg("entries", m.to, m.from, b)
             q == Msg("pull", m.to, m.from, ks)
  <2>1. \A x \in net' : x \in net \/ x \in {p, q}
    BY <1>2, SendFacts DEF ReceiveDigest
  <2>2. m.to \in Node /\ m.from \in Node /\ m.body \in SUBSET Entry
    BY <1>0, <1>2, MessageFacts DEF ReceiveDigest
  <2>3. b \subseteq store[m.to]
    BY DEF PushSet
  <2>4. b \in SUBSET Entry /\ OnePerKey(b)
    BY <2>2, <2>3, PartOfStore
  <2>5. ks \in SUBSET Key
    BY <2>2 DEF PullSet, Entry
  <2> HIDE DEF b, ks
  <2>6. p \in Message /\ p.body = b
    BY <2>2, <2>4, MsgFacts
  <2>7. q \in Message /\ q.type = "pull"
    BY <2>2, <2>5, PullMsgFacts
  <2> HIDE DEF p, q
  <2>8. \A x \in net' : \/ x \in net
                        \/ /\ x \in Message
                           /\ x.type # "pull" =>
                                /\ OnePerKey(x.body)
                                /\ \E a \in Node : x.body \subseteq store[a]
    BY <2>1, <2>2, <2>3, <2>4, <2>6, <2>7
  <2> QED  BY <1>2, <2>8 DEF Sends, ReceiveDigest
<1>3. ASSUME NEW m \in net, NEW rest \in SUBSET net, ReceivePull(m, rest)
      PROVE  Sends
  <2> DEFINE b == {e \in store[m.to] : e.key \in m.body}
             p == Msg("entries", m.to, m.from, b)
  <2>1. \A x \in net' : x \in net \/ x \in {p}
    BY <1>3, SendFacts DEF ReceivePull
  <2>2. m.to \in Node /\ m.from \in Node
    BY <1>0, MessageFacts
  <2>3. b \subseteq store[m.to]
    OBVIOUS
  <2> HIDE DEF b
  <2>4. b \in SUBSET Entry /\ OnePerKey(b)
    BY <2>2, <2>3, PartOfStore
  <2>5. p \in Message /\ p.body = b
    BY <2>2, <2>4, MsgFacts
  <2> HIDE DEF p
  <2>6. \A x \in net' : \/ x \in net
                        \/ /\ x \in Message
                           /\ x.type # "pull" =>
                                /\ OnePerKey(x.body)
                                /\ \E a \in Node : x.body \subseteq store[a]
    BY <2>1, <2>2, <2>3, <2>4, <2>5
  <2> QED  BY <1>3, <2>6 DEF Sends, ReceivePull
<1>4. ASSUME NEW m \in net, Lose(m)
      PROVE  Sends
  <2>1. \A x \in net' : x \in net
    BY <1>4 DEF Lose
  <2> QED  BY <1>4, <2>1 DEF Sends, Lose
<1> QED  BY <1>1, <1>2, <1>3, <1>4

(* A node that takes in nothing *)
LEMMA NothingTaken ==
    ASSUME NEW n \in Node, clock[n] \in Clock
    PROVE  /\ Put(store[n], {}) = store[n]
           /\ IsJoinOf(clock[n], clock[n], {})
BY DEF Put, IsJoinOf, Clock

LEMMA PutInType ==
    ASSUME NEW S \in SUBSET Entry, NEW B \in SUBSET Entry
    PROVE  Put(S, B) \in SUBSET Entry
BY DEF Put

LEMMA ReceiveEntriesTakesIn ==
    ASSUME TypeOK, NEW m \in net, NEW rest \in SUBSET net,
           ReceiveEntries(m, rest)
    PROVE  \E B : TakeInFrom(InFlight, B)
<1> DEFINE n == m.to
           b == m.body
           acc == {e \in b : Accepts(store[n], e)}
           B == [x \in Node |-> IF x = n THEN b ELSE {}]
<1>0. /\ store \in [Node -> SUBSET Entry] /\ clock \in [Node -> Clock]
      /\ seen \in [Node -> SUBSET Entry] /\ net \subseteq Message
      /\ OnePerKey(b) /\ b \subseteq InFlight
  BY DEF TypeOK, InFlight, ReceiveEntries
<1>1. n \in Node /\ b \in SUBSET Entry
  BY <1>0, MessageFacts DEF ReceiveEntries
<1>2. PICK c \in BoundedClock :
        /\ store' = [store EXCEPT ![n] = Put(store[n], acc)]
        /\ clock' = [clock EXCEPT ![n] = c]
        /\ IsJoinOf(c, clock[n], acc)
        /\ seen' = [seen EXCEPT ![n] = seen[n] \cup b]
        /\ net' = rest /\ replayed' = replayed
  BY DEF ReceiveEntries, ApplyEntries
<1>3. c \in Clock
  BY ConstantsAssumption DEF BoundedClock, Clock
<1>4. Put(store[n], acc) \in SUBSET Entry /\ OnePerKey({})
  BY <1>0, <1>1, PutInType DEF OnePerKey
<1>5. /\ B \in [Node -> SUBSET Entry]
      /\ \A x \in Node : OnePerKey(B[x]) /\ B[x] \subseteq InFlight
  BY <1>0, <1>1, <1>4
<1>6. TakesIn(B)
  <2> SUFFICES ASSUME NEW x \in Node
               PROVE  LET A == {e \in B[x] : Accepts(store[x], e)}
                      IN  /\ store'[x] = Put(store[x], A)
                          /\ IsJoinOf(clock'[x], clock[x], A)
                          /\ seen'[x] = seen[x] \cup B[x]
    BY DEF TakesIn
  <2>1. CASE x = n
    <3>1. {e \in B[x] : Accepts(store[x], e)} = acc /\ B[x] = b
      BY <2>1
    <3>2. store'[x] = Put(store[x], acc) /\ clock'[x] = c
          /\ seen'[x] = seen[x] \cup b
      BY <1>0, <1>2, <2>1
    <3> HIDE DEF acc, b, n, B
    <3> QED  BY <1>2, <2>1, <3>1, <3>2
  <2>2. CASE x # n
    <3>1. {e \in B[x] : Accepts(store[x], e)} = {} /\ B[x] = {}
      BY <2>2
    <3>2. store'[x] = store[x] /\ clock'[x] = clock[x] /\ seen'[x] = seen[x]
      BY <1>0, <1>2, <2>2
    <3>3. clock[x] \in Clock
      BY <1>0
    <3> HIDE DEF acc, b, n, B
    <3> QED  BY <3>1, <3>2, <3>3, NothingTaken
  <2> QED  BY <2>1, <2>2
<1> HIDE DEF acc, b, n, B
<1>7. /\ store' \in [Node -> SUBSET Entry] /\ clock' \in [Node -> Clock]
      /\ seen' \in [Node -> SUBSET Entry] /\ net' \subseteq net
      /\ replayed' = replayed
  BY <1>0, <1>1, <1>2, <1>3, <1>4
<1> QED  BY <1>5, <1>6, <1>7 DEF TakeInFrom

LEMMA SyncPairTakesIn ==
    ASSUME SoundInv, NEW a \in Node, NEW b \in Node, SyncPair(a, b)
    PROVE  \E B : TakeIn(B)
<1> DEFINE push == PushSet(a, store[b])
           pushed == {e \in push : Accepts(store[b], e)}
           storeB == Put(store[b], pushed)
           pulled == {e \in storeB : e.key \in PullSet(a, store[b])}
           taken == {e \in pulled : Accepts(store[a], e)}
           B == [x \in Node |-> IF x = a THEN pulled
                                ELSE IF x = b THEN push ELSE {}]
<1>0. /\ store \in [Node -> SUBSET Entry] /\ clock \in [Node -> Clock]
      /\ seen \in [Node -> SUBSET Entry] /\ replayed' = replayed /\ net' = net
      /\ a # b
  BY DEF SoundInv, TypeOK, SyncPair
<1>1. /\ store' = [store EXCEPT ![a] = Put(store[a], taken), ![b] = storeB]
      /\ seen' = [seen EXCEPT ![a] = seen[a] \cup pulled,
                              ![b] = seen[b] \cup push]
  BY <1>0 DEF SyncPair
<1>2. PICK cb \in BoundedClock :
        /\ IsJoinOf(cb, clock[b], pushed)
        /\ \E ca \in BoundedClock :
             /\ IsJoinOf(ca, clock[a], taken)
             /\ clock' = [clock EXCEPT ![a] = ca, ![b] = cb]
  BY DEF SyncPair
<1>3. PICK ca \in BoundedClock :
        /\ IsJoinOf(ca, clock[a], taken)
        /\ clock' = [clock EXCEPT ![a] = ca, ![b] = cb]
  BY <1>2
<1>4. cb \in Clock /\ ca \in Clock
  BY ConstantsAssumption DEF BoundedClock, Clock
<1>5. push \subseteq store[a] /\ push \in SUBSET Entry /\ OnePerKey(push)
  <2>1. push \subseteq store[a]
    BY DEF PushSet
  <2> HIDE DEF push
  <2> QED  BY <2>1, PartOfStore DEF SoundInv
<1>6. storeB \in SUBSET Entry /\ OnePerKey(storeB) /\ storeB \subseteq Entries
  <2>1. pushed \subseteq store[a] /\ pushed \in SUBSET Entry /\ OnePerKey(pushed)
    BY <1>5, PartOfStore DEF SoundInv
  <2>2. store[b] \in SUBSET Entry /\ OnePerKey(store[b])
    BY DEF SoundInv, TypeOK
  <2>3. store[a] \subseteq Entries /\ store[b] \subseteq Entries
    BY DEF SoundInv, NothingInvented, Entries
  <2> HIDE DEF pushed
  <2>4. storeB \subseteq store[b] \cup pushed
    BY DEF Put
  <2>5. OnePerKey(storeB)
    BY <2>1, <2>2, PutOnePerKey
  <2> QED  BY <2>1, <2>2, <2>3, <2>4, <2>5
<1> HIDE DEF storeB
<1>7. /\ pulled \in SUBSET Entry /\ OnePerKey(pulled) /\ pulled \subseteq Entries
      /\ taken \in SUBSET Entry
  BY <1>6 DEF OnePerKey
<1>8. push \subseteq Entries /\ OnePerKey({})
  BY <1>5 DEF SoundInv, NothingInvented, Entries, OnePerKey
<1> HIDE DEF push, pulled
<1>9. /\ B \in [Node -> SUBSET Entry]
      /\ \A x \in Node : OnePerKey(B[x]) /\ B[x] \subseteq Entries
  BY <1>5, <1>7, <1>8
<1>10. TakesIn(B)
  <2> SUFFICES ASSUME NEW x \in Node
               PROVE  LET A == {e \in B[x] : Accepts(store[x], e)}
                      IN  /\ store'[x] = Put(store[x], A)
                          /\ IsJoinOf(clock'[x], clock[x], A)
                          /\ seen'[x] = seen[x] \cup B[x]
    BY DEF TakesIn
  <2>1. CASE x = a
    <3>1. {e \in B[x] : Accepts(store[x], e)} = taken /\ B[x] = pulled
      BY <2>1
    <3>2. store'[x] = Put(store[x], taken) /\ clock'[x] = ca
          /\ seen'[x] = seen[x] \cup pulled
      BY <1>0, <1>1, <1>3, <2>1
    <3> HIDE DEF taken, B
    <3> QED  BY <1>3, <2>1, <3>1, <3>2
  <2>2. CASE x = b
    <3>1. {e \in B[x] : Accepts(store[x], e)} = pushed /\ B[x] = push
      BY <1>0, <2>2
    <3>2. store'[x] = Put(store[x], pushed) /\ clock'[x] = cb
          /\ seen'[x] = seen[x] \cup push
      BY <1>0, <1>1, <1>3, <2>2 DEF storeB
    <3> HIDE DEF pushed, B
    <3> QED  BY <1>2, <2>2, <3>1, <3>2
  <2>3. CASE x # a /\ x # b
    <3>1. {e \in B[x] : Accepts(store[x], e)} = {} /\ B[x] = {}
      BY <2>3
    <3>2. store'[x] = store[x] /\ clock'[x] = clock[x] /\ seen'[x] = seen[x]
      BY <1>0, <1>1, <1>3, <2>3
    <3>3. clock[x] \in Clock
      BY <1>0
    <3> HIDE DEF taken, pushed, B
    <3> QED  BY <3>1, <3>2, <3>3, NothingTaken
  <2> QED  BY <2>1, <2>2, <2>3
<1>11. Put(store[a], taken) \in SUBSET Entry
  BY <1>0, <1>7, PutInType
<1> HIDE DEF taken, pushed, B
<1>12. /\ store' \in [Node -> SUBSET Entry] /\ clock' \in [Node -> Clock]
       /\ seen' \in [Node -> SUBSET Entry] /\ net' \subseteq net
  BY <1>0, <1>1, <1>3, <1>4, <1>5, <1>6, <1>7, <1>11
<1> QED  BY <1>0, <1>9, <1>10, <1>12 DEF TakeIn, TakeInFrom

(***************************************************************************)
(* Every step is a write, a batch taken in by some nodes, or a send.        *)
(***************************************************************************)
LEMMA WriteSteps ==
    ASSUME TypeOK, Write
    PROVE  \E n \in Node, e \in Entry : WritesOn(InFlight, n, e)
BY UpdateWrites, UpdateReplayWrites, DeleteWrites DEF Write

LEMMA ExchangeSteps ==
    ASSUME TypeOK, Exchange
    PROVE  Sends \/ \E B : TakeInFrom(InFlight, B)
<1>1. ASSUME NEW m \in net, Receive(m)
      PROVE  Sends \/ \E B : TakeInFrom(InFlight, B)
  BY <1>1, ExchangeSends, ReceiveEntriesTakesIn DEF Receive
<1> QED  BY <1>1, ExchangeSends DEF Exchange

(* What is on its way is known. *)
LEMMA InFlightKnown ==
    ASSUME SoundInv
    PROVE  /\ \A n, e : WritesOn(InFlight, n, e) => Writes(n, e)
           /\ \A B : TakeInFrom(InFlight, B) => TakeIn(B)
<1>1. InFlight \subseteq Entries
  BY DEF SoundInv, NothingInvented
<1>2. \A n, e : WritesOn(InFlight, n, e) => Writes(n, e)
  BY <1>1 DEF Writes, WritesOn
<1>3. \A B : TakeInFrom(InFlight, B) => TakeIn(B)
  BY <1>1 DEF TakeIn, TakeInFrom
<1> QED  BY <1>2, <1>3

LEMMA StutterSends ==
    ASSUME UNCHANGED vars PROVE Sends
BY DEF vars, Sends

LEMMA Steps ==
    ASSUME SoundInv, [Next]_vars
    PROVE  \/ \E n \in Node, e \in Entry : Writes(n, e)
           \/ \E B : TakeIn(B)
           \/ Sends
<1>1. TypeOK
  BY DEF SoundInv
<1> QED  BY <1>1, WriteSteps, ExchangeSteps, InFlightKnown, StutterSends DEF Next

LEMMA SyncSteps ==
    ASSUME SoundInv, [SyncNext]_vars
    PROVE  \/ \E n \in Node, e \in Entry : Writes(n, e)
           \/ \E B : TakeIn(B)
           \/ Sends
<1>1. TypeOK
  BY DEF SoundInv
<1> QED  BY <1>1, WriteSteps, InFlightKnown, SyncPairTakesIn, StutterSends DEF SyncNext

LEMMA NextSound ==
    ASSUME SoundInv, [Next]_vars PROVE SoundInv'
BY Steps, WriteSound, TakeInSound, SendSound

LEMMA SyncNextSound ==
    ASSUME SoundInv, [SyncNext]_vars PROVE SoundInv'
BY SyncSteps, WriteSound, TakeInSound, SendSound

-----------------------------------------------------------------------------
(* The theorems *)

LEMMA SoundAlways == Spec => []SoundInv
<1>1. SoundInv /\ [Next]_vars => SoundInv'
  BY NextSound
<1> QED  BY InitSound, <1>1, PTL DEF Spec

LEMMA SoundInSync == SyncSpec => []SoundInv
<1>1. SoundInv /\ [SyncNext]_vars => SoundInv'
  BY SyncNextSound
<1> QED  BY InitSound, <1>1, PTL DEF SyncSpec

(* The stores, the clocks and the messages keep their types, and no store,  *)
(* digest or batch ever has two entries of a key.                           *)
THEOREM TypeCorrect == Spec => []TypeOK
<1>1. SoundInv => TypeOK
  BY DEF SoundInv
<1> QED  BY SoundAlways, <1>1, PTL

(* A node never stores an entry that was not written at it or handed to it, *)
(* and no message carries one that nobody wrote.                            *)
THEOREM NoInvention == Spec => []NothingInvented
<1>1. SoundInv => NothingInvented
  BY DEF SoundInv
<1> QED  BY SoundAlways, <1>1, PTL

(* Merging clocks on apply_entries never credits a node with an event that  *)
(* it has not ticked itself.                                                *)
THEOREM ClocksAreSound == Spec => []ClockSound
<1>1. SoundInv => ClockSound
  BY DEF SoundInv
<1> QED  BY SoundAlways, <1>1, PTL

(* Every store stays within its node's clock, replayed keys apart.          *)
THEOREM StoresWithinClocks == Spec => []StoreWithinClock
<1>1. SoundInv => StoreWithinClock
  BY DEF SoundInv
<1> QED  BY SoundAlways, <1>1, PTL

(* A vector clock identifies the entry of a key, at every node and in every *)
(* message: dropping an EQUAL newcomer drops a copy.                        *)
THEOREM ClockIdentifiesEntry == Spec => []SameClockSameEntry
<1>1. SoundInv => SameClockSameEntry
  BY DEF SoundInv
<1> QED  BY SoundAlways, <1>1, PTL

(* The same under the pairwise synchronisation of the guide.                *)
THEOREM SyncIsSound ==
    SyncSpec => [](NothingInvented /\ ClockSound /\ SameClockSameEntry)
<1>1. SoundInv => NothingInvented /\ ClockSound /\ SameClockSameEntry
  BY DEF SoundInv
<1> QED  BY SoundInSync, <1>1, PTL

(* A write that is no replay replaces what its node stores under the key,   *)
(* and its clock is after the clock of that.                                *)
LEMMA WriteReplaces ==
    ASSUME SoundInv, NEW n \in Node, NEW k \in Key \ replayed, NEW w \in Entry,
           w.key = k, Writes(n, w), replayed' = replayed
    PROVE  \A e \in Held(n, k), f \in Held(n, k)' : ShouldUpdate(e.clock, f.clock)
<1> DEFINE c == Tick(clock[n], n)
<1>0. /\ store \in [Node -> SUBSET Entry] /\ clock[n] \in Clock /\ w.clock = c
  BY DEF SoundInv, TypeOK, Writes, WritesOn, Replays
<1>1. c \in Clock /\ Leq(clock[n], c) /\ c[n] = clock[n][n] + 1
  BY <1>0, TickFacts
<1>2. \A e \in Held(n, k) : Before(e.clock, c)
  <2> SUFFICES ASSUME NEW e \in Held(n, k) PROVE Before(e.clock, c)
    OBVIOUS
  <2>1. e \in store[n] /\ e.key = k /\ e \in Entry
    BY <1>0 DEF Held
  <2>2. Leq(e.clock, clock[n]) /\ e.clock \in Clock
    BY <2>1 DEF SoundInv, StoreWithinClock, Entry
  <2> HIDE DEF c
  <2>3. Leq(e.clock, c)
    BY <1>0, <1>1, <2>2, LeqTransitive
  <2>4. e.clock # c
    <3>1. e.clock[n] <= clock[n][n] /\ e.clock[n] \in Nat /\ clock[n][n] \in Nat
      BY <1>0, <2>2 DEF Leq, Clock
    <3> QED  BY <1>1, <3>1
  <2> QED  BY <2>3, <2>4 DEF Before
<1>3. Accepts(store[n], w)
  BY <1>0, <1>2 DEF Accepts, ShouldUpdate, Held
<1>4. store'[n] = Put(store[n], {w})
  BY <1>0, <1>3 DEF Writes, WritesOn
<1>5. \A f \in Held(n, k)' : f.clock = c
  BY <1>0, <1>4 DEF Held, Put
<1> QED  BY <1>2, <1>5 DEF ShouldUpdate

(* An update or a deletion made at a node is accepted by every node that    *)
(* has the entry it replaced, unless the key was replayed.                  *)
THEOREM WritesPropagate == Spec => LocalWritePropagates
<1>1. ASSUME SoundInv, NEW k \in Key \ replayed PROVE LocalWriteAccepted(k)
  <2> SUFFICES ASSUME NEW n \in Node,
                      Delete(n, k) \/ (\E v \in Value : Update(n, k, v))
               PROVE  \A e \in Held(n, k), f \in Held(n, k)' :
                        ShouldUpdate(e.clock, f.clock)
    BY DEF LocalWriteAccepted
  <2>1. PICK w \in Entry : w.key = k /\ Writes(n, w)
    BY <1>1, UpdateWrites, DeleteWrites DEF SoundInv, Writes
  <2>2. replayed' = replayed
    BY DEF Update, Delete
  <2> QED  BY <1>1, <2>1, <2>2, WriteReplaces
<1>2. SoundInv => [\A k \in Key \ replayed : LocalWriteAccepted(k)]_vars
  BY <1>1
<1> QED  BY SoundAlways, <1>2, PTL DEF LocalWritePropagates

-----------------------------------------------------------------------------
(***************************************************************************)
(* Whole-state merge, GossipMerge.  The laws hold of any two stores with    *)
(* one entry per key; MergeInv says that every store is one, restarts from  *)
(* old files included, and that it stays within its node's clock.           *)
(***************************************************************************)

LEMMA JoinLaws ==
    ASSUME NEW c \in Clock, NEW d \in Clock, NEW e \in Clock
    PROVE  /\ Join(c, c) = c
           /\ Join(c, d) = Join(d, c)
           /\ Join(Join(c, d), e) = Join(c, Join(d, e))
           /\ Leq(c, Join(c, d)) /\ Leq(d, Join(c, d))
           /\ Leq(c, e) /\ Leq(d, e) => Leq(Join(c, d), e)
<1>1. \A n \in Node : c[n] \in Int /\ d[n] \in Int /\ e[n] \in Int
  BY DEF Clock
<1>2. Join(c, c) = c
  BY DEF Clock, Join, Higher
<1>3. Join(c, d) = Join(d, c)
  BY <1>1 DEF Join, Higher
<1>4. Join(Join(c, d), e) = Join(c, Join(d, e))
  BY <1>1 DEF Join, Higher
<1>5. Leq(c, Join(c, d)) /\ Leq(d, Join(c, d))
  BY <1>1 DEF Leq, Join, Higher
<1>6. Leq(c, e) /\ Leq(d, e) => Leq(Join(c, d), e)
  BY <1>1 DEF Leq, Join, Higher
<1> QED  BY <1>2, <1>3, <1>4, <1>5, <1>6

(* The content of an entry, which decides, and the rest of it *)
LEMMA MergeEntryFacts ==
    ASSUME NEW a \in Entry, NEW b \in Entry, a.key = b.key
    PROVE  /\ MergeEntry(a, b) \in Entry
           /\ MergeEntry(a, b).key = a.key
           /\ MergeEntry(a, b).clock = Join(a.clock, b.clock)
           /\ MergeEntry(a, b).value = IF ContentAtLeast(a, b) THEN a.value ELSE b.value
           /\ MergeEntry(a, b).tombstone
                = IF ContentAtLeast(a, b) THEN a.tombstone ELSE b.tombstone
<1>1. Join(a.clock, b.clock) \in Clock
  BY JoinFacts DEF Entry
<1> DEFINE w == IF ContentAtLeast(a, b) THEN a ELSE b
<1>2. w \in Entry /\ w.key = a.key
  OBVIOUS
<1>3. MergeEntry(a, b) = [w EXCEPT !.clock = Join(a.clock, b.clock)]
  BY DEF MergeEntry
<1>4. /\ w.value = IF ContentAtLeast(a, b) THEN a.value ELSE b.value
      /\ w.tombstone = IF ContentAtLeast(a, b) THEN a.tombstone ELSE b.tombstone
  OBVIOUS
<1> HIDE DEF w
<1> QED  BY <1>1, <1>2, <1>3, <1>4 DEF Entry

LEMMA EntryEquality ==
    ASSUME NEW a \in Entry, NEW b \in Entry, a.key = b.key, a.value = b.value,
           a.clock = b.clock, a.tombstone = b.tombstone
    PROVE  a = b
BY DEF Entry

LEMMA ContentOrder ==
    ASSUME NEW a \in Entry, NEW b \in Entry
    PROVE  /\ Text[a.value] \in Int /\ Text[b.value] \in Int
           /\ a.tombstone \in BOOLEAN /\ b.tombstone \in BOOLEAN
           /\ ContentAtLeast(a, b) \/ ContentAtLeast(b, a)
           /\ ContentAtLeast(a, b) /\ ContentAtLeast(b, a)
                => Text[a.value] = Text[b.value] /\ a.tombstone = b.tombstone
<1>1. /\ a.value \in Value \cup {NoValue} /\ b.value \in Value \cup {NoValue}
      /\ a.tombstone \in BOOLEAN /\ b.tombstone \in BOOLEAN
  BY DEF Entry
<1>2. Text[a.value] \in Int /\ Text[b.value] \in Int
  BY <1>1, ContentAssumption
<1> QED  BY <1>1, <1>2 DEF ContentAtLeast

LEMMA MergeEntryIdempotent ==
    ASSUME NEW a \in Entry
    PROVE  MergeEntry(a, a) = a
<1>1. a.clock \in Clock
  BY DEF Entry
<1> QED  BY <1>1, MergeEntryFacts, EntryEquality, JoinLaws

(* Both sides take the same text; a tie is taken from the left.             *)
LEMMA MergeEntryCommutes ==
    ASSUME NEW a \in Entry, NEW b \in Entry, a.key = b.key
    PROVE  /\ MergeEntry(a, b).clock = MergeEntry(b, a).clock
           /\ MergeEntry(a, b).tombstone = MergeEntry(b, a).tombstone
           /\ Text[MergeEntry(a, b).value] = Text[MergeEntry(b, a).value]
           /\ ~Tied(a, b) => MergeEntry(a, b) = MergeEntry(b, a)
           /\ Tied(a, b) => MergeEntry(a, b).value # MergeEntry(b, a).value
<1>1. a.clock \in Clock /\ b.clock \in Clock
  BY DEF Entry
<1>2. MergeEntry(a, b).clock = MergeEntry(b, a).clock
  BY <1>1, JoinLaws, MergeEntryFacts
<1>3. /\ Text[MergeEntry(a, b).value] = Text[MergeEntry(b, a).value]
      /\ MergeEntry(a, b).tombstone = MergeEntry(b, a).tombstone
  BY ContentOrder, MergeEntryFacts
<1>4. ASSUME ~Tied(a, b) PROVE MergeEntry(a, b) = MergeEntry(b, a)
  <2>1. MergeEntry(a, b).value = MergeEntry(b, a).value
    BY <1>4, ContentOrder, MergeEntryFacts DEF Tied
  <2> QED  BY <1>2, <1>3, <2>1, MergeEntryFacts, EntryEquality
<1>5. ASSUME Tied(a, b) PROVE MergeEntry(a, b).value # MergeEntry(b, a).value
  <2>1. ContentAtLeast(a, b) /\ ContentAtLeast(b, a)
    BY <1>5, ContentOrder DEF ContentAtLeast, Tied
  <2> QED  BY <1>5, <2>1, MergeEntryFacts DEF Tied
<1> QED  BY <1>2, <1>3, <1>4, <1>5

LEMMA MergeEntryAssociates ==
    ASSUME NEW a \in Entry, NEW b \in Entry, NEW c \in Entry,
           a.key = b.key, b.key = c.key
    PROVE  MergeEntry(MergeEntry(a, b), c) = MergeEntry(a, MergeEntry(b, c))
<1> DEFINE ab == MergeEntry(a, b)
           bc == MergeEntry(b, c)
           l == MergeEntry(ab, c)
           r == MergeEntry(a, bc)
<1>1. /\ ab \in Entry /\ bc \in Entry /\ ab.key = a.key /\ bc.key = b.key
      /\ ab.clock = Join(a.clock, b.clock) /\ bc.clock = Join(b.clock, c.clock)
      /\ ab.value = IF ContentAtLeast(a, b) THEN a.value ELSE b.value
      /\ ab.tombstone = IF ContentAtLeast(a, b) THEN a.tombstone ELSE b.tombstone
      /\ bc.value = IF ContentAtLeast(b, c) THEN b.value ELSE c.value
      /\ bc.tombstone = IF ContentAtLeast(b, c) THEN b.tombstone ELSE c.tombstone
  BY MergeEntryFacts
<1> HIDE DEF ab, bc
<1>2. /\ l \in Entry /\ r \in Entry /\ l.key = a.key /\ r.key = a.key
      /\ l.clock = Join(ab.clock, c.clock) /\ r.clock = Join(a.clock, bc.clock)
      /\ l.value = IF ContentAtLeast(ab, c) THEN ab.value ELSE c.value
      /\ l.tombstone = IF ContentAtLeast(ab, c) THEN ab.tombstone ELSE c.tombstone
      /\ r.value = IF ContentAtLeast(a, bc) THEN a.value ELSE bc.value
      /\ r.tombstone = IF ContentAtLeast(a, bc) THEN a.tombstone ELSE bc.tombstone
  BY <1>1, MergeEntryFacts
<1> HIDE DEF l, r
<1>3. l.clock = r.clock
  <2>1. a.clock \in Clock /\ b.clock \in Clock /\ c.clock \in Clock
    BY DEF Entry
  <2> QED  BY <1>1, <1>2, <2>1, JoinLaws
<1>4. /\ Text[a.value] \in Int /\ Text[b.value] \in Int /\ Text[c.value] \in Int
      /\ a.tombstone \in BOOLEAN /\ b.tombstone \in BOOLEAN /\ c.tombstone \in BOOLEAN
  BY ContentOrder
<1>5. l.value = r.value
  BY <1>1, <1>2, <1>4 DEF ContentAtLeast
<1>6. l.tombstone = r.tombstone
  BY <1>1, <1>2, <1>4 DEF ContentAtLeast
<1>7. l = r
  BY <1>2, <1>3, <1>5, <1>6, EntryEquality
<1> QED  BY <1>7 DEF l, r, ab, bc

(* The three sources of an entry of a merged store *)
LEMMA InMerged ==
    ASSUME NEW S, NEW T, NEW x
    PROVE  x \in MergeStores(S, T) <=>
             \/ \E s \in S, t \in T : s.key = t.key /\ x = MergeEntry(s, t)
             \/ x \in S /\ \A t \in T : t.key # x.key
             \/ x \in T /\ \A s \in S : s.key # x.key
<1> DEFINE P == {q \in S \X T : q[1].key = q[2].key}
<1>1. \A s \in S, t \in T : s.key = t.key => <<s, t>> \in P
  OBVIOUS
<1>2. ASSUME NEW q \in P PROVE q[1] \in S /\ q[2] \in T /\ q[1].key = q[2].key
  OBVIOUS
<1>3. x \in {MergeEntry(q[1], q[2]) : q \in P} <=>
        \E s \in S, t \in T : s.key = t.key /\ x = MergeEntry(s, t)
  <2>1. ASSUME NEW s \in S, NEW t \in T, s.key = t.key, x = MergeEntry(s, t)
        PROVE  x \in {MergeEntry(q[1], q[2]) : q \in P}
    <3>1. <<s, t>>[1] = s /\ <<s, t>>[2] = t
      OBVIOUS
    <3> QED  BY <1>1, <2>1, <3>1
  <2> QED  BY <1>2, <2>1
<1> QED  BY <1>3 DEF MergeStores

LEMMA MergedStore ==
    ASSUME NEW S \in SUBSET Entry, NEW T \in SUBSET Entry, OnePerKey(S), OnePerKey(T)
    PROVE  /\ MergeStores(S, T) \in SUBSET Entry
           /\ OnePerKey(MergeStores(S, T))
           /\ \A k : (\E x \in MergeStores(S, T) : x.key = k)
                       <=> (\E x \in S \cup T : x.key = k)
<1> DEFINE M == MergeStores(S, T)
<1>1. M \in SUBSET Entry
  BY InMerged, MergeEntryFacts
<1>2. \A x \in M : \/ \E s \in S, t \in T : s.key = x.key /\ t.key = x.key /\ x = MergeEntry(s, t)
                   \/ x \in S /\ \A t \in T : t.key # x.key
                   \/ x \in T /\ \A s \in S : s.key # x.key
  BY InMerged, MergeEntryFacts
<1>3. OnePerKey(M)
  <2> HIDE DEF M
  <2> QED  BY <1>2 DEF OnePerKey
<1>4. \A s \in S : \E x \in M : x.key = s.key
  BY InMerged, MergeEntryFacts
<1>5. \A t \in T : \E x \in M : x.key = t.key
  BY InMerged, MergeEntryFacts
<1> HIDE DEF M
<1>6. \A k : (\E x \in M : x.key = k) <=> (\E x \in S \cup T : x.key = k)
  BY <1>2, <1>4, <1>5
<1> QED  BY <1>1, <1>3, <1>6 DEF M

LEMMA MergeStoresIdempotent ==
    ASSUME NEW S \in SUBSET Entry, OnePerKey(S)
    PROVE  MergeStores(S, S) = S
<1>1. \A x : x \in MergeStores(S, S) => x \in S
  BY InMerged, MergeEntryIdempotent DEF OnePerKey
<1>2. \A x \in S : x \in MergeStores(S, S)
  BY InMerged, MergeEntryIdempotent
<1> QED  BY <1>1, <1>2

LEMMA MergePrintsInclude ==
    ASSUME NEW S \in SUBSET Entry, NEW T \in SUBSET Entry
    PROVE  Printed(MergeStores(S, T)) \subseteq Printed(MergeStores(T, S))
<1> DEFINE Seen(e) == [e EXCEPT !.value = Text[e.value]]
<1> SUFFICES ASSUME NEW x \in MergeStores(S, T)
             PROVE  \E y \in MergeStores(T, S) : Seen(x) = Seen(y)
  BY DEF Printed
<1>1. CASE x \in MergeStores(T, S)
  BY <1>1
<1>2. ASSUME NEW e \in S, NEW f \in T, e.key = f.key, x = MergeEntry(e, f)
      PROVE  \E y \in MergeStores(T, S) : Seen(x) = Seen(y)
  <2> DEFINE y == MergeEntry(f, e)
  <2>1. y \in MergeStores(T, S)
    BY <1>2, InMerged
  <2>2. /\ x \in Entry /\ y \in Entry /\ x.key = y.key /\ x.clock = y.clock
        /\ x.tombstone = y.tombstone /\ Text[x.value] = Text[y.value]
    BY <1>2, MergeEntryCommutes, MergeEntryFacts
  <2> HIDE DEF y
  <2>3. Seen(x) = Seen(y)
    BY <2>2 DEF Entry
  <2> QED  BY <2>1, <2>3
<1>3. \/ \E e \in S, f \in T : e.key = f.key /\ x = MergeEntry(e, f)
      \/ x \in MergeStores(T, S)
  BY InMerged
<1> QED  BY <1>1, <1>2, <1>3

LEMMA MergeStoresCommutes ==
    ASSUME NEW S \in SUBSET Entry, NEW T \in SUBSET Entry, OnePerKey(S), OnePerKey(T)
    PROVE  MergeCommutes(S, T)
<1>1. Printed(MergeStores(S, T)) = Printed(MergeStores(T, S))
  BY MergePrintsInclude
<1>2. ASSUME \A e \in S, f \in T : ~Tied(e, f)
      PROVE  MergeStores(S, T) = MergeStores(T, S)
  <2>1. \A e \in S, f \in T : e.key = f.key => MergeEntry(e, f) = MergeEntry(f, e)
    BY <1>2, MergeEntryCommutes
  <2>2. \A x : x \in MergeStores(S, T) <=> x \in MergeStores(T, S)
    <3> TAKE x
    <3> QED  BY <2>1, InMerged
  <2> QED  BY <2>2
<1>3. ASSUME NEW e \in S, NEW f \in T, Tied(e, f),
             MergeStores(S, T) = MergeStores(T, S)
      PROVE  FALSE
  <2>1. e.key = f.key
    BY <1>3 DEF Tied
  <2>2. MergeEntry(e, f) \in MergeStores(S, T) /\ MergeEntry(f, e) \in MergeStores(S, T)
    BY <1>3, <2>1, InMerged
  <2>3. OnePerKey(MergeStores(S, T))
    BY MergedStore
  <2>4. MergeEntry(e, f).key = MergeEntry(f, e).key
    BY <2>1, MergeEntryFacts
  <2>5. MergeEntry(e, f) = MergeEntry(f, e)
    BY <2>2, <2>3, <2>4 DEF OnePerKey
  <2> QED  BY <1>3, <2>1, <2>5, MergeEntryCommutes
<1>4. MergeStores(S, T) = MergeStores(T, S) <=> ~\E e \in S, f \in T : Tied(e, f)
  BY <1>2, <1>3
<1> QED  BY <1>1, <1>4 DEF MergeCommutes

LEMMA MergeStoresRegroups ==
    ASSUME NEW S \in SUBSET Entry, NEW T \in SUBSET Entry, NEW U \in SUBSET Entry,
           OnePerKey(S), OnePerKey(T), OnePerKey(U)
    PROVE  MergeStores(MergeStores(S, T), U) \subseteq MergeStores(S, MergeStores(T, U))
<1> DEFINE ST == MergeStores(S, T)
           TU == MergeStores(T, U)
<1> SUFFICES ASSUME NEW x \in MergeStores(ST, U)
             PROVE  x \in MergeStores(S, TU)
  OBVIOUS
<1>1. /\ ST \in SUBSET Entry
      /\ \A y \in TU : \E z \in T \cup U : z.key = y.key
      /\ \A z \in S \cup T : \E y \in ST : z.key = y.key
  <2>1. ST \in SUBSET Entry /\ \A k : (\E y \in ST : y.key = k) <=> (\E z \in S \cup T : z.key = k)
    BY MergedStore
  <2>2. \A k : (\E y \in TU : y.key = k) <=> (\E z \in T \cup U : z.key = k)
    BY MergedStore
  <2> HIDE DEF ST, TU
  <2> QED  BY <2>1, <2>2
<1>2. ASSUME NEW y \in ST
      PROVE  \/ \E s \in S, t \in T : s.key = t.key /\ s.key = y.key /\ y = MergeEntry(s, t)
             \/ y \in S /\ \A t \in T : t.key # y.key
             \/ y \in T /\ \A s \in S : s.key # y.key
  <2>1. \A s \in S, t \in T : s.key = t.key => MergeEntry(s, t).key = s.key
    BY MergeEntryFacts
  <2> QED  BY <2>1, InMerged
<1>3. /\ \A t \in T, u \in U : t.key = u.key => MergeEntry(t, u) \in TU
      /\ \A t \in T : (\A u \in U : u.key # t.key) => t \in TU
      /\ \A u \in U : (\A t \in T : t.key # u.key) => u \in TU
  BY InMerged
<1>4. /\ \A s \in S, y \in TU : s.key = y.key => MergeEntry(s, y) \in MergeStores(S, TU)
      /\ \A s \in S : (\A y \in TU : y.key # s.key) => s \in MergeStores(S, TU)
      /\ \A y \in TU : (\A s \in S : s.key # y.key) => y \in MergeStores(S, TU)
  BY InMerged
<1>5. \/ \E y \in ST, u \in U : y.key = u.key /\ x = MergeEntry(y, u)
      \/ x \in ST /\ \A u \in U : u.key # x.key
      \/ x \in U /\ \A y \in ST : y.key # x.key
  BY InMerged
<1> HIDE DEF ST, TU
<1>6. ASSUME NEW y \in ST, NEW u \in U, y.key = u.key, x = MergeEntry(y, u)
      PROVE  x \in MergeStores(S, TU)
  <2>1. ASSUME NEW s \in S, NEW t \in T, s.key = t.key, s.key = y.key, y = MergeEntry(s, t)
        PROVE  x \in MergeStores(S, TU)
    <3>1. /\ s \in Entry /\ t \in Entry /\ u \in Entry
          /\ s.key = t.key /\ t.key = u.key
      BY <1>6, <2>1
    <3>2. MergeEntry(t, u) \in TU
      BY <1>3, <3>1
    <3>3. MergeEntry(t, u).key = s.key
      BY <3>1, MergeEntryFacts
    <3>4. MergeEntry(MergeEntry(s, t), u) = MergeEntry(s, MergeEntry(t, u))
      BY <3>1, MergeEntryAssociates
    <3> QED  BY <1>4, <1>6, <2>1, <3>2, <3>3, <3>4
  <2>2. CASE y \in S /\ \A t \in T : t.key # y.key
    <3>1. u \in TU
      BY <1>3, <1>6, <2>2
    <3> QED  BY <1>4, <1>6, <2>2, <3>1
  <2>3. CASE y \in T /\ \A s \in S : s.key # y.key
    <3>1. x \in TU /\ x.key = y.key
      BY <1>3, <1>6, <2>3, MergeEntryFacts
    <3> QED  BY <1>4, <2>3, <3>1
  <2> QED  BY <1>2, <2>1, <2>2, <2>3
<1>7. ASSUME x \in ST, \A u \in U : u.key # x.key
      PROVE  x \in MergeStores(S, TU)
  <2>1. ASSUME NEW s \in S, NEW t \in T, s.key = t.key, s.key = x.key, x = MergeEntry(s, t)
        PROVE  x \in MergeStores(S, TU)
    BY <1>3, <1>4, <1>7, <2>1
  <2>2. CASE x \in S /\ \A t \in T : t.key # x.key
    BY <1>1, <1>4, <1>7, <2>2
  <2>3. CASE x \in T /\ \A s \in S : s.key # x.key
    BY <1>3, <1>4, <1>7, <2>3
  <2> QED  BY <1>2, <1>7, <2>1, <2>2, <2>3
<1>8. ASSUME x \in U, \A y \in ST : y.key # x.key
      PROVE  x \in MergeStores(S, TU)
  <2>1. \A z \in S \cup T : z.key # x.key
    BY <1>1, <1>8
  <2> QED  BY <1>3, <1>4, <1>8, <2>1
<1> QED  BY <1>5, <1>6, <1>7, <1>8

SameKeys(S, T) == \A k : (\E x \in S : x.key = k) <=> (\E x \in T : x.key = k)

LEMMA MergedKeys ==
    ASSUME NEW S \in SUBSET Entry, NEW T \in SUBSET Entry, OnePerKey(S), OnePerKey(T)
    PROVE  /\ MergeStores(S, T) \in SUBSET Entry
           /\ OnePerKey(MergeStores(S, T))
           /\ SameKeys(MergeStores(S, T), S \cup T)
BY MergedStore DEF SameKeys

(* Either grouping has one entry for each of the same keys. *)
LEMMA MergeStoresAssociates ==
    ASSUME NEW S \in SUBSET Entry, NEW T \in SUBSET Entry, NEW U \in SUBSET Entry,
           OnePerKey(S), OnePerKey(T), OnePerKey(U)
    PROVE  MergeStores(MergeStores(S, T), U) = MergeStores(S, MergeStores(T, U))
<1> DEFINE ST == MergeStores(S, T)
           TU == MergeStores(T, U)
           l == MergeStores(ST, U)
           r == MergeStores(S, TU)
<1>1. /\ ST \in SUBSET Entry /\ OnePerKey(ST) /\ SameKeys(ST, S \cup T)
  BY MergedKeys
<1>2. /\ TU \in SUBSET Entry /\ OnePerKey(TU) /\ SameKeys(TU, T \cup U)
  BY MergedKeys
<1>3. l \subseteq r
  BY MergeStoresRegroups
<1> HIDE DEF ST, TU
<1>4. SameKeys(l, ST \cup U)
  BY <1>1, MergedKeys
<1>5. OnePerKey(r) /\ SameKeys(r, S \cup TU)
  BY <1>2, MergedKeys
<1> HIDE DEF l, r
<1>6. ASSUME NEW y \in r PROVE y \in l
  <2>1. \E x \in l : x.key = y.key
    BY <1>1, <1>2, <1>4, <1>5 DEF SameKeys
  <2> QED  BY <1>3, <1>5, <2>1 DEF OnePerKey
<1>7. l = r
  BY <1>3, <1>6
<1> QED  BY <1>7 DEF l, r, ST, TU

-----------------------------------------------------------------------------
(* A store within the clock of its node, replayed keys apart *)
Covered(S, c) ==
    /\ S \in SUBSET Entry /\ OnePerKey(S) /\ c \in Clock
    /\ \A e \in S : e.key \notin replayed => Leq(e.clock, c)

(* The inductive invariant *)
MergeInv ==
    /\ TypeOK /\ StoreWithinClock
    /\ \A file \in files : file.node \in Node /\ Covered(file.entries, file.clock)

LEMMA MergeCovered ==
    ASSUME NEW S, NEW T, NEW c, NEW d, Covered(S, c), Covered(T, d)
    PROVE  /\ Covered(MergeStores(S, T), Join(c, d))
           /\ \A e \in S : \E f \in MergeStores(S, T) :
                f.key = e.key /\ Leq(e.clock, f.clock)
<1>1. /\ S \in SUBSET Entry /\ T \in SUBSET Entry /\ OnePerKey(S) /\ OnePerKey(T)
      /\ c \in Clock /\ d \in Clock
      /\ \A e \in S : /\ e.clock \in Clock /\ e \in Entry
                      /\ e.key \notin replayed => Leq(e.clock, c)
      /\ \A e \in T : /\ e.clock \in Clock /\ e \in Entry
                      /\ e.key \notin replayed => Leq(e.clock, d)
  BY DEF Covered, Entry
<1>2. MergeStores(S, T) \in SUBSET Entry /\ OnePerKey(MergeStores(S, T))
  BY <1>1, MergedStore
<1>3. Join(c, d) \in Clock /\ Leq(c, Join(c, d)) /\ Leq(d, Join(c, d))
  BY <1>1, JoinFacts, JoinLaws
<1>4. \A e \in S \cup T : e.key \notin replayed => Leq(e.clock, Join(c, d))
  BY <1>1, <1>3, LeqTransitive
<1>5. ASSUME NEW s \in S, NEW t \in T, s.key = t.key
      PROVE  /\ MergeEntry(s, t).clock = Join(s.clock, t.clock)
             /\ MergeEntry(s, t).key = s.key
             /\ s.key \notin replayed => Leq(Join(s.clock, t.clock), Join(c, d))
             /\ Leq(s.clock, Join(s.clock, t.clock))
  BY <1>1, <1>3, <1>4, <1>5, JoinLaws, MergeEntryFacts
<1>6. \A e \in MergeStores(S, T) : e.key \notin replayed => Leq(e.clock, Join(c, d))
  BY <1>4, <1>5, InMerged
<1>7. \A e \in S : \E f \in MergeStores(S, T) : f.key = e.key /\ Leq(e.clock, f.clock)
  <2> TAKE e \in S
  <2>1. CASE \E t \in T : e.key = t.key
    BY <1>5, <2>1, InMerged
  <2>2. CASE \A t \in T : t.key # e.key
    <3>1. e \in MergeStores(S, T)
      BY <2>2, InMerged
    <3>2. Leq(e.clock, e.clock)
      BY <1>1 DEF Leq, Clock
    <3> QED  BY <3>1, <3>2
  <2> QED  BY <2>1, <2>2
<1> QED  BY <1>2, <1>3, <1>6, <1>7 DEF Covered

LEMMA NodeCovered ==
    ASSUME MergeInv, NEW n \in Node PROVE Covered(store[n], clock[n])
BY DEF MergeInv, TypeOK, StoreWithinClock, Covered

LEMMA InitMergeInv == MergeInit => MergeInv
BY InitSound DEF MergeInit, MergeInv, SoundInv

(* A file stays within its clock whatever is replayed later.                *)
LEMMA FilesCovered ==
    ASSUME MergeInv, files' = files, replayed \subseteq replayed'
    PROVE  (\A file \in files : file.node \in Node /\ Covered(file.entries, file.clock))'
BY DEF MergeInv, Covered

(* A node takes over a store that a clock covers.                           *)
LEMMA ReplaceStore ==
    ASSUME MergeInv, NEW n \in Node, NEW S, NEW c, NEW h \in SUBSET Entry, Covered(S, c),
           store' = [store EXCEPT ![n] = S], clock' = [clock EXCEPT ![n] = c],
           seen' = [seen EXCEPT ![n] = h], net' = net, replayed' = replayed,
           files' = files
    PROVE  MergeInv'
<1>1. TypeOK /\ StoreWithinClock /\ S \in SUBSET Entry /\ OnePerKey(S) /\ c \in Clock
  BY DEF MergeInv, Covered
<1>2. \A m \in Node : /\ store'[m] = IF m = n THEN S ELSE store[m]
                      /\ clock'[m] = IF m = n THEN c ELSE clock[m]
  BY <1>1 DEF TypeOK
<1>3. TypeOK'
  BY <1>1, <1>2 DEF TypeOK
<1>4. StoreWithinClock'
  BY <1>1, <1>2 DEF StoreWithinClock, Covered
<1> QED  BY <1>3, <1>4, FilesCovered DEF MergeInv

LEMMA MergeMergeInv ==
    ASSUME MergeInv, NEW n \in Node, NEW m \in Node, Merge(n, m), UNCHANGED files
    PROVE  MergeInv'
<1>1. Covered(MergeStores(store[n], store[m]), Join(clock[n], clock[m]))
  BY NodeCovered, MergeCovered
<1>2. seen[n] \cup seen[m] \in SUBSET Entry
  BY DEF MergeInv, TypeOK
<1> QED  BY <1>1, <1>2, ReplaceStore DEF Merge

LEMMA RestartMergeInv ==
    ASSUME MergeInv, NEW file \in files, Restart(file)
    PROVE  MergeInv'
<1>1. /\ file.node \in Node /\ Covered(file.entries, file.clock)
      /\ file.entries \in SUBSET Entry
  BY DEF MergeInv, Covered
<1> QED  BY <1>1, ReplaceStore DEF Restart

LEMMA SaveMergeInv ==
    ASSUME MergeInv, NEW n \in Node, Save(n)
    PROVE  MergeInv'
<1>1. TypeOK' /\ StoreWithinClock'
  BY DEF Save, MergeInv, vars, TypeOK, StoreWithinClock
<1>2. files' = files \cup {[node |-> n, entries |-> store[n], clock |-> clock[n]]}
      /\ replayed' = replayed
  BY DEF Save, vars
<1>3. Covered(store[n], clock[n])
  BY NodeCovered
<1> QED  BY <1>1, <1>2, <1>3 DEF MergeInv, Covered

LEMMA NextMergeInv == MergeInv /\ [MergeNext]_mergeVars => MergeInv'
<1> SUFFICES ASSUME MergeInv, [MergeNext]_mergeVars PROVE MergeInv'
  OBVIOUS
<1>0. TypeOK /\ StoreWithinClock
  BY DEF MergeInv
<1>1. CASE Write /\ UNCHANGED files
  <2>1. PICK n \in Node, e \in Entry : WritesOn(InFlight, n, e)
    BY <1>0, <1>1, WriteSteps
  <2>2. TypeOK' /\ StoreWithinClock'
    BY <1>0, <2>1, WriteKeeps
  <2>3. replayed \subseteq replayed'
    BY <2>1 DEF WritesOn
  <2> QED  BY <1>1, <2>2, <2>3, FilesCovered DEF MergeInv
<1>2. CASE Exchange /\ UNCHANGED files
  <2>1. Sends \/ \E B : TakeInFrom(InFlight, B)
    BY <1>0, <1>2, ExchangeSteps
  <2>2. TypeOK' /\ StoreWithinClock' /\ replayed' = replayed
    BY <1>0, <2>1, SendKeeps, TakeInKeeps DEF Sends, TakeInFrom
  <2> QED  BY <1>2, <2>2, FilesCovered DEF MergeInv
<1>3. CASE UNCHANGED mergeVars
  BY <1>3 DEF mergeVars, vars, MergeInv, TypeOK, StoreWithinClock, Covered
<1> QED
  BY <1>1, <1>2, <1>3, MergeMergeInv, RestartMergeInv, SaveMergeInv DEF MergeNext

LEMMA MergeInvAlways == MergeSpec => []MergeInv
BY InitMergeInv, NextMergeInv, PTL DEF MergeSpec

(* merge() is idempotent and associative on the stores of any nodes and     *)
(* files, and commutative but for the value taken from a tie of one text,   *)
(* whatever was written, merged, exchanged, saved and restarted before.     *)
THEOREM MergeIsLawful == MergeSpec => []MergeLaws
<1>1. MergeInv => MergeLaws
  <2> SUFFICES ASSUME MergeInv, NEW S \in Stores, NEW T \in Stores, NEW U \in Stores
               PROVE  /\ MergeStores(S, S) = S
                      /\ MergeCommutes(S, T)
                      /\ MergeStores(MergeStores(S, T), U)
                           = MergeStores(S, MergeStores(T, U))
    BY DEF MergeLaws
  <2>1. \A V \in Stores : V \in SUBSET Entry /\ OnePerKey(V)
    BY NodeCovered DEF MergeInv, Covered, Stores
  <2> QED
    BY <2>1, MergeStoresIdempotent, MergeStoresCommutes, MergeStoresAssociates
<1> QED  BY MergeInvAlways, <1>1, PTL

(* A merge moves no clock of an entry back and leaves the clock of the node *)
(* above all of them, replayed keys apart, so that its next write wins,     *)
(* also after a restart from an old file and beside anti-entropy.           *)
THEOREM MergeMovesForward == MergeSpec => MergeAdvances
<1>1. ASSUME MergeInv, NEW n \in Node, NEW m \in Node, Merge(n, m)
      PROVE  /\ \A e \in store[n] : \E f \in store'[n] :
                  f.key = e.key /\ Leq(e.clock, f.clock)
             /\ \A f \in store'[n] :
                  f.key \notin replayed => Leq(f.clock, clock'[n])
  <2>1. /\ store'[n] = MergeStores(store[n], store[m])
        /\ clock'[n] = Join(clock[n], clock[m])
    BY <1>1 DEF Merge, MergeInv, TypeOK
  <2>2. Covered(store[n], clock[n]) /\ Covered(store[m], clock[m])
    BY <1>1, NodeCovered
  <2>3. /\ Covered(MergeStores(store[n], store[m]), Join(clock[n], clock[m]))
        /\ \A e \in store[n] : \E f \in MergeStores(store[n], store[m]) :
             f.key = e.key /\ Leq(e.clock, f.clock)
    BY <2>2, MergeCovered
  <2> QED  BY <2>1, <2>3 DEF Covered
<1>2. MergeInv => [\A n, m \in Node : Merge(n, m) =>
         /\ \A e \in store[n] : \E f \in store'[n] :
              f.key = e.key /\ Leq(e.clock, f.clock)
         /\ \A f \in store'[n] :
              f.key \notin replayed => Leq(f.clock, clock'[n])]_mergeVars
  BY <1>1
<1> QED  BY MergeInvAlways, <1>2, PTL DEF MergeAdvances

-----------------------------------------------------------------------------
(* Keys of one writer: no causally newer entry is lost, nodes with the same *)
(* history agree, and the stores implement the versioned map.  All of it    *)
(* holds for replayed keys as well.                                         *)

OneWriter == \A k \in Key : SingleWriter(k)

(* The writer of a key has seen all its entries and knows their clocks.     *)
OwnerKnows ==
    \A e \in Entries : SingleWriter(e.key) =>
        Leq(e.clock, clock[Owner[e.key]]) /\ e \in seen[Owner[e.key]]

(* The entries of a key with one writer are never concurrent.               *)
Chain ==
    \A e, f \in Entries : e.key = f.key /\ SingleWriter(e.key) =>
        Leq(e.clock, f.clock) \/ Leq(f.clock, e.clock)

(* What a node holds of a key is at or above all that it was handed of it.  *)
CoversSeen ==
    \A n \in Node : \A s \in seen[n] : SingleWriter(s.key) =>
        \E e \in store[n] : e.key = s.key /\ Leq(s.clock, e.clock)

(* The inductive invariant *)
OwnedInv == SoundInv /\ OwnerKnows /\ Chain /\ CoversSeen

-----------------------------------------------------------------------------
LEMMA OwnerFacts ==
    ASSUME NEW k \in Key, SingleWriter(k)
    PROVE  Owner[k] \in Node /\ \A n \in Writers[k] : n = Owner[k]
BY DEF SingleWriter, Owner

LEMMA EntryFacts ==
    ASSUME NEW e \in Entry
    PROVE  e.key \in Key /\ e.clock \in Clock
BY DEF Entry

LEMMA LeqReflexive ==
    ASSUME NEW c \in Clock PROVE Leq(c, c)
BY DEF Leq, Clock

(* Everything the owner writes is at the new value of its clock: a replay   *)
(* joins the clock of an entry that the owner knows already.                *)
LEMMA OwnerWrite ==
    ASSUME OwnedInv, NEW n \in Node, NEW e \in Entry, Writes(n, e),
           SingleWriter(e.key)
    PROVE  n = Owner[e.key] /\ e.clock = Tick(clock[n], n)
<1> DEFINE c == Tick(clock[n], n)
<1>1. n = Owner[e.key]
  BY OwnerFacts, EntryFacts DEF Writes, WritesOn
<1>2. clock[n] \in Clock
  BY DEF OwnedInv, SoundInv, TypeOK
<1>3. c \in Clock /\ Leq(clock[n], c)
  BY <1>2, TickFacts
<1>4. ASSUME NEW x \in Entries, Replays(n, e, x) PROVE e.clock = c
  <2>1. x \in Entry /\ x.clock \in Clock /\ Leq(x.clock, clock[n])
    BY <1>1, <1>4, KnownEntry, EntryFacts DEF OwnedInv, OwnerKnows, Replays
  <2>2. e.clock = Join(x.clock, c)
    BY <1>4 DEF Replays
  <2> HIDE DEF c
  <2>3. Leq(x.clock, c)
    BY <1>2, <1>3, <2>1, LeqTransitive
  <2>4. e.clock \in Clock
    BY EntryFacts
  <2>5. \A i \in Node : e.clock[i] = c[i]
    <3> TAKE i \in Node
    <3>1. /\ e.clock[i] \in {x.clock[i], c[i]} /\ e.clock[i] >= c[i]
      BY <1>3, <2>1, <2>2, JoinFacts
    <3>2. x.clock[i] \in Nat /\ c[i] \in Nat /\ x.clock[i] <= c[i]
      BY <1>3, <2>1, <2>3 DEF Clock, Leq
    <3> QED  BY <3>1, <3>2
  <2> QED  BY <1>3, <2>4, <2>5 DEF Clock
<1> QED  BY <1>1, <1>4 DEF Writes, WritesOn

LEMMA OwnedWrite ==
    ASSUME OwnedInv, NEW n \in Node, NEW e \in Entry, Writes(n, e)
    PROVE  /\ OwnedInv'
           /\ SingleWriter(e.key) =>
                store' = [store EXCEPT ![n] = Put(store[n], {e})]
           /\ Entries' = Entries \cup {e}
<1> DEFINE c == Tick(clock[n], n)
<1>0. /\ clock \in [Node -> Clock] /\ seen \in [Node -> SUBSET Entry]
      /\ store \in [Node -> SUBSET Entry] /\ SoundInv
  BY DEF OwnedInv, SoundInv, TypeOK
<1>1. SingleWriter(e.key) => n = Owner[e.key] /\ e.clock = c
  BY OwnerWrite
<1>2. c \in Clock /\ c[n] = clock[n][n] + 1 /\ Leq(clock[n], c)
  BY <1>0, TickFacts
<1> HIDE DEF c
<1>3. /\ \A m \in Node : clock'[m] = IF m = n THEN c ELSE clock[m]
      /\ \A m \in Node : seen'[m] = IF m = n THEN seen[n] \cup {e} ELSE seen[m]
  BY <1>0 DEF Writes, WritesOn, c
<1>4. Entries' = Entries \cup {e}
  BY <1>3 DEF Entries
<1>5. \A f \in Entries : /\ f \in Entry /\ f.clock \in Clock /\ f.key \in Key
                         /\ f.clock[n] <= clock[n][n]
  BY <1>0, KnownEntry, EntryFacts
<1>6. SingleWriter(e.key) =>
        \A f \in Entries : f.key = e.key => Leq(f.clock, clock[n]) /\ Before(f.clock, c)
  <2> SUFFICES ASSUME SingleWriter(e.key), NEW f \in Entries, f.key = e.key
               PROVE  Leq(f.clock, clock[n]) /\ Before(f.clock, c)
    OBVIOUS
  <2>1. Leq(f.clock, clock[n])
    BY <1>1 DEF OwnedInv, OwnerKnows
  <2>2. Leq(f.clock, c)
    BY <1>0, <1>2, <1>5, <2>1, LeqTransitive
  <2>3. f.clock # c
    <3>1. clock[n][n] \in Nat
      BY <1>0 DEF Clock
    <3> QED  BY <1>2, <1>5, <3>1
  <2> QED  BY <2>1, <2>2, <2>3 DEF Before
<1>7. store[n] \subseteq Entries
  BY DEF OwnedInv, SoundInv, NothingInvented, Entries
<1>8. SingleWriter(e.key) => store' = [store EXCEPT ![n] = Put(store[n], {e})]
  BY <1>1, <1>6, <1>7 DEF Writes, WritesOn, Accepts, ShouldUpdate
<1>9. SoundInv'
  BY <1>0, WriteSound
<1>10. OwnerKnows'
  <2> SUFFICES ASSUME NEW f \in Entries', SingleWriter(f.key)
               PROVE  Leq(f.clock, clock'[Owner[f.key]]) /\ f \in seen'[Owner[f.key]]
    BY DEF OwnerKnows
  <2>1. CASE f = e
    BY <1>1, <1>2, <1>3, <2>1, LeqReflexive
  <2>2. CASE f \in Entries
    <3> DEFINE w == Owner[f.key]
    <3>1. w \in Node /\ Leq(f.clock, clock[w]) /\ f \in seen[w]
      BY <1>5, <2>2, OwnerFacts DEF OwnedInv, OwnerKnows
    <3>2. Leq(clock[w], clock'[w]) /\ clock[w] \in Clock /\ clock'[w] \in Clock
      BY <1>0, <1>2, <1>3, <3>1, LeqReflexive
    <3> HIDE DEF w
    <3>3. Leq(f.clock, clock'[w])
      BY <1>5, <2>2, <3>1, <3>2, LeqTransitive
    <3> QED  BY <1>3, <3>1, <3>3 DEF w
  <2> QED  BY <1>4, <2>1, <2>2
<1>11. Chain'
  BY <1>1, <1>2, <1>4, <1>6, LeqReflexive DEF OwnedInv, Chain, Before
<1>12. CoversSeen'
  <2> SUFFICES ASSUME NEW m \in Node, NEW s \in seen'[m], SingleWriter(s.key)
               PROVE  \E f \in store'[m] : f.key = s.key /\ Leq(s.clock, f.clock)
    BY DEF CoversSeen
  <2>1. CASE m # n
    <3>1. store'[m] = store[m] /\ s \in seen[m]
      BY <1>0, <1>3, <2>1 DEF Writes, WritesOn
    <3> QED  BY <3>1 DEF OwnedInv, CoversSeen
  <2>2. CASE m = n
    <3>1. store'[n] \in {store[n], Put(store[n], {e})}
      BY <1>0 DEF Writes, WritesOn
    <3>2. CASE s.key = e.key
      <4>0. store'[n] = Put(store[n], {e}) /\ e \in store'[n]
        BY <1>0, <1>8, <3>2 DEF Put
      <4>1. Leq(s.clock, c)
        BY <1>1, <1>2, <1>3, <1>6, <2>2, <3>2, LeqReflexive DEF Before, Entries
      <4> QED  BY <1>1, <2>2, <3>2, <4>0, <4>1
    <3>3. CASE s.key # e.key
      <4>1. PICK f \in store[n] : f.key = s.key /\ Leq(s.clock, f.clock)
        BY <1>3, <2>2, <3>3 DEF OwnedInv, CoversSeen
      <4> QED  BY <2>2, <3>1, <3>3, <4>1 DEF Put
    <3> QED  BY <3>2, <3>3
  <2> QED  BY <2>1, <2>2
<1> QED  BY <1>4, <1>8, <1>9, <1>10, <1>11, <1>12 DEF OwnedInv

LEMMA OwnedTakeIn ==
    ASSUME OwnedInv, NEW B, TakeIn(B)
    PROVE  OwnedInv' /\ Entries' = Entries
<1> DEFINE A(m) == {e \in B[m] : Accepts(store[m], e)}
<1>0. /\ clock \in [Node -> Clock] /\ clock' \in [Node -> Clock]
      /\ seen \in [Node -> SUBSET Entry] /\ store \in [Node -> SUBSET Entry]
      /\ SoundInv
  BY DEF OwnedInv, SoundInv, TypeOK, TakeIn, TakeInFrom
<1>1. \A m \in Node :
        /\ store'[m] = Put(store[m], A(m))
        /\ IsJoinOf(clock'[m], clock[m], A(m))
        /\ seen'[m] = seen[m] \cup B[m]
        /\ B[m] \subseteq Entries
  BY DEF TakeIn, TakeInFrom, TakesIn
<1>2. Entries' = Entries
  <2>1. \A m \in Node : seen[m] \subseteq seen'[m] /\ seen'[m] \subseteq Entries
    BY <1>1 DEF Entries
  <2> QED  BY <2>1 DEF Entries
<1>3. \A f \in Entries : f \in Entry /\ f.clock \in Clock /\ f.key \in Key
  BY <1>0, KnownEntry, EntryFacts
<1>4. SoundInv'
  BY <1>0, TakeInSound
<1>5. OwnerKnows'
  <2> SUFFICES ASSUME NEW f \in Entries, SingleWriter(f.key)
               PROVE  Leq(f.clock, clock'[Owner[f.key]]) /\ f \in seen'[Owner[f.key]]
    BY <1>2 DEF OwnerKnows
  <2> DEFINE w == Owner[f.key]
  <2>1. w \in Node /\ Leq(f.clock, clock[w]) /\ f \in seen[w]
    BY <1>3, OwnerFacts DEF OwnedInv, OwnerKnows
  <2> HIDE DEF w, A
  <2>2. Leq(clock[w], clock'[w])
    BY <1>0, <1>1, <2>1 DEF IsJoinOf, Leq, Clock
  <2>3. Leq(f.clock, clock'[w])
    BY <1>0, <1>3, <2>1, <2>2, LeqTransitive
  <2> QED  BY <1>1, <2>1, <2>3 DEF w
<1>6. Chain'
  BY <1>2 DEF OwnedInv, Chain
<1>7. ASSUME NEW m \in Node, NEW s \in Entries, NEW e \in store[m],
             SingleWriter(s.key), e.key = s.key, Leq(s.clock, e.clock)
      PROVE  \E f \in store'[m] : f.key = s.key /\ Leq(s.clock, f.clock)
  <2>1. CASE \A a \in A(m) : a.key # e.key
    BY <1>1, <1>7, <2>1 DEF Put
  <2>2. ASSUME NEW a \in A(m), a.key = e.key
        PROVE  \E f \in store'[m] : f.key = s.key /\ Leq(s.clock, f.clock)
    <3>1. a \in Entries /\ e \in Entries
      BY <1>1 DEF OwnedInv, SoundInv, NothingInvented, Entries
    <3>2. ShouldUpdate(e.clock, a.clock)
      BY <2>2 DEF Accepts
    <3>3. Leq(e.clock, a.clock)
      BY <1>7, <2>2, <3>1, <3>2
      DEF OwnedInv, Chain, ShouldUpdate, Before, Concurrent
    <3> HIDE DEF A
    <3>4. Leq(s.clock, a.clock)
      BY <1>3, <1>7, <3>1, <3>3, LeqTransitive
    <3> QED  BY <1>1, <1>7, <2>2, <3>4 DEF Put
  <2> QED  BY <2>1, <2>2
<1>8. CoversSeen'
  <2> SUFFICES ASSUME NEW m \in Node, NEW s \in seen'[m], SingleWriter(s.key)
               PROVE  \E f \in store'[m] : f.key = s.key /\ Leq(s.clock, f.clock)
    BY DEF CoversSeen
  <2>1. CASE s \in seen[m]
    <3>1. PICK e \in store[m] : e.key = s.key /\ Leq(s.clock, e.clock)
      BY <2>1 DEF OwnedInv, CoversSeen
    <3>2. s \in Entries
      BY <2>1 DEF Entries
    <3> QED  BY <1>7, <3>1, <3>2
  <2>2. CASE s \in A(m)
    <3>1. s \in store'[m] /\ s \in Entries
      BY <1>1, <2>2 DEF Put
    <3> QED  BY <1>3, <3>1, LeqReflexive
  <2>3. CASE s \in B[m] /\ ~Accepts(store[m], s)
    <3>1. PICK e \in store[m] : e.key = s.key /\ ~ShouldUpdate(e.clock, s.clock)
      BY <2>3 DEF Accepts
    <3>2. s \in Entries /\ e \in Entries
      BY <1>1, <2>3 DEF OwnedInv, SoundInv, NothingInvented, Entries
    <3>3. Leq(s.clock, e.clock)
      BY <3>1, <3>2 DEF OwnedInv, Chain, ShouldUpdate, Before
    <3> QED  BY <1>7, <3>1, <3>2, <3>3
  <2> QED  BY <1>1, <2>1, <2>2, <2>3
<1> QED  BY <1>2, <1>4, <1>5, <1>6, <1>8 DEF OwnedInv

LEMMA OwnedSend ==
    ASSUME OwnedInv, Sends
    PROVE  OwnedInv' /\ store' = store
<1>1. SoundInv'
  BY SendSound DEF OwnedInv
<1> QED  BY <1>1 DEF OwnedInv, Sends, OwnerKnows, Chain, CoversSeen, Entries

LEMMA OwnedInit == Init => OwnedInv
<1> SUFFICES ASSUME Init PROVE OwnedInv
  OBVIOUS
<1>1. Entries = {}
  BY DEF Init, Entries
<1> QED  BY <1>1, InitSound DEF Init, OwnedInv, OwnerKnows, Chain, CoversSeen

LEMMA OwnedNext ==
    ASSUME OwnedInv, [Next]_vars \/ [SyncNext]_vars
    PROVE  OwnedInv'
<1>1. SoundInv
  BY DEF OwnedInv
<1> QED  BY <1>1, Steps, SyncSteps, OwnedWrite, OwnedTakeIn, OwnedSend

LEMMA OwnedAlways == (Spec => []OwnedInv) /\ (SyncSpec => []OwnedInv)
<1>1. OwnedInv /\ [Next]_vars => OwnedInv'
  BY OwnedNext
<1>2. OwnedInv /\ [SyncNext]_vars => OwnedInv'
  BY OwnedNext
<1>3. Spec => []OwnedInv
  BY OwnedInit, <1>1, PTL DEF Spec
<1>4. SyncSpec => []OwnedInv
  BY OwnedInit, <1>2, PTL DEF SyncSpec
<1> QED  BY <1>3, <1>4

-----------------------------------------------------------------------------
(* The invariants of the runs *)

LEMMA HeldCoversHistory ==
    ASSUME OwnedInv, NEW n \in Node, NEW k, SingleWriter(k),
           NEW e \in Held(n, k), NEW s \in History(n, k)
    PROVE  /\ Leq(s.clock, e.clock)
           /\ s \in Entries /\ e \in Entries /\ e \in History(n, k)
<1>1. PICK f \in store[n] : f.key = s.key /\ Leq(s.clock, f.clock)
  BY DEF OwnedInv, CoversSeen, History
<1>2. f = e
  BY <1>1 DEF OwnedInv, SoundInv, TypeOK, OnePerKey, Held, History
<1> QED  BY <1>1, <1>2
  DEF OwnedInv, SoundInv, NothingInvented, Entries, Held, History

LEMMA NoLossFromOwned == OwnedInv => NoCausalLoss
<1> SUFFICES ASSUME OwnedInv, NEW n \in Node, NEW k \in Key, SingleWriter(k),
                    NEW e \in Held(n, k), NEW s \in History(n, k)
             PROVE  ~Before(e.clock, s.clock)
  BY DEF NoCausalLoss
<1>1. Leq(s.clock, e.clock) /\ s \in Entries /\ e \in Entries
  BY HeldCoversHistory
<1>2. s.clock \in Clock /\ e.clock \in Clock
  BY <1>1, KnownEntry, EntryFacts DEF OwnedInv
<1> QED  BY <1>1, <1>2, LeqAntisymmetric DEF Before

(* Of two nodes with the same history of a key, either holds what the other *)
(* holds: the two entries cover each other and so have the same clock.      *)
LEMMA SameHistorySameEntry ==
    ASSUME OwnedInv, NEW n \in Node, NEW m \in Node, NEW k \in Key,
           SingleWriter(k), History(n, k) = History(m, k)
    PROVE  Held(n, k) \subseteq Held(m, k)
<1> SUFFICES ASSUME NEW e \in Held(n, k) PROVE e \in Held(m, k)
  OBVIOUS
<1>1. e \in History(n, k) /\ e \in History(m, k) /\ e.key = k
  BY DEF OwnedInv, SoundInv, NothingInvented, Held, History
<1>2. PICK f \in Held(m, k) : f.key = k
  BY <1>1 DEF OwnedInv, CoversSeen, Held, History
<1>3. Leq(e.clock, f.clock) /\ f \in History(n, k) /\ f \in Entries
  BY <1>1, HeldCoversHistory
<1>4. Leq(f.clock, e.clock) /\ e \in Entries
  BY <1>3, HeldCoversHistory
<1>5. e.clock \in Clock /\ f.clock \in Clock
  BY <1>3, <1>4, KnownEntry, EntryFacts DEF OwnedInv
<1>6. e.clock = f.clock
  BY <1>3, <1>4, <1>5, LeqAntisymmetric
<1>7. e = f
  BY <1>1, <1>2, <1>3, <1>4, <1>6 DEF OwnedInv, SoundInv, SameClockSameEntry
<1> QED  BY <1>7

LEMMA ConvergenceFromOwned == OwnedInv => OwnedKeyConvergence
<1> SUFFICES ASSUME OwnedInv, NEW n \in Node, NEW m \in Node, NEW k \in Key,
                    SingleWriter(k), History(n, k) = History(m, k)
             PROVE  Held(n, k) = Held(m, k)
  BY DEF OwnedKeyConvergence
<1>1. Held(n, k) \subseteq Held(m, k)
  BY SameHistorySameEntry
<1>2. Held(m, k) \subseteq Held(n, k)
  BY SameHistorySameEntry
<1> QED  BY <1>1, <1>2

(* A node never stores an entry of a key with one writer that is causally   *)
(* older than one it was handed before, over the network and under the      *)
(* pairwise synchronisation, whoever writes the other keys.                 *)
THEOREM NothingNewerIsLost ==
    (Spec => []NoCausalLoss) /\ (SyncSpec => []NoCausalLoss)
<1>1. (Spec => []OwnedInv) /\ (SyncSpec => []OwnedInv)
  BY OwnedAlways
<1> QED  BY <1>1, NoLossFromOwned, PTL

(* Any two nodes that were handed the same entries of a key with one        *)
(* writer, in any order and any number of times, hold the same entry.       *)
THEOREM NodesConverge ==
    (Spec => []OwnedKeyConvergence) /\ (SyncSpec => []OwnedKeyConvergence)
<1>1. (Spec => []OwnedInv) /\ (SyncSpec => []OwnedInv)
  BY OwnedAlways
<1> QED  BY <1>1, ConvergenceFromOwned, PTL

-----------------------------------------------------------------------------
(* The refinement *)

(* HeldVersion[n][k], as a function of the store of n *)
Version(S, k) ==
    IF {e \in S : e.key = k} = {} THEN 0
    ELSE (CHOOSE e \in S : e.key = k).clock[Owner[k]]

LEMMA VersionOfEntry ==
    ASSUME NEW S, OnePerKey(S), NEW e \in S, NEW k, e.key = k
    PROVE  Version(S, k) = e.clock[Owner[k]]
<1>1. (CHOOSE f \in S : f.key = k) = e
  BY DEF OnePerKey
<1> QED  BY <1>1 DEF Version

LEMMA VersionOfNone ==
    ASSUME NEW S, NEW k, \A e \in S : e.key # k
    PROVE  Version(S, k) = 0
BY DEF Version

LEMMA VersionInNat ==
    ASSUME OneWriter, NEW S \in SUBSET Entry, OnePerKey(S), NEW k \in Key
    PROVE  Version(S, k) \in Nat
<1>1. CASE \A e \in S : e.key # k
  BY <1>1, VersionOfNone
<1>2. ASSUME NEW e \in S, e.key = k PROVE Version(S, k) \in Nat
  <2>1. Version(S, k) = e.clock[Owner[k]]
    BY <1>2, VersionOfEntry
  <2> QED  BY <2>1, OwnerFacts, EntryFacts DEF Clock, OneWriter
<1> QED  BY <1>1, <1>2

LEMMA HeldVersionIs ==
    /\ HeldVersion = [n \in Node |-> [k \in Key |-> Version(store[n], k)]]
    /\ HeldVersion' = [n \in Node |-> [k \in Key |-> Version(store'[n], k)]]
BY DEF HeldVersion, Version, Held

(* The writer of a key holds its latest version.                            *)
LEMMA OwnerIsLatest ==
    ASSUME OneWriter, OwnedInv, NEW e \in Entries
    PROVE  e.clock[Owner[e.key]] <= Version(store[Owner[e.key]], e.key)
<1> DEFINE w == Owner[e.key]
<1>1. /\ e \in Entry /\ e.clock \in Clock /\ w \in Node /\ e \in seen[w]
      /\ SingleWriter(e.key)
  BY KnownEntry, EntryFacts, OwnerFacts DEF OwnedInv, OwnerKnows, OneWriter
<1>2. PICK f \in store[w] : f.key = e.key /\ Leq(e.clock, f.clock)
  BY <1>1 DEF OwnedInv, CoversSeen
<1>3. OnePerKey(store[w])
  BY <1>1 DEF OwnedInv, SoundInv, TypeOK
<1> HIDE DEF w
<1>4. Version(store[w], e.key) = f.clock[Owner[e.key]]
  BY <1>2, <1>3, VersionOfEntry
<1> QED  BY <1>1, <1>2, <1>4 DEF Leq, w

LEMMA WritePublishes ==
    ASSUME OneWriter, OwnedInv, NEW n \in Node, NEW e \in Entry, Writes(n, e)
    PROVE  Map!Publish(e.key)
<1> DEFINE k == e.key
           V(m, j) == Version(store[m], j)
           W(m, j) == Version(store'[m], j)
<1>0. /\ OwnedInv' /\ store' = [store EXCEPT ![n] = Put(store[n], {e})]
      /\ store \in [Node -> SUBSET Entry] /\ n = Owner[k] /\ k \in Key
      /\ e.clock[n] = clock[n][n] + 1 /\ clock[n][n] \in Nat
  <2>1. SoundInv
    BY DEF OwnedInv
  <2>0. k \in Key /\ SingleWriter(k)
    BY EntryFacts DEF OneWriter
  <2>2. OwnedInv' /\ store' = [store EXCEPT ![n] = Put(store[n], {e})]
    BY <2>0, OwnedWrite
  <2>3. n = Owner[k] /\ k \in Key
    BY <2>0, OwnerWrite
  <2>4. e.clock[n] = clock[n][n] + 1
    BY <2>1, WriteClock
  <2>5. store \in [Node -> SUBSET Entry] /\ clock[n][n] \in Nat
    BY <2>1 DEF SoundInv, TypeOK, Clock
  <2> QED  BY <2>2, <2>3, <2>4, <2>5
<1>1. \A m \in Node : OnePerKey(store[m]) /\ OnePerKey(store'[m])
  BY <1>0 DEF OwnedInv, SoundInv, TypeOK
<1>2. store'[n] = Put(store[n], {e}) /\ e \in store'[n]
  BY <1>0 DEF Put
<1>3. W(n, k) = e.clock[n]
  <2>1. OnePerKey(store'[n])
    BY <1>1
  <2>2. Version(store'[n], e.key) = e.clock[Owner[e.key]]
    BY <1>2, <2>1, VersionOfEntry
  <2> QED  BY <1>0, <2>2
<1>4. V(n, k) <= clock[n][n]
  <2>1. CASE \A f \in store[n] : f.key # k
    BY <1>0, <2>1, VersionOfNone
  <2>2. ASSUME NEW f \in store[n], f.key = k PROVE V(n, k) <= clock[n][n]
    <3>1. V(n, k) = f.clock[n]
      BY <1>0, <1>1, <2>2, VersionOfEntry
    <3>2. f \in Entries
      BY DEF OwnedInv, SoundInv, NothingInvented, Entries
    <3> QED  BY <3>1, <3>2, KnownEntry DEF OwnedInv
  <2> QED  BY <2>1, <2>2
<1>5. V(n, k) \in Nat
  BY <1>0, <1>1, VersionInNat
<1>6. W(n, k) > V(n, k)
  BY <1>0, <1>3, <1>4, <1>5
<1>7. \A m \in Node, j \in Key : m # n \/ j # k => W(m, j) = V(m, j)
  <2> SUFFICES ASSUME NEW m \in Node, NEW j \in Key, m # n \/ j # k
               PROVE  W(m, j) = V(m, j)
    OBVIOUS
  <2>1. CASE m # n
    BY <1>0, <2>1
  <2>2. CASE m = n /\ j # k
    <3>1. \A f : f \in store'[n] /\ f.key = j <=> f \in store[n] /\ f.key = j
      BY <1>2, <2>2 DEF Put
    <3>2. CASE \A f \in store[n] : f.key # j
      BY <2>2, <3>1, <3>2, VersionOfNone
    <3>3. ASSUME NEW f \in store[n], f.key = j PROVE W(m, j) = V(m, j)
      <4>1. W(n, j) = f.clock[Owner[j]]
        BY <1>1, <3>1, <3>3, VersionOfEntry
      <4>2. V(n, j) = f.clock[Owner[j]]
        BY <1>1, <3>3, VersionOfEntry
      <4> QED  BY <2>2, <4>1, <4>2
    <3> QED  BY <3>2, <3>3
  <2> QED  BY <2>1, <2>2
<1>8. HeldVersion'[n][k] = W(n, k) /\ HeldVersion[n][k] = V(n, k)
  BY <1>0, HeldVersionIs
<1>9. HeldVersion' = [HeldVersion EXCEPT ![n][k] = HeldVersion'[n][k]]
  <2>1. HeldVersion = [m \in Node |-> [j \in Key |-> V(m, j)]]
    BY HeldVersionIs
  <2>2. HeldVersion' = [m \in Node |-> [j \in Key |-> W(m, j)]]
    BY HeldVersionIs
  <2> DEFINE w == HeldVersion'[n][k]
             F == [HeldVersion[n] EXCEPT ![k] = w]
  <2>3. /\ [HeldVersion EXCEPT ![n][k] = w] = [HeldVersion EXCEPT ![n] = F]
        /\ w = W(n, k)
    BY <1>8, <2>1
  <2> HIDE DEF V, W, w
  <2>4. F = [j \in Key |-> W(n, j)]
    BY <1>0, <1>7, <2>1, <2>3
  <2>5. \A m \in Node : m # n => HeldVersion[m] = [j \in Key |-> W(m, j)]
    BY <1>7, <2>1
  <2> HIDE DEF F
  <2>6. HeldVersion' = [HeldVersion EXCEPT ![n] = F]
    BY <2>1, <2>2, <2>4, <2>5
  <2> QED  BY <2>3, <2>6 DEF w
<1> QED  BY <1>0, <1>6, <1>8, <1>9 DEF Map!Publish

LEMMA TakeInAdopts ==
    ASSUME OneWriter, OwnedInv, NEW B, TakeIn(B)
    PROVE  Map!Adopt
<1>0. OwnedInv' /\ Entries' = Entries
  BY OwnedTakeIn
<1>1. \A m \in Node :
        /\ store[m] \in SUBSET Entry /\ store'[m] \in SUBSET Entry
        /\ OnePerKey(store[m]) /\ OnePerKey(store'[m])
        /\ seen[m] \subseteq seen'[m]
        /\ store[m] \subseteq seen[m] /\ store'[m] \subseteq Entries
  BY <1>0 DEF OwnedInv, SoundInv, TypeOK, NothingInvented, Entries, TakeIn, TakeInFrom, TakesIn
<1>2. ASSUME NEW n \in Node, NEW k \in Key
      PROVE  /\ Version(store[n], k) <= Version(store'[n], k)
             /\ Version(store'[n], k) <= Version(store[Owner[k]], k)
             /\ Version(store[n], k) \in Nat /\ Version(store'[n], k) \in Nat
             /\ Version(store[Owner[k]], k) \in Nat
  <2>0. SingleWriter(k) /\ Owner[k] \in Node
    BY OwnerFacts DEF OneWriter
  <2>1. /\ Version(store[n], k) \in Nat /\ Version(store'[n], k) \in Nat
        /\ Version(store[Owner[k]], k) \in Nat
    BY <1>1, <2>0, VersionInNat
  <2>2. Version(store[n], k) <= Version(store'[n], k)
    <3>1. CASE \A f \in store[n] : f.key # k
      BY <2>1, <3>1, VersionOfNone
    <3>2. ASSUME NEW f \in store[n], f.key = k
          PROVE  Version(store[n], k) <= Version(store'[n], k)
      <4>1. PICK g \in store'[n] : g.key = k /\ Leq(f.clock, g.clock)
        BY <1>0, <1>1, <2>0, <3>2 DEF OwnedInv, CoversSeen
      <4>2. Version(store[n], k) = f.clock[Owner[k]]
        BY <1>1, <3>2, VersionOfEntry
      <4>3. Version(store'[n], k) = g.clock[Owner[k]]
        BY <1>1, <4>1, VersionOfEntry
      <4> QED  BY <2>0, <4>1, <4>2, <4>3 DEF Leq
    <3> QED  BY <3>1, <3>2
  <2>3. Version(store'[n], k) <= Version(store[Owner[k]], k)
    <3>1. CASE \A f \in store'[n] : f.key # k
      BY <2>1, <3>1, VersionOfNone
    <3>2. ASSUME NEW f \in store'[n], f.key = k
          PROVE  Version(store'[n], k) <= Version(store[Owner[k]], k)
      <4>1. Version(store'[n], k) = f.clock[Owner[k]]
        BY <1>1, <3>2, VersionOfEntry
      <4>2. f \in Entries
        BY <1>1
      <4>3. f.clock[Owner[k]] <= Version(store[Owner[k]], k)
        BY <3>2, <4>2, OwnerIsLatest
      <4> QED  BY <4>1, <4>3
    <3> QED  BY <3>1, <3>2
  <2> QED  BY <2>1, <2>2, <2>3
<1>3. \A n \in Node, k \in Key :
        /\ HeldVersion[n][k] = Version(store[n], k)
        /\ HeldVersion'[n][k] = Version(store'[n], k)
        /\ Owner[k] \in Node
  BY HeldVersionIs, OwnerFacts DEF OneWriter
<1>4. DOMAIN HeldVersion' = Node /\ \A n \in Node : DOMAIN HeldVersion'[n] = Key
  BY HeldVersionIs
<1>5. \A n \in Node, k \in Key :
        HeldVersion'[n][k] \in HeldVersion[n][k] .. HeldVersion[Owner[k]][k]
  <2> TAKE n \in Node, k \in Key
  <2>1. /\ HeldVersion[n][k] = Version(store[n], k)
        /\ HeldVersion'[n][k] = Version(store'[n], k)
        /\ HeldVersion[Owner[k]][k] = Version(store[Owner[k]], k)
    BY <1>3
  <2> QED  BY <1>2, <2>1
<1> QED  BY <1>4, <1>5 DEF Map!Adopt

(* With one writer per key, gossip implements the versioned map: a write    *)
(* publishes a version of its key, a batch adopts published versions, and   *)
(* nothing else changes what a node holds.                                  *)
THEOREM OwnedImplementsMap ==
    ASSUME OneWriter
    PROVE  (Spec => ImplementsVersionedMap) /\ (SyncSpec => ImplementsVersionedMap)
<1>1. Init => Map!Init
  BY HeldVersionIs, VersionOfNone DEF Init, Map!Init
<1>2. OwnedInv /\ ([Next]_vars \/ [SyncNext]_vars) => [Map!Next]_HeldVersion
  <2> SUFFICES ASSUME OwnedInv, [Next]_vars \/ [SyncNext]_vars
               PROVE  [Map!Next]_HeldVersion
    OBVIOUS
  <2>1. SoundInv
    BY DEF OwnedInv
  <2>2. ASSUME NEW n \in Node, NEW e \in Entry, Writes(n, e) PROVE Map!Next
    BY <2>2, WritePublishes, EntryFacts DEF Map!Next
  <2>3. ASSUME NEW B, TakeIn(B) PROVE Map!Next
    BY <2>3, TakeInAdopts DEF Map!Next
  <2>4. ASSUME Sends PROVE UNCHANGED HeldVersion
    BY <2>4, HeldVersionIs DEF Sends
  <2> QED  BY <2>1, <2>2, <2>3, <2>4, Steps, SyncSteps
<1>3. (Spec => []OwnedInv) /\ (SyncSpec => []OwnedInv)
  BY OwnedAlways
<1>4. Spec => Map!Spec
  BY <1>1, <1>2, <1>3, PTL DEF Spec, Map!Spec
<1>5. SyncSpec => Map!Spec
  BY <1>1, <1>2, <1>3, PTL DEF SyncSpec, Map!Spec
<1> QED  BY <1>4, <1>5 DEF ImplementsVersionedMap

=============================================================================
