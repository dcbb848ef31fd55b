---------------------------- MODULE AgentProofs ----------------------------
(***************************************************************************)
(* Proofs about AgentState, for any agents, keys, tags, counters and caps. *)
(*                                                                         *)
(* A view is a state with the operations in its causal past: what an agent *)
(* holds, what an open transaction would restore, what was sent.  A step   *)
(* makes at most one new view, from one or two old ones, so that what is   *)
(* claimed of all views is proved by the ways in which a view is made.     *)
(***************************************************************************)
EXTENDS AgentState, FiniteSetTheorems, SequenceTheorems, WellFoundedInduction, TLAPS

-----------------------------------------------------------------------------
(* Dicts *)

LEMMA LookUpPut ==
    ASSUME NEW d, NEW x, NEW v, NEW y, NEW default
    PROVE  LookUp(Put(d, x, v), y, default) = IF y = x THEN v ELSE LookUp(d, y, default)
BY DEF LookUp, Put

LEMMA LookUpEmpty ==
    ASSUME NEW x, NEW default
    PROVE  LookUp(EmptyDict, x, default) = default
BY DEF LookUp, EmptyDict

-----------------------------------------------------------------------------
(* The order of ids *)

LEMMA Least ==
    ASSUME NEW T, T \subseteq Nat, T # {}
    PROVE  \E x \in T : \A y \in T : x <= y
<1> DEFINE R == OpToRel(<, Nat)
<1>1. IsWellFoundedOn(R, Nat)
  BY NatLessThanWellFounded, Zenon DEF R
<1>2. \A x, y \in Nat : y < x => <<y, x>> \in R
  BY Zenon DEF R, OpToRel
<1> HIDE DEF R
<1>3. \E x \in T : \A y \in T : ~ (<<y, x>> \in R)
  BY <1>1, WFMin
<1>4. PICK x \in T : \A y \in T : ~ (<<y, x>> \in R)
  BY <1>3
<1>5. ASSUME NEW y \in T
      PROVE  x <= y
  <2>1. x \in Nat /\ y \in Nat /\ ~ (<<y, x>> \in R)
    BY <1>4
  <2>2. ~ (y < x)
    BY <1>2, <2>1
  <2> QED BY <2>1, <2>2
<1> QED BY <1>5

Ids == Seq(Int)

LEMMA IdAboveNotBelow ==
    ASSUME NEW s \in Ids, NEW t \in Ids, IdAbove(s, t)
    PROVE  s # t /\ ~ IdAbove(t, s)
<1>1. PICK i \in DOMAIN s : /\ i <= Len(t) + 1
                            /\ \A j \in 1 .. i - 1 : s[j] = t[j]
                            /\ i = Len(t) + 1 \/ s[i] > t[i]
  BY DEF IdAbove
<1>2. /\ DOMAIN s = 1 .. Len(s) /\ Len(s) \in Nat /\ \A j \in DOMAIN s : s[j] \in Int
      /\ DOMAIN t = 1 .. Len(t) /\ Len(t) \in Nat /\ \A j \in DOMAIN t : t[j] \in Int
  BY ElementOfSeq, LenProperties DEF Ids
<1>3. s # t
  BY <1>1, <1>2
<1>4. ASSUME IdAbove(t, s)
      PROVE  FALSE
  <2>1. PICK k \in DOMAIN t : /\ k <= Len(s) + 1
                              /\ \A j \in 1 .. k - 1 : t[j] = s[j]
                              /\ k = Len(s) + 1 \/ t[k] > s[k]
    BY <1>4 DEF IdAbove
  <2>2. CASE i < k
    <3>1. i \in DOMAIN t /\ t[i] = s[i]
      BY <1>2, <2>1, <2>2
    <3> QED BY <1>1, <1>2, <3>1
  <2>3. CASE k < i
    <3>1. k \in DOMAIN s /\ t[k] = s[k]
      BY <1>1, <1>2, <2>3
    <3> QED BY <1>2, <2>1, <3>1
  <2>4. CASE i = k
    BY <1>1, <1>2, <2>1, <2>4
  <2> QED BY <1>2, <2>2, <2>3, <2>4
<1> QED BY <1>3, <1>4

LEMMA IdAboveIsTotal ==
    ASSUME NEW s \in Ids, NEW t \in Ids, s # t
    PROVE  IdAbove(s, t) \/ IdAbove(t, s)
<1>1. /\ DOMAIN s = 1 .. Len(s) /\ Len(s) \in Nat /\ \A j \in DOMAIN s : s[j] \in Int
      /\ DOMAIN t = 1 .. Len(t) /\ Len(t) \in Nat /\ \A j \in DOMAIN t : t[j] \in Int
  BY ElementOfSeq, LenProperties DEF Ids
<1> DEFINE apart == {i \in DOMAIN s \cap DOMAIN t : s[i] # t[i]}
<1>2. CASE apart # {}
  <2>1. apart \subseteq Nat
    BY <1>1
  <2>2. PICK i \in apart : \A j \in apart : i <= j
    BY <1>2, <2>1, Least
  <2>3. \A j \in 1 .. i - 1 : s[j] = t[j]
    BY <1>1, <2>2
  <2>4. i \in DOMAIN s /\ i \in DOMAIN t /\ i <= Len(s) + 1 /\ i <= Len(t) + 1
    BY <1>1
  <2>5. s[i] > t[i] \/ t[i] > s[i]
    BY <1>1
  <2> QED BY <2>3, <2>4, <2>5 DEF IdAbove
<1>3. CASE apart = {}
  <2>1. CASE Len(s) > Len(t)
    <3>1. Len(t) + 1 \in DOMAIN s /\ \A j \in 1 .. (Len(t) + 1) - 1 : s[j] = t[j]
      BY <1>1, <1>3, <2>1
    <3> QED BY <1>1, <3>1 DEF IdAbove
  <2>2. CASE Len(t) > Len(s)
    <3>1. Len(s) + 1 \in DOMAIN t /\ \A j \in 1 .. (Len(s) + 1) - 1 : t[j] = s[j]
      BY <1>1, <1>3, <2>2
    <3> QED BY <1>1, <3>1 DEF IdAbove
  <2>3. CASE Len(s) = Len(t)
    <3>1. \A j \in 1 .. Len(s) : s[j] = t[j]
      BY <1>1, <1>3, <2>3
    <3>2. s = t
      BY <2>3, <3>1, SeqEqual DEF Ids
    <3> QED BY <3>2
  <2>4. Len(s) > Len(t) \/ Len(t) > Len(s) \/ Len(s) = Len(t)
    <3>1. \A i, j \in Nat : i > j \/ j > i \/ i = j
      OBVIOUS
    <3> QED BY <1>1, <3>1
  <2> QED BY <2>1, <2>2, <2>3, <2>4
<1> QED BY <1>2, <1>3

LEMMA IdAboveIsTransitive ==
    ASSUME NEW s \in Ids, NEW t \in Ids, NEW u \in Ids, IdAbove(s, t), IdAbove(t, u)
    PROVE  IdAbove(s, u)
<1>1. PICK i \in DOMAIN s : /\ i <= Len(t) + 1
                            /\ \A j \in 1 .. i - 1 : s[j] = t[j]
                            /\ i = Len(t) + 1 \/ s[i] > t[i]
  BY DEF IdAbove
<1>2. PICK k \in DOMAIN t : /\ k <= Len(u) + 1
                            /\ \A j \in 1 .. k - 1 : t[j] = u[j]
                            /\ k = Len(u) + 1 \/ t[k] > u[k]
  BY DEF IdAbove
<1>3. /\ DOMAIN s = 1 .. Len(s) /\ Len(s) \in Nat /\ \A j \in DOMAIN s : s[j] \in Int
      /\ DOMAIN t = 1 .. Len(t) /\ Len(t) \in Nat /\ \A j \in DOMAIN t : t[j] \in Int
      /\ DOMAIN u = 1 .. Len(u) /\ Len(u) \in Nat /\ \A j \in DOMAIN u : u[j] \in Int
  BY ElementOfSeq, LenProperties DEF Ids
<1>4. CASE i < k
  <2>1. i \in DOMAIN t /\ i \in DOMAIN u /\ t[i] = u[i] /\ s[i] > t[i]
    BY <1>1, <1>2, <1>3, <1>4
  <2>2. \A j \in 1 .. i - 1 : s[j] = u[j]
    BY <1>1, <1>2, <1>3, <1>4
  <2>3. i <= Len(u) + 1 /\ s[i] > u[i]
    BY <1>3, <2>1
  <2> QED BY <2>2, <2>3 DEF IdAbove
<1>5. CASE k < i
  <2>1. k \in DOMAIN s /\ s[k] = t[k]
    BY <1>1, <1>2, <1>3, <1>5
  <2>2. \A j \in 1 .. k - 1 : s[j] = u[j]
    BY <1>1, <1>2, <1>3, <1>5
  <2> QED BY <1>2, <2>1, <2>2 DEF IdAbove
<1>6. CASE i = k
  <2>1. s[i] > t[i] /\ i \in DOMAIN t
    BY <1>2, <1>1, <1>3, <1>6
  <2>2. \A j \in 1 .. i - 1 : s[j] = u[j]
    BY <1>1, <1>2, <1>3, <1>6
  <2>3. i = Len(u) + 1 \/ s[i] > u[i]
    BY <1>2, <1>3, <1>6, <2>1
  <2> QED BY <1>2, <1>6, <2>2, <2>3 DEF IdAbove
<1> QED BY <1>3, <1>4, <1>5, <1>6

-----------------------------------------------------------------------------
(* Views *)

HeldBy(a) == [state |-> agent[a], seen |-> seen[a]]

Views ==
    {HeldBy(a) : a \in Agent} \cup (UNION {saved[a] : a \in Agent}) \cup shared

Shaped(s) ==
    /\ s = [id |-> s.id, facts |-> s.facts, tags |-> s.tags, counters |-> s.counters,
            log |-> s.log, cap |-> s.cap, limiter |-> s.limiter]
    /\ s.id \in Ids
    /\ s.facts = [regs |-> s.facts.regs, tombs |-> s.facts.tombs]
    /\ s.tags = [elements |-> s.tags.elements, tombs |-> s.tags.tombs]
    /\ \A c \in DOMAIN s.counters :
         s.counters[c] = [pos |-> s.counters[c].pos, neg |-> s.counters[c].neg]

IsView(v) ==
    /\ v = [state |-> v.state, seen |-> v.seen]
    /\ Shaped(v.state)
    /\ IsFiniteSet(v.seen)

ShapeInv ==
    /\ DOMAIN agent = Agent /\ DOMAIN saved = Agent /\ DOMAIN seen = Agent
    /\ agent = [a \in Agent |-> agent[a]] /\ saved = [a \in Agent |-> saved[a]]
    /\ seen = [a \in Agent |-> seen[a]]
    /\ ops \in Nat
    /\ \A v \in Views : IsView(v)

(* The ways in which a view w is made from the views V, of which n is the   *)
(* number of the last operation                                             *)

SameLog(v, w) == w.state.log = v.state.log /\ w.state.cap = v.state.cap

CutLog(v, w) == w.state.log = LastOf(DefaultCap, v.state.log) /\ w.state.cap = DefaultCap

Copied(v, w) ==
    /\ w.seen = v.seen
    /\ w.state.facts = v.state.facts /\ w.state.counters = v.state.counters
    /\ w.state.tags \in {v.state.tags, ReloadSet(v.state.tags)}
    /\ SameLog(v, w) \/ CutLog(v, w)

MergedCounters(s, t) ==
    [c \in DOMAIN s.counters \cup DOMAIN t.counters |->
        MergePN(LookUp(s.counters, c, NewPNCounter), LookUp(t.counters, c, NewPNCounter))]

JoinedLog(u, v, w) ==
    /\ w.state.cap = IF u.state.cap >= v.state.cap THEN u.state.cap ELSE v.state.cap
    /\ w.state.log = MergeLogs(u.state.log, v.state.log, w.state.cap)

Joined(u, v, w) ==
    /\ w.seen = u.seen \cup v.seen
    /\ w.state.facts = MergeMap(u.state.facts, v.state.facts)
    /\ w.state.tags = MergeSet(u.state.tags, v.state.tags)
    /\ w.state.counters = MergedCounters(u.state, v.state)
    /\ JoinedLog(u, v, w)

(* Unless callers are careless, a write is later than what it replaces and  *)
(* has a time of its own under its id.                                      *)
DidSet(v, w, op, V, n) ==
    /\ \E k, t :
         /\ t \in Time
         /\ op = [kind |-> "set", key |-> k, time |-> t, id |-> v.state.id, value |-> n + 1]
         /\ w.state.facts =
              MapSet(v.state.facts, k, [value |-> n + 1, time |-> t, node |-> v.state.id])
         /\ Careless \/ LookUp(v.state.facts.regs, k, [time |-> -1]).time < t
         /\ Careless \/ \A u \in V : \A x \in u.seen :
                            x.kind = "set" /\ x.id = v.state.id => x.time # t
    /\ w.state.tags = v.state.tags /\ w.state.counters = v.state.counters

DidDelete(v, w, op) ==
    /\ \E k, t :
         /\ t \in Time
         /\ op = [kind |-> "delete", key |-> k, time |-> t]
         /\ w.state.facts = MapDelete(v.state.facts, k, t)
         /\ Careless \/ LookUp(v.state.facts.tombs, k, -1) < t
    /\ w.state.tags = v.state.tags /\ w.state.counters = v.state.counters

DidTag(v, w, op, n) ==
    /\ \E e : /\ op = [kind |-> "tag", element |-> e, tag |-> n + 1]
              /\ w.state.tags = SetAdd(v.state.tags, e, n + 1)
    /\ w.state.facts = v.state.facts /\ w.state.counters = v.state.counters

DidUntag(v, w, op) ==
    /\ \E e, T :
         /\ op = [kind |-> "untag", tags |-> T]
         /\ \/ /\ T = LookUp(v.state.tags.elements, e, {})
               /\ w.state.tags = SetRemove(v.state.tags, e)
            \/ \E tag \in LookUp(v.state.tags.elements, e, {}) :
                 T = {tag} /\ w.state.tags = SetRemoveTag(v.state.tags, e, tag)
    /\ w.state.facts = v.state.facts /\ w.state.counters = v.state.counters

By(H, p) == {op \in H : op.kind = "count" /\ op.by = p}

(* Unless callers are careless, who counts has seen all its own counting.   *)
DidCount(v, w, op, V, n) ==
    /\ \E c, p : \E side \in {"pos", "neg"} :
         /\ op = [kind |-> "count", counter |-> c, side |-> side, id |-> v.state.id,
                  by |-> p, number |-> n + 1]
         /\ w.state.counters =
              Put(v.state.counters, c,
                  [LookUp(v.state.counters, c, NewPNCounter) EXCEPT
                      ![side] = Increment(@, v.state.id, 1)])
         /\ Careless \/ \A u \in V : By(u.seen, p) \subseteq v.seen
    /\ w.state.facts = v.state.facts /\ w.state.tags = v.state.tags

DidMessage(v, w, op, n) ==
    /\ op = [kind |-> "message", number |-> n + 1]
    /\ w.state.log = LastOf(v.state.cap, Append(v.state.log, n + 1))
    /\ w.state.cap = v.state.cap
    /\ w.state.facts = v.state.facts /\ w.state.tags = v.state.tags
    /\ w.state.counters = v.state.counters

Did(v, w, op, V, n) ==
    /\ w.seen = v.seen \cup {op}
    /\ \/ DidSet(v, w, op, V, n) \/ DidDelete(v, w, op)
       \/ DidTag(v, w, op, n) \/ DidUntag(v, w, op)
       \/ DidCount(v, w, op, V, n) \/ DidMessage(v, w, op, n)
    /\ SameLog(v, w) \/ DidMessage(v, w, op, n)

Made(w, V, n, m) ==
    \E v \in V :
        \/ m = n /\ Copied(v, w)
        \/ m = n /\ \E u \in V : Joined(v, u, w)
        \/ m = n + 1 /\ \E op : Did(v, w, op, V, n)

-----------------------------------------------------------------------------
(* What nobody else has seen: the operations of an open transaction.  An    *)
(* agent has published what it would keep if it rolled back.                *)

Published(a) == IF saved[a] = {} THEN seen[a] ELSE UNION {copy.seen : copy \in saved[a]}

(* Histories that are not the one that agent a goes on with *)
Elsewhere(a) ==
    {seen[b] : b \in Agent \ {a}} \cup {copy.seen : copy \in UNION {saved[b] : b \in Agent}}
       \cup {form.seen : form \in shared}

CareInv ==
    /\ \A a \in Agent : \A c, d \in saved[a] : c = d
    /\ \A a \in Agent : Published(a) \subseteq seen[a]
    /\ \A form \in shared : \E a \in Agent : form.seen \subseteq Published(a)
    /\ \A a \in Agent : \A H \in Elsewhere(a) : By(H, a) \subseteq Published(a)

LEMMA CareCovers ==
    ASSUME CareInv, NEW u \in Views
    PROVE  /\ \E a \in Agent : u.seen \subseteq seen[a]
           /\ \A a \in Agent : By(u.seen, a) \subseteq seen[a]
<1>1. \A a \in Agent : Published(a) \subseteq seen[a]
  BY DEF CareInv
<1>2. CASE \E b \in Agent : u = HeldBy(b)
  <2>1. PICK b \in Agent : u = HeldBy(b)
    BY <1>2
  <2>2. u.seen = seen[b]
    BY <2>1 DEF HeldBy
  <2>3. ASSUME NEW a \in Agent, a # b
        PROVE  By(u.seen, a) \subseteq seen[a]
    <3>1. u.seen \in Elsewhere(a)
      BY <2>2, <2>3 DEF Elsewhere
    <3> QED BY <1>1, <3>1 DEF CareInv
  <2> QED BY <2>2, <2>3 DEF By
<1>3. CASE \E b \in Agent : u \in saved[b]
  <2>1. PICK b \in Agent : u \in saved[b]
    BY <1>3
  <2>2. Published(b) = u.seen
    <3>1. saved[b] = {u}
      BY <2>1 DEF CareInv
    <3> QED BY <3>1 DEF Published
  <2>3. \A a \in Agent : u.seen \in Elsewhere(a)
    BY <2>1 DEF Elsewhere
  <2> QED BY <1>1, <2>2, <2>3 DEF CareInv
<1>4. CASE u \in shared
  <2>1. \A a \in Agent : u.seen \in Elsewhere(a)
    BY <1>4 DEF Elsewhere
  <2> QED BY <1>1, <1>4, <2>1 DEF CareInv
<1> QED BY <1>2, <1>3, <1>4 DEF Views

LEMMA CareInit ==
    ASSUME Init
    PROVE  CareInv
<1>1. \A a \in Agent : saved[a] = {} /\ seen[a] = {}
  BY DEF Init
<1>2. shared = {}
  BY DEF Init
<1>3. \A a \in Agent : \A H \in Elsewhere(a) : By(H, a) = {}
  BY <1>1, <1>2 DEF Elsewhere, By
<1> QED BY <1>1, <1>2, <1>3 DEF CareInv, Published

LEMMA CareLocal ==
    ASSUME ShapeInv, CareInv, NEW a \in Agent, NEW op, op.kind = "count" => op.by = a,
           seen' = [seen EXCEPT ![a] = @ \cup {op}], saved' = saved, shared' = shared
    PROVE  CareInv'
<1>1. /\ seen'[a] = seen[a] \cup {op}
      /\ \A b \in Agent \ {a} : seen'[b] = seen[b]
  BY DEF ShapeInv
<1>2. \A b \in Agent : Published(b) \subseteq Published(b)' /\ Published(b)' \subseteq seen'[b]
  BY <1>1 DEF CareInv, Published
<1>3. ASSUME NEW b \in Agent, NEW H \in Elsewhere(b)'
      PROVE  By(H, b) \subseteq Published(b)'
  <2>1. CASE H \in Elsewhere(b)
    BY <1>2, <2>1 DEF CareInv
  <2>2. CASE H = seen'[a] /\ a # b
    <3>1. By(H, b) = By(seen[a], b)
      BY <1>1, <2>2 DEF By
    <3>2. seen[a] \in Elsewhere(b)
      BY <2>2 DEF Elsewhere
    <3> QED BY <1>2, <3>1, <3>2 DEF CareInv
  <2> QED BY <1>1, <2>1, <2>2 DEF Elsewhere
<1>4. \A form \in shared' : \E b \in Agent : form.seen \subseteq Published(b)'
  BY <1>2 DEF CareInv
<1> QED BY <1>2, <1>3, <1>4 DEF CareInv

LEMMA CareNext ==
    ASSUME ~ Careless, ShapeInv, CareInv, Next
    PROVE  CareInv'
<1>1. PICK a \in Agent :
        \/ \E k \in Key, t \in Time : AddFact(a, k, t) \/ DeleteFact(a, k, t)
        \/ \E e \in Element : AddTag(a, e) \/ RemoveTag(a, e) \/ RemoveOneTag(a, e)
        \/ \E c \in Counter, side \in {"pos", "neg"} : Count(a, c, side)
        \/ AppendMessage(a) \/ Refill(a)
        \/ Begin(a) \/ Commit(a) \/ Rollback(a)
        \/ Share(a) \/ \E form \in shared : Absorb(a, form)
  BY DEF Next
<1>2. ASSUME NEW s, NEW op, Perform(a, s, op), op.kind = "count" => op.by = a
      PROVE  CareInv'
  BY <1>2, CareLocal DEF Perform
<1>3. ASSUME NEW k \in Key, NEW t \in Time, AddFact(a, k, t) \/ DeleteFact(a, k, t)
      PROVE  CareInv'
  BY <1>2, <1>3 DEF AddFact, DeleteFact
<1>4. ASSUME NEW e \in Element, AddTag(a, e) \/ RemoveTag(a, e) \/ RemoveOneTag(a, e)
      PROVE  CareInv'
  <2>1. CASE AddTag(a, e)
    BY <1>2, <2>1 DEF AddTag
  <2>2. CASE RemoveTag(a, e)
    BY <1>2, <2>2 DEF RemoveTag
  <2>3. CASE RemoveOneTag(a, e)
    BY <1>2, <2>3 DEF RemoveOneTag
  <2> QED BY <1>4, <2>1, <2>2, <2>3
<1>5. ASSUME NEW c \in Counter, NEW side \in {"pos", "neg"}, Count(a, c, side)
      PROVE  CareInv'
  BY <1>2, <1>5 DEF Count
<1>6. CASE AppendMessage(a)
  BY <1>2, <1>6 DEF AppendMessage
<1>7. CASE Refill(a)
  BY <1>7 DEF Refill, CareInv, Published, Elsewhere
<1>8. CASE Begin(a)
  <2> DEFINE copy == HeldBy(a)
  <2>1. /\ saved[a] = {} /\ saved'[a] = {copy} /\ \A b \in Agent \ {a} : saved'[b] = saved[b]
        /\ seen' = seen /\ shared' = shared
    BY <1>8 DEF Begin, ShapeInv, HeldBy
  <2>2. copy.seen = seen[a]
    BY DEF HeldBy
  <2> HIDE DEF copy
  <2>3. \A b \in Agent : Published(b)' = Published(b)
    BY <2>1, <2>2 DEF Published
  <2>4. ASSUME NEW b \in Agent, NEW H \in Elsewhere(b)'
        PROVE  By(H, b) \subseteq Published(b)
    <3>1. CASE H \in Elsewhere(b)
      BY <3>1 DEF CareInv
    <3>2. CASE H = seen[a]
      <4>1. CASE a = b
        BY <2>1, <3>2, <4>1 DEF By, Published
      <4>2. CASE a # b
        <5>1. H \in Elsewhere(b)
          BY <3>2, <4>2 DEF Elsewhere
        <5> QED BY <5>1 DEF CareInv
      <4> QED BY <4>1, <4>2
    <3> QED BY <2>1, <2>2, <3>1, <3>2 DEF Elsewhere
  <2>5. \A b \in Agent : \A c, d \in saved'[b] : c = d
    BY <2>1 DEF CareInv
  <2> QED BY <2>1, <2>3, <2>4, <2>5 DEF CareInv
<1>9. CASE Commit(a)
  <2>1. /\ saved'[a] = {} /\ \A b \in Agent \ {a} : saved'[b] = saved[b]
        /\ seen' = seen /\ shared' = shared
    BY <1>9 DEF Commit, ShapeInv
  <2>2. \A b \in Agent : Published(b) \subseteq Published(b)' /\ Published(b)' \subseteq seen'[b]
    BY <2>1 DEF Published, CareInv
  <2>3. \A b \in Agent : Elsewhere(b)' \subseteq Elsewhere(b)
    BY <2>1 DEF Elsewhere
  <2>4. \A b \in Agent : \A c, d \in saved'[b] : c = d
    BY <2>1 DEF CareInv
  <2> QED BY <2>1, <2>2, <2>3, <2>4 DEF CareInv
<1>10. CASE Rollback(a)
  <2>1. PICK copy \in saved[a] :
          /\ seen' = [seen EXCEPT ![a] = copy.seen]
          /\ saved' = [saved EXCEPT ![a] = {}]
          /\ shared' = shared
    BY <1>10 DEF Rollback
  <2>2. /\ saved[a] = {copy} /\ saved'[a] = {} /\ seen'[a] = copy.seen
        /\ \A b \in Agent \ {a} : saved'[b] = saved[b] /\ seen'[b] = seen[b]
    BY <2>1 DEF CareInv, ShapeInv
  <2>3. \A b \in Agent : Published(b)' = Published(b)
    BY <2>2 DEF Published
  <2>4. \A b \in Agent : Published(b)' \subseteq seen'[b]
    BY <2>2 DEF Published, CareInv
  <2>5. \A b \in Agent : Elsewhere(b)' \subseteq Elsewhere(b)
    BY <2>1, <2>2 DEF Elsewhere
  <2>6. \A b \in Agent : \A c, d \in saved'[b] : c = d
    BY <2>2 DEF CareInv
  <2> QED BY <2>1, <2>3, <2>4, <2>5, <2>6 DEF CareInv
<1>11. CASE Share(a)
  <2> DEFINE form == [state |-> Reload(agent[a]), seen |-> seen[a]]
  <2>1. saved[a] = {} /\ shared' = shared \cup {form} /\ saved' = saved /\ seen' = seen
    BY <1>11 DEF Share
  <2>2. form.seen = seen[a]
    OBVIOUS
  <2> HIDE DEF form
  <2>3. \A b \in Agent : Published(b)' = Published(b)
    BY <2>1 DEF Published
  <2>4. Published(a) = seen[a]
    BY <2>1 DEF Published
  <2>5. ASSUME NEW b \in Agent, NEW H \in Elsewhere(b)'
        PROVE  By(H, b) \subseteq Published(b)
    <3>1. CASE H \in Elsewhere(b)
      BY <3>1 DEF CareInv
    <3>2. CASE H = seen[a] /\ a # b
      <4>1. H \in Elsewhere(b)
        BY <3>2 DEF Elsewhere
      <4> QED BY <4>1 DEF CareInv
    <3>3. CASE H = seen[a] /\ a = b
      BY <2>4, <3>3 DEF By
    <3> QED BY <2>1, <2>2, <3>1, <3>2, <3>3 DEF Elsewhere
  <2> QED BY <2>1, <2>2, <2>3, <2>4, <2>5 DEF CareInv
<1>12. ASSUME NEW form \in shared, Absorb(a, form)
       PROVE  CareInv'
  <2>1. /\ saved[a] = {} /\ saved' = saved /\ shared' = shared
        /\ seen'[a] = seen[a] \cup form.seen
        /\ \A b \in Agent \ {a} : seen'[b] = seen[b]
    BY <1>12 DEF Absorb, ShapeInv
  <2>2. \A b \in Agent : Published(b) \subseteq Published(b)' /\ Published(b)' \subseteq seen'[b]
    BY <2>1 DEF Published, CareInv
  <2>3. ASSUME NEW b \in Agent, NEW H \in Elsewhere(b)'
        PROVE  By(H, b) \subseteq Published(b)'
    <3>1. CASE H \in Elsewhere(b)
      BY <2>2, <3>1 DEF CareInv
    <3>2. CASE H = seen'[a] /\ a # b
      <4>1. seen[a] \in Elsewhere(b) /\ form.seen \in Elsewhere(b)
        BY <3>2 DEF Elsewhere
      <4>2. By(H, b) = By(seen[a], b) \cup By(form.seen, b)
        BY <2>1, <3>2 DEF By
      <4> QED BY <2>2, <4>1, <4>2 DEF CareInv
    <3> QED BY <2>1, <3>1, <3>2 DEF Elsewhere
  <2>4. \A f \in shared' : \E b \in Agent : f.seen \subseteq Published(b)'
    BY <2>1, <2>2 DEF CareInv
  <2> QED BY <2>1, <2>2, <2>3, <2>4 DEF CareInv
<1> QED BY <1>1, <1>3, <1>4, <1>5, <1>6, <1>7, <1>8, <1>9, <1>10, <1>11, <1>12

-----------------------------------------------------------------------------
(* Each step makes at most one view. *)

NewView(w) == IsView(w) /\ Views' \subseteq Views \cup {w} /\ Made(w, Views, ops, ops')

LEMMA HeldView ==
    ASSUME NEW a \in Agent
    PROVE  HeldBy(a) \in Views /\ HeldBy(a).state = agent[a] /\ HeldBy(a).seen = seen[a]
BY DEF HeldBy, Views

LEMMA HeldShape ==
    ASSUME ShapeInv, NEW a \in Agent
    PROVE  /\ Shaped(agent[a]) /\ IsFiniteSet(seen[a])
           /\ agent[a].id \in Ids
           /\ agent[a].facts = [regs |-> agent[a].facts.regs, tombs |-> agent[a].facts.tombs]
           /\ agent[a].tags = [elements |-> agent[a].tags.elements, tombs |-> agent[a].tags.tombs]
<1>1. IsView(HeldBy(a))
  BY HeldView DEF ShapeInv
<1>2. Shaped(agent[a]) /\ IsFiniteSet(seen[a])
  BY <1>1, HeldView DEF IsView
<1> QED BY <1>2 DEF Shaped

(* A step that changes what one agent holds, and no more *)
LEMMA HeldStep ==
    ASSUME ShapeInv, NEW a \in Agent, NEW s, NEW H, Shaped(s), IsFiniteSet(H),
           agent' = [agent EXCEPT ![a] = s], seen' = [seen EXCEPT ![a] = H],
           saved' = saved, shared' = shared, ops' \in Nat,
           Made([state |-> s, seen |-> H], Views, ops, ops')
    PROVE  ShapeInv' /\ \E w : NewView(w)
<1> DEFINE w == [state |-> s, seen |-> H]
<1>1. IsView(w)
  BY DEF IsView
<1>2. /\ agent' = [b \in Agent |-> IF b = a THEN s ELSE agent[b]]
      /\ seen' = [b \in Agent |-> IF b = a THEN H ELSE seen[b]]
  BY DEF ShapeInv
<1>3. \A b \in Agent : HeldBy(b)' = IF b = a THEN w ELSE HeldBy(b)
  BY <1>2 DEF HeldBy
<1>4. Views' = {HeldBy(b)' : b \in Agent} \cup (UNION {saved[b] : b \in Agent}) \cup shared
  BY DEF Views
<1> HIDE DEF w
<1>5. Views' \subseteq Views \cup {w}
  BY <1>3, <1>4 DEF Views
<1>6. ShapeInv'
  <2>1. \A v \in Views' : IsView(v)
    BY <1>1, <1>5 DEF ShapeInv
  <2>2. ShapeInv' <=> /\ DOMAIN agent' = Agent /\ DOMAIN saved' = Agent /\ DOMAIN seen' = Agent
                      /\ agent' = [b \in Agent |-> agent'[b]] /\ saved' = [b \in Agent |-> saved'[b]]
                      /\ seen' = [b \in Agent |-> seen'[b]]
                      /\ ops' \in Nat
                      /\ \A v \in Views' : IsView(v)
    BY DEF ShapeInv, IsView, Shaped
  <2>3. DOMAIN agent' = Agent /\ DOMAIN saved' = Agent /\ DOMAIN seen' = Agent
    BY <1>2 DEF ShapeInv
  <2>4. agent' = [b \in Agent |-> agent'[b]] /\ seen' = [b \in Agent |-> seen'[b]]
    BY <1>2
  <2>5. saved' = [b \in Agent |-> saved'[b]]
    BY DEF ShapeInv
  <2> QED BY <2>1, <2>2, <2>3, <2>4, <2>5
<1> QED BY <1>1, <1>5, <1>6 DEF NewView, w

LEMMA PerformStep ==
    ASSUME ShapeInv, NEW a \in Agent, NEW s, NEW op, Perform(a, s, op), Shaped(s),
           Did(HeldBy(a), [state |-> s, seen |-> seen[a] \cup {op}], op, Views, ops)
    PROVE  ShapeInv' /\ \E w : NewView(w)
<1> DEFINE H == seen[a] \cup {op}
<1>1. /\ agent' = [agent EXCEPT ![a] = s] /\ seen' = [seen EXCEPT ![a] = H]
      /\ saved' = saved /\ shared' = shared /\ ops' = ops + 1 /\ ops' \in Nat
  BY DEF Perform, ShapeInv
<1>2. IsFiniteSet(H)
  <2>1. IsFiniteSet(seen[a])
    BY HeldView DEF ShapeInv, IsView
  <2> QED BY <2>1, FS_AddElement
<1> HIDE DEF H
<1>3. Made([state |-> s, seen |-> H], Views, ops, ops')
  BY <1>1, HeldView DEF Made, H
<1> QED BY <1>1, <1>2, <1>3, HeldStep

LEMMA ShapedFields ==
    ASSUME NEW s, Shaped(s)
    PROVE  /\ \A x : /\ [s EXCEPT !.tags = x].tags = x
                     /\ [s EXCEPT !.tags = x].facts = s.facts
                     /\ [s EXCEPT !.tags = x].counters = s.counters
                     /\ [s EXCEPT !.tags = x].log = s.log
                     /\ [s EXCEPT !.tags = x].cap = s.cap
           /\ \A x : /\ [s EXCEPT !.facts = x].facts = x
                     /\ [s EXCEPT !.facts = x].tags = s.tags
                     /\ [s EXCEPT !.facts = x].counters = s.counters
                     /\ [s EXCEPT !.facts = x].log = s.log
                     /\ [s EXCEPT !.facts = x].cap = s.cap
           /\ \A x : /\ [s EXCEPT !.counters = x].counters = x
                     /\ [s EXCEPT !.counters = x].facts = s.facts
                     /\ [s EXCEPT !.counters = x].tags = s.tags
                     /\ [s EXCEPT !.counters = x].log = s.log
                     /\ [s EXCEPT !.counters = x].cap = s.cap
           /\ \A x : /\ [s EXCEPT !.limiter = x].counters = s.counters
                     /\ [s EXCEPT !.limiter = x].facts = s.facts
                     /\ [s EXCEPT !.limiter = x].tags = s.tags
                     /\ [s EXCEPT !.limiter = x].log = s.log
                     /\ [s EXCEPT !.limiter = x].cap = s.cap
           /\ \A x : /\ [s EXCEPT !.log = x].counters = s.counters
                     /\ [s EXCEPT !.log = x].facts = s.facts
                     /\ [s EXCEPT !.log = x].tags = s.tags
                     /\ [s EXCEPT !.log = x].log = x
                     /\ [s EXCEPT !.log = x].cap = s.cap
BY DEF Shaped

LEMMA ShapedExcept ==
    ASSUME NEW s, Shaped(s)
    PROVE  /\ \A x : x = [elements |-> x.elements, tombs |-> x.tombs] =>
                      Shaped([s EXCEPT !.tags = x])
           /\ \A x : x = [regs |-> x.regs, tombs |-> x.tombs] => Shaped([s EXCEPT !.facts = x])
           /\ \A x : (\A c \in DOMAIN x : x[c] = [pos |-> x[c].pos, neg |-> x[c].neg]) =>
                      Shaped([s EXCEPT !.counters = x])
           /\ \A x : Shaped([s EXCEPT !.limiter = x])
           /\ \A x : Shaped([s EXCEPT !.log = x])
BY DEF Shaped

LEMMA LookUpCounter ==
    ASSUME NEW s, Shaped(s), NEW c
    PROVE  LookUp(s.counters, c, NewPNCounter) =
             [pos |-> LookUp(s.counters, c, NewPNCounter).pos,
              neg |-> LookUp(s.counters, c, NewPNCounter).neg]
<1>1. NewPNCounter = [pos |-> NewPNCounter.pos, neg |-> NewPNCounter.neg]
  BY DEF NewPNCounter
<1>2. CASE c \in DOMAIN s.counters
  BY <1>2 DEF LookUp, Shaped
<1>3. CASE c \notin DOMAIN s.counters
  BY <1>1, <1>3 DEF LookUp
<1> QED BY <1>2, <1>3

LEMMA FactSteps ==
    ASSUME ShapeInv, Careless \/ CareInv, NEW a \in Agent, NEW k, NEW t \in Time,
           AddFact(a, k, t) \/ DeleteFact(a, k, t)
    PROVE  ShapeInv' /\ \E w : NewView(w)
<1> DEFINE s == agent[a]
           v == HeldBy(a)
<1>1. v \in Views /\ v.state = s /\ v.seen = seen[a] /\ Shaped(s) /\ s.id \in Ids
  BY HeldView, HeldShape
<1>2. CASE AddFact(a, k, t)
  <2> DEFINE n == ops
             reg == [value |-> n + 1, time |-> t, node |-> s.id]
             facts == MapSet(s.facts, k, reg)
             limiter == IF s.limiter = NoLimiter THEN s.limiter ELSE s.limiter - 1
             half == [s EXCEPT !.facts = facts]
             new == [half EXCEPT !.limiter = limiter]
             op == [kind |-> "set", key |-> k, time |-> t, id |-> s.id, value |-> n + 1]
             w == [state |-> new, seen |-> seen[a] \cup {op}]
  <2>1. /\ Perform(a, [s EXCEPT !.facts = facts, !.limiter = limiter], op)
        /\ FreshTime(s.id, t)
        /\ Careless \/ LookUp(s.facts.regs, k, [time |-> -1]).time < t
    BY <1>2 DEF AddFact
  <2>2. facts = [regs |-> facts.regs, tombs |-> facts.tombs]
    BY DEF MapSet
  <2> HIDE DEF facts, limiter
  <2>3. [s EXCEPT !.facts = facts, !.limiter = limiter] = new
    BY <1>1 DEF Shaped
  <2>4. Shaped(half)
    BY <1>1, <2>2, ShapedExcept
  <2>5. Shaped(new)
    BY <2>4, ShapedExcept
  <2>6. /\ new.facts = facts /\ new.tags = s.tags /\ new.counters = s.counters
        /\ new.log = s.log /\ new.cap = s.cap
    <3>1. /\ half.facts = facts /\ half.tags = s.tags /\ half.counters = s.counters
          /\ half.log = s.log /\ half.cap = s.cap
      BY <1>1, ShapedFields
    <3>2. /\ new.facts = half.facts /\ new.tags = half.tags /\ new.counters = half.counters
          /\ new.log = half.log /\ new.cap = half.cap
      BY <2>4, ShapedFields
    <3> QED BY <3>1, <3>2
  <2>7. Careless \/ \A u \in Views : \A x \in u.seen :
                        x.kind = "set" /\ x.id = s.id => x.time # t
    BY <2>1, CareCovers DEF FreshTime
  <2>8. /\ w.state.facts = MapSet(v.state.facts, k,
                              [value |-> ops + 1, time |-> t, node |-> v.state.id])
        /\ op = [kind |-> "set", key |-> k, time |-> t, id |-> v.state.id, value |-> ops + 1]
        /\ w.state.tags = v.state.tags /\ w.state.counters = v.state.counters
        /\ w.seen = v.seen \cup {op} /\ SameLog(v, w)
    BY <1>1, <2>6 DEF facts, SameLog
  <2>9. /\ Careless \/ LookUp(v.state.facts.regs, k, [time |-> -1]).time < t
        /\ Careless \/ \A u \in Views : \A x \in u.seen :
                           x.kind = "set" /\ x.id = v.state.id => x.time # t
    BY <1>1, <2>1, <2>7
  <2> HIDE DEF new, op
  <2>10. DidSet(v, w, op, Views, ops)
    BY <2>8, <2>9 DEF DidSet
  <2>11. Did(v, w, op, Views, ops)
    BY <2>8, <2>10 DEF Did
  <2>12. Perform(a, new, op)
    BY <2>1, <2>3
  <2> QED BY <2>5, <2>11, <2>12, PerformStep
<1>3. CASE DeleteFact(a, k, t)
  <2> DEFINE facts == MapDelete(s.facts, k, t)
             new == [s EXCEPT !.facts = facts]
             op == [kind |-> "delete", key |-> k, time |-> t]
             w == [state |-> new, seen |-> seen[a] \cup {op}]
  <2>1. /\ Perform(a, new, op)
        /\ Careless \/ LookUp(s.facts.tombs, k, -1) < t
    BY <1>3 DEF DeleteFact
  <2>2. facts = [regs |-> facts.regs, tombs |-> facts.tombs]
    <3>1. s.facts = [regs |-> s.facts.regs, tombs |-> s.facts.tombs]
      BY <1>1 DEF Shaped
    <3> QED BY <3>1 DEF MapDelete
  <2> HIDE DEF facts
  <2>3. Shaped(new)
    BY <1>1, <2>2, ShapedExcept
  <2>4. /\ new.facts = facts /\ new.tags = s.tags /\ new.counters = s.counters
        /\ new.log = s.log /\ new.cap = s.cap
    BY <1>1, ShapedFields
  <2>5. DidDelete(v, w, op)
    BY <1>1, <2>1, <2>4 DEF DidDelete, facts
  <2>6. SameLog(v, w)
    BY <1>1, <2>4 DEF SameLog
  <2>7. Did(v, w, op, Views, ops)
    BY <1>1, <2>5, <2>6 DEF Did
  <2> HIDE DEF new, op
  <2> QED BY <2>1, <2>3, <2>7, PerformStep
<1> QED BY <1>2, <1>3

LEMMA TagSteps ==
    ASSUME ShapeInv, NEW a \in Agent, NEW e,
           AddTag(a, e) \/ RemoveTag(a, e) \/ RemoveOneTag(a, e)
    PROVE  ShapeInv' /\ \E w : NewView(w)
<1> DEFINE s == agent[a]
           v == HeldBy(a)
<1>1. v \in Views /\ v.state = s /\ v.seen = seen[a] /\ Shaped(s)
      /\ s.tags = [elements |-> s.tags.elements, tombs |-> s.tags.tombs]
  BY HeldView, HeldShape
<1>2. ASSUME NEW tags, tags = [elements |-> tags.elements, tombs |-> tags.tombs],
             NEW op, Perform(a, [s EXCEPT !.tags = tags], op),
             \/ \E x : /\ op = [kind |-> "tag", element |-> x, tag |-> ops + 1]
                      /\ tags = SetAdd(s.tags, x, ops + 1)
             \/ \E x, T :
                  /\ op = [kind |-> "untag", tags |-> T]
                  /\ \/ T = LookUp(s.tags.elements, x, {}) /\ tags = SetRemove(s.tags, x)
                     \/ \E tag \in LookUp(s.tags.elements, x, {}) :
                          T = {tag} /\ tags = SetRemoveTag(s.tags, x, tag)
      PROVE  ShapeInv' /\ \E w : NewView(w)
  <2> DEFINE new == [s EXCEPT !.tags = tags]
             w == [state |-> new, seen |-> seen[a] \cup {op}]
  <2>1. Shaped(new)
    BY <1>1, <1>2, ShapedExcept
  <2>2. /\ new.facts = s.facts /\ new.tags = tags /\ new.counters = s.counters
        /\ new.log = s.log /\ new.cap = s.cap
    BY <1>1, ShapedFields
  <2> HIDE DEF new
  <2>3. (DidTag(v, w, op, ops) \/ DidUntag(v, w, op)) /\ SameLog(v, w)
    BY <1>1, <1>2, <2>2 DEF DidTag, DidUntag, SameLog
  <2>4. Did(v, w, op, Views, ops)
    BY <1>1, <2>3 DEF Did
  <2>5. Perform(a, new, op)
    BY <1>2 DEF new
  <2> QED BY <2>1, <2>4, <2>5, PerformStep
<1>3. CASE AddTag(a, e)
  <2> DEFINE tags == SetAdd(s.tags, e, ops + 1)
             op == [kind |-> "tag", element |-> e, tag |-> ops + 1]
  <2>1. tags = [elements |-> tags.elements, tombs |-> tags.tombs]
    BY <1>1 DEF SetAdd
  <2>2. Perform(a, [s EXCEPT !.tags = tags], op)
    BY <1>3 DEF AddTag
  <2> QED BY <1>2, <2>1, <2>2
<1>4. CASE RemoveTag(a, e)
  <2> DEFINE tags == SetRemove(s.tags, e)
             op == [kind |-> "untag", tags |-> LookUp(s.tags.elements, e, {})]
  <2>1. tags = [elements |-> tags.elements, tombs |-> tags.tombs]
    BY <1>1 DEF SetRemove
  <2>2. Perform(a, [s EXCEPT !.tags = tags], op)
    BY <1>4 DEF RemoveTag
  <2> QED BY <1>2, <2>1, <2>2
<1>5. CASE RemoveOneTag(a, e)
  <2>1. PICK tag \in LookUp(s.tags.elements, e, {}) :
          Perform(a, [s EXCEPT !.tags = SetRemoveTag(s.tags, e, tag)],
                  [kind |-> "untag", tags |-> {tag}])
    BY <1>5 DEF RemoveOneTag
  <2> DEFINE tags == SetRemoveTag(s.tags, e, tag)
             op == [kind |-> "untag", tags |-> {tag}]
  <2>2. tags = [elements |-> tags.elements, tombs |-> tags.tombs]
    BY <1>1 DEF SetRemoveTag
  <2> QED BY <1>2, <2>1, <2>2
<1> QED BY <1>3, <1>4, <1>5

LEMMA CountStep ==
    ASSUME ShapeInv, Careless \/ CareInv, NEW a \in Agent, NEW c,
           NEW side \in {"pos", "neg"}, Count(a, c, side)
    PROVE  ShapeInv' /\ \E w : NewView(w)
<1> DEFINE s == agent[a]
           v == HeldBy(a)
           old == LookUp(s.counters, c, NewPNCounter)
           pn == [old EXCEPT ![side] = Increment(@, s.id, 1)]
           counters == Put(s.counters, c, pn)
           new == [s EXCEPT !.counters = counters]
           op == [kind |-> "count", counter |-> c, side |-> side, id |-> s.id,
                  by |-> a, number |-> ops + 1]
           w == [state |-> new, seen |-> seen[a] \cup {op}]
<1>1. v \in Views /\ v.state = s /\ v.seen = seen[a] /\ Shaped(s)
  BY HeldView, HeldShape
<1>2. Perform(a, new, op)
  BY DEF Count
<1>3. pn = [pos |-> pn.pos, neg |-> pn.neg]
  <2>1. old = [pos |-> old.pos, neg |-> old.neg]
    BY <1>1, LookUpCounter
  <2> HIDE DEF old
  <2>2. CASE side = "pos"
    <3>1. pn = [old EXCEPT !.pos = Increment(@, s.id, 1)]
      BY <2>2
    <3> QED BY <2>1, <3>1
  <2>3. CASE side = "neg"
    <3>1. pn = [old EXCEPT !.neg = Increment(@, s.id, 1)]
      BY <2>3
    <3> QED BY <2>1, <3>1
  <2> QED BY <2>2, <2>3
<1>4. \A x \in DOMAIN counters : counters[x] = [pos |-> counters[x].pos, neg |-> counters[x].neg]
  <2> HIDE DEF pn
  <2>1. \A x \in DOMAIN s.counters :
          s.counters[x] = [pos |-> s.counters[x].pos, neg |-> s.counters[x].neg]
    BY <1>1 DEF Shaped
  <2> QED BY <1>3, <2>1 DEF Put
<1>5. Careless \/ \A u \in Views : By(u.seen, a) \subseteq v.seen
  BY <1>1, CareCovers
<1> HIDE DEF counters
<1>6. Shaped(new)
  BY <1>1, <1>4, ShapedExcept
<1>7. /\ new.facts = s.facts /\ new.tags = s.tags /\ new.counters = counters
      /\ new.log = s.log /\ new.cap = s.cap
  BY <1>1, ShapedFields
<1> HIDE DEF new
<1>8. /\ op = [kind |-> "count", counter |-> c, side |-> side, id |-> v.state.id,
               by |-> a, number |-> ops + 1]
      /\ w.state.counters =
           Put(v.state.counters, c,
               [LookUp(v.state.counters, c, NewPNCounter) EXCEPT
                   ![side] = Increment(@, v.state.id, 1)])
      /\ w.state.facts = v.state.facts /\ w.state.tags = v.state.tags
      /\ SameLog(v, w)
  BY <1>1, <1>7 DEF counters, SameLog
<1> HIDE DEF op
<1>9. DidCount(v, w, op, Views, ops)
  BY <1>5, <1>8 DEF DidCount
<1>10. Did(v, w, op, Views, ops)
  BY <1>1, <1>8, <1>9 DEF Did
<1> QED BY <1>2, <1>6, <1>10, PerformStep

(* A step after which every view but w is an old one, and agents hold the   *)
(* same states                                                              *)
LEMMA OtherStep ==
    ASSUME ShapeInv, NEW w, IsView(w), Made(w, Views, ops, ops), Views' \subseteq Views \cup {w},
           ops' = ops,
           DOMAIN agent' = Agent, DOMAIN saved' = Agent, DOMAIN seen' = Agent,
           agent' = [a \in Agent |-> agent'[a]], saved' = [a \in Agent |-> saved'[a]],
           seen' = [a \in Agent |-> seen'[a]]
    PROVE  ShapeInv' /\ \E x : NewView(x)
<1>1. ShapeInv' <=> /\ DOMAIN agent' = Agent /\ DOMAIN saved' = Agent /\ DOMAIN seen' = Agent
                    /\ agent' = [b \in Agent |-> agent'[b]] /\ saved' = [b \in Agent |-> saved'[b]]
                    /\ seen' = [b \in Agent |-> seen'[b]]
                    /\ ops' \in Nat
                    /\ \A v \in Views' : IsView(v)
  BY DEF ShapeInv, IsView, Shaped
<1>2. \A v \in Views' : IsView(v)
  BY DEF ShapeInv
<1>3. ShapeInv'
  BY <1>1, <1>2 DEF ShapeInv
<1>4. NewView(w)
  BY DEF NewView
<1> QED BY <1>3, <1>4

LEMMA MergedShape ==
    ASSUME NEW s, NEW t, Shaped(s), Shaped(t)
    PROVE  Shaped(MergeAgents(s, t))
<1> DEFINE m == MergeAgents(s, t)
           cap == IF s.cap >= t.cap THEN s.cap ELSE t.cap
<1>1. m = [id |-> MergedId(s.id, t.id), facts |-> MergeMap(s.facts, t.facts),
           tags |-> MergeSet(s.tags, t.tags), counters |-> MergedCounters(s, t),
           log |-> MergeLogs(s.log, t.log, cap), cap |-> cap, limiter |-> NoLimiter]
  BY DEF MergeAgents, MergedCounters
<1> HIDE DEF m, cap
<1>2. MergedId(s.id, t.id) \in Ids
  <2>1. s.id \in Seq(Int) /\ t.id \in Seq(Int)
    BY DEF Shaped, Ids
  <2>2. s.id \o t.id \in Seq(Int) /\ t.id \o s.id \in Seq(Int)
    BY <2>1, ConcatProperties
  <2> QED BY <2>1, <2>2 DEF MergedId, Ids
<1>3. \A c \in DOMAIN MergedCounters(s, t) :
        MergedCounters(s, t)[c] =
          [pos |-> MergedCounters(s, t)[c].pos, neg |-> MergedCounters(s, t)[c].neg]
  BY DEF MergedCounters, MergePN
<1>4. MergeMap(s.facts, t.facts) =
        [regs |-> MergeMap(s.facts, t.facts).regs, tombs |-> MergeMap(s.facts, t.facts).tombs]
  BY DEF MergeMap
<1>5. MergeSet(s.tags, t.tags) =
        [elements |-> MergeSet(s.tags, t.tags).elements, tombs |-> MergeSet(s.tags, t.tags).tombs]
  BY DEF MergeSet
<1>6. /\ m.id = MergedId(s.id, t.id) /\ m.facts = MergeMap(s.facts, t.facts)
      /\ m.tags = MergeSet(s.tags, t.tags) /\ m.counters = MergedCounters(s, t)
      /\ m = [id |-> m.id, facts |-> m.facts, tags |-> m.tags, counters |-> m.counters,
              log |-> m.log, cap |-> m.cap, limiter |-> m.limiter]
  BY <1>1
<1>7. Shaped(m)
  BY <1>2, <1>3, <1>4, <1>5, <1>6 DEF Shaped
<1> QED BY <1>7 DEF m

LEMMA ReloadedShape ==
    ASSUME NEW s, Shaped(s)
    PROVE  /\ Shaped(Reload(s))
           /\ Reload(s).facts = s.facts /\ Reload(s).counters = s.counters
           /\ Reload(s).tags = ReloadSet(s.tags)
           /\ Reload(s).log = LastOf(DefaultCap, s.log) /\ Reload(s).cap = DefaultCap
<1>1. ReloadSet(s.tags) = [elements |-> ReloadSet(s.tags).elements, tombs |-> ReloadSet(s.tags).tombs]
  <2>1. s.tags = [elements |-> s.tags.elements, tombs |-> s.tags.tombs]
    BY DEF Shaped
  <2>2. \A x : [s.tags EXCEPT !.elements = x] = [elements |-> x, tombs |-> s.tags.tombs]
    BY <2>1
  <2>3. ReloadSet(s.tags) = [elements |-> [e \in DOMAIN s.tags.elements |->
                                              s.tags.elements[e] \ s.tags.tombs],
                             tombs |-> s.tags.tombs]
    BY <2>2 DEF ReloadSet
  <2> QED BY <2>3
<1> DEFINE tags == ReloadSet(s.tags)
           log == LastOf(DefaultCap, s.log)
           s1 == [s EXCEPT !.tags = tags]
           s2 == [s1 EXCEPT !.log = log]
           s3 == [s2 EXCEPT !.cap = DefaultCap]
           s4 == [s3 EXCEPT !.limiter = NoLimiter]
<1>2. Reload(s) = s4
  BY DEF Reload
<1> HIDE DEF tags, log
<1>3. /\ Shaped(s1) /\ s1.facts = s.facts /\ s1.counters = s.counters /\ s1.tags = tags
      /\ s1.log = s.log /\ s1.cap = s.cap
  BY <1>1, ShapedExcept, ShapedFields DEF tags
<1> HIDE DEF s1
<1>4. /\ Shaped(s2) /\ s2.facts = s.facts /\ s2.counters = s.counters /\ s2.tags = tags
      /\ s2.log = log /\ s2.cap = s.cap
  BY <1>3, ShapedExcept, ShapedFields
<1> HIDE DEF s2
<1>5. /\ Shaped(s3) /\ s3.facts = s.facts /\ s3.counters = s.counters /\ s3.tags = tags
      /\ s3.log = log /\ s3.cap = DefaultCap
  BY <1>4 DEF Shaped
<1> HIDE DEF s3
<1>6. /\ Shaped(s4) /\ s4.facts = s.facts /\ s4.counters = s.counters /\ s4.tags = tags
      /\ s4.log = log /\ s4.cap = DefaultCap
  BY <1>5, ShapedExcept, ShapedFields
<1> HIDE DEF s4
<1> QED BY <1>2, <1>6 DEF tags, log

LEMMA StepView ==
    ASSUME ShapeInv, Careless \/ CareInv, Next
    PROVE  ShapeInv' /\ \E w : NewView(w)
<1>1. PICK a \in Agent :
        \/ \E k \in Key, t \in Time : AddFact(a, k, t) \/ DeleteFact(a, k, t)
        \/ \E e \in Element : AddTag(a, e) \/ RemoveTag(a, e) \/ RemoveOneTag(a, e)
        \/ \E c \in Counter, side \in {"pos", "neg"} : Count(a, c, side)
        \/ AppendMessage(a) \/ Refill(a)
        \/ Begin(a) \/ Commit(a) \/ Rollback(a)
        \/ Share(a) \/ \E form \in shared : Absorb(a, form)
  BY DEF Next
<1> DEFINE s == agent[a]
           v == HeldBy(a)
<1>2. /\ v \in Views /\ v.state = s /\ v.seen = seen[a] /\ Shaped(s) /\ IsFiniteSet(seen[a])
      /\ IsView(v)
  BY HeldView, HeldShape DEF ShapeInv
<1>3. Made(v, Views, ops, ops)
  BY <1>2 DEF Made, Copied, SameLog
<1>4. ASSUME NEW k \in Key, NEW t \in Time, AddFact(a, k, t) \/ DeleteFact(a, k, t)
      PROVE  ShapeInv' /\ \E w : NewView(w)
  BY <1>4, FactSteps
<1>5. ASSUME NEW e \in Element, AddTag(a, e) \/ RemoveTag(a, e) \/ RemoveOneTag(a, e)
      PROVE  ShapeInv' /\ \E w : NewView(w)
  BY <1>5, TagSteps
<1>6. ASSUME NEW c \in Counter, NEW side \in {"pos", "neg"}, Count(a, c, side)
      PROVE  ShapeInv' /\ \E w : NewView(w)
  BY <1>6, CountStep
<1>7. CASE AppendMessage(a)
  <2> DEFINE log == LastOf(s.cap, Append(s.log, ops + 1))
             new == [s EXCEPT !.log = log]
             op == [kind |-> "message", number |-> ops + 1]
             w == [state |-> new, seen |-> seen[a] \cup {op}]
  <2>1. Perform(a, new, op)
    BY <1>7 DEF AppendMessage
  <2> HIDE DEF log
  <2>2. Shaped(new)
    BY <1>2, ShapedExcept
  <2>3. /\ new.facts = s.facts /\ new.tags = s.tags /\ new.counters = s.counters
        /\ new.log = log /\ new.cap = s.cap
    BY <1>2, ShapedFields
  <2>4. Did(v, w, op, Views, ops)
    BY <1>2, <2>3 DEF Did, DidMessage, log
  <2> HIDE DEF new, op
  <2> QED BY <2>1, <2>2, <2>4, PerformStep
<1>8. CASE Refill(a)
  <2> DEFINE new == [s EXCEPT !.limiter = @ + 1]
             w == [state |-> new, seen |-> seen[a]]
  <2>1. /\ agent' = [agent EXCEPT ![a] = new]
        /\ seen' = seen /\ saved' = saved /\ shared' = shared /\ ops' = ops
    BY <1>8 DEF Refill
  <2>2. seen' = [seen EXCEPT ![a] = seen[a]] /\ ops' \in Nat
    BY <2>1 DEF ShapeInv
  <2>3. /\ Shaped(new) /\ new.facts = s.facts /\ new.tags = s.tags /\ new.counters = s.counters
        /\ new.log = s.log /\ new.cap = s.cap
    BY <1>2, ShapedExcept, ShapedFields
  <2> HIDE DEF new
  <2>4. Made(w, Views, ops, ops')
    BY <1>2, <2>1, <2>3 DEF Made, Copied, SameLog
  <2> QED BY <1>2, <2>1, <2>2, <2>3, <2>4, HeldStep
<1>9. CASE Begin(a)
  <2>1. /\ saved' = [saved EXCEPT ![a] = {v}]
        /\ agent' = agent /\ seen' = seen /\ shared' = shared /\ ops' = ops
    BY <1>9 DEF Begin, HeldBy
  <2>2. saved' = [b \in Agent |-> IF b = a THEN {v} ELSE saved[b]]
    BY <2>1 DEF ShapeInv
  <2>3. Views' = {HeldBy(b) : b \in Agent} \cup (UNION {saved'[b] : b \in Agent}) \cup shared
    BY <2>1 DEF Views, HeldBy
  <2> HIDE DEF v
  <2>4. Views' \subseteq Views \cup {v}
    BY <2>2, <2>3 DEF Views
  <2>5. DOMAIN saved' = Agent /\ saved' = [b \in Agent |-> saved'[b]]
    BY <2>2
  <2> QED BY <1>2, <1>3, <2>1, <2>4, <2>5, OtherStep DEF ShapeInv
<1>10. CASE Commit(a)
  <2>1. /\ saved' = [saved EXCEPT ![a] = {}]
        /\ agent' = agent /\ seen' = seen /\ shared' = shared /\ ops' = ops
    BY <1>10 DEF Commit
  <2>2. saved' = [b \in Agent |-> IF b = a THEN {} ELSE saved[b]]
    BY <2>1 DEF ShapeInv
  <2>3. Views' = {HeldBy(b) : b \in Agent} \cup (UNION {saved'[b] : b \in Agent}) \cup shared
    BY <2>1 DEF Views, HeldBy
  <2>4. Views' \subseteq Views \cup {v}
    BY <2>2, <2>3 DEF Views
  <2>5. DOMAIN saved' = Agent /\ saved' = [b \in Agent |-> saved'[b]]
    BY <2>2
  <2> HIDE DEF v
  <2> QED BY <1>2, <1>3, <2>1, <2>4, <2>5, OtherStep DEF ShapeInv
<1>11. CASE Rollback(a)
  <2>1. PICK copy \in saved[a] :
          /\ agent' = [agent EXCEPT ![a] = copy.state]
          /\ seen' = [seen EXCEPT ![a] = copy.seen]
          /\ saved' = [saved EXCEPT ![a] = {}]
          /\ shared' = shared /\ ops' = ops
    BY <1>11 DEF Rollback
  <2>2. /\ saved' = [b \in Agent |-> IF b = a THEN {} ELSE saved[b]]
        /\ agent' = [b \in Agent |-> IF b = a THEN copy.state ELSE agent[b]]
        /\ seen' = [b \in Agent |-> IF b = a THEN copy.seen ELSE seen[b]]
    BY <2>1 DEF ShapeInv
  <2>3. copy \in Views /\ copy = [state |-> copy.state, seen |-> copy.seen]
    <3>1. copy \in Views
      BY DEF Views
    <3> QED BY <3>1 DEF ShapeInv, IsView
  <2>4. \A b \in Agent : HeldBy(b)' = IF b = a THEN copy ELSE HeldBy(b)
    BY <2>2, <2>3 DEF HeldBy
  <2>5. Views' = {HeldBy(b)' : b \in Agent} \cup (UNION {saved'[b] : b \in Agent}) \cup shared
    BY <2>1 DEF Views
  <2>6. \A b \in Agent : HeldBy(b)' \in Views /\ saved'[b] \subseteq Views
    BY <2>2, <2>3, <2>4 DEF Views
  <2>7. Views' \subseteq Views \cup {v}
    BY <2>5, <2>6 DEF Views
  <2>8. /\ DOMAIN saved' = Agent /\ saved' = [b \in Agent |-> saved'[b]]
        /\ DOMAIN agent' = Agent /\ agent' = [b \in Agent |-> agent'[b]]
        /\ DOMAIN seen' = Agent /\ seen' = [b \in Agent |-> seen'[b]]
    BY <2>2
  <2> HIDE DEF v
  <2> QED BY <1>2, <1>3, <2>1, <2>7, <2>8, OtherStep
<1>12. CASE Share(a)
  <2> DEFINE w == [state |-> Reload(s), seen |-> seen[a]]
  <2>1. /\ shared' = shared \cup {w}
        /\ saved' = saved /\ agent' = agent /\ seen' = seen /\ ops' = ops
    BY <1>12 DEF Share
  <2>2. IsView(w)
    BY <1>2, ReloadedShape DEF IsView
  <2>3. Made(w, Views, ops, ops)
    BY <1>2, ReloadedShape DEF Made, Copied, CutLog
  <2> HIDE DEF w
  <2>4. Views' = {HeldBy(b) : b \in Agent} \cup (UNION {saved[b] : b \in Agent}) \cup shared'
    BY <2>1 DEF Views, HeldBy
  <2>5. Views' \subseteq Views \cup {w}
    BY <2>1, <2>4 DEF Views
  <2> QED BY <2>1, <2>2, <2>3, <2>5, OtherStep DEF ShapeInv
<1>13. ASSUME NEW form \in shared, Absorb(a, form)
       PROVE  ShapeInv' /\ \E w : NewView(w)
  <2> DEFINE merged == MergeAgents(s, form.state)
             H == seen[a] \cup form.seen
             w == [state |-> merged, seen |-> H]
  <2>1. /\ agent' = [agent EXCEPT ![a] = merged]
        /\ seen' = [seen EXCEPT ![a] = H]
        /\ saved' = saved /\ shared' = shared /\ ops' = ops
    BY <1>13 DEF Absorb
  <2>2. form \in Views /\ Shaped(form.state) /\ IsFiniteSet(form.seen)
    BY DEF Views, ShapeInv, IsView
  <2>3. Shaped(merged)
    BY <1>2, <2>2, MergedShape
  <2>4. IsFiniteSet(H)
    BY <1>2, <2>2, FS_Union
  <2>5. /\ merged.facts = MergeMap(s.facts, form.state.facts)
        /\ merged.tags = MergeSet(s.tags, form.state.tags)
        /\ merged.counters = MergedCounters(s, form.state)
        /\ merged.cap = IF s.cap >= form.state.cap THEN s.cap ELSE form.state.cap
        /\ merged.log = MergeLogs(s.log, form.state.log, merged.cap)
    BY DEF MergeAgents, MergedCounters
  <2>6. Joined(v, form, w)
    BY <1>2, <2>5 DEF Joined, JoinedLog
  <2>7. Made(w, Views, ops, ops') /\ ops' \in Nat
    BY <1>2, <2>1, <2>2, <2>6 DEF Made, ShapeInv
  <2> HIDE DEF merged, H
  <2> QED BY <2>1, <2>3, <2>4, <2>7, HeldStep
<1> QED BY <1>1, <1>4, <1>5, <1>6, <1>7, <1>8, <1>9, <1>10, <1>11, <1>12, <1>13

LEMMA InitViews ==
    ASSUME Init, NEW v \in Views
    PROVE  \E a \in Agent :
             v = [state |-> NewAgent(<<a>>, Cap[a], Tokens[a]), seen |-> {}]
<1>1. ASSUME NEW a \in Agent
      PROVE  /\ HeldBy(a) = [state |-> NewAgent(<<a>>, Cap[a], Tokens[a]), seen |-> {}]
             /\ saved[a] = {}
  BY DEF Init, HeldBy
<1>2. shared = {}
  BY DEF Init
<1> QED BY <1>1, <1>2 DEF Views

LEMMA InitView ==
    ASSUME Init, NEW v \in Views
    PROVE  /\ v.seen = {}
           /\ v.state.facts = NewLWWMap /\ v.state.tags = NewORSet /\ v.state.counters = EmptyDict
           /\ v.state.log = <<>> /\ \E a \in Agent : v.state.cap = Cap[a]
           /\ IsView(v)
<1>1. PICK a \in Agent : v = [state |-> NewAgent(<<a>>, Cap[a], Tokens[a]), seen |-> {}]
  BY InitViews
<1> DEFINE s == NewAgent(<<a>>, Cap[a], Tokens[a])
<1>2. /\ s.id = <<a>> /\ s.facts = NewLWWMap /\ s.tags = NewORSet /\ s.counters = EmptyDict
      /\ s.log = <<>> /\ s.cap = Cap[a]
      /\ s = [id |-> s.id, facts |-> s.facts, tags |-> s.tags, counters |-> s.counters,
              log |-> s.log, cap |-> s.cap, limiter |-> s.limiter]
  BY DEF NewAgent
<1> HIDE DEF s
<1>3. /\ NewLWWMap = [regs |-> NewLWWMap.regs, tombs |-> NewLWWMap.tombs]
      /\ NewORSet = [elements |-> NewORSet.elements, tombs |-> NewORSet.tombs]
  BY DEF NewLWWMap, NewORSet
<1>4. <<a>> \in Ids
  <2>1. a \in Int
    BY AgentAssumption
  <2> QED BY <2>1 DEF Ids
<1>5. DOMAIN EmptyDict = {}
  BY DEF EmptyDict
<1>6. Shaped(s)
  BY <1>2, <1>3, <1>4, <1>5 DEF Shaped
<1> QED BY <1>1, <1>2, <1>6, FS_EmptySet DEF IsView, s

LEMMA ShapeInit ==
    ASSUME Init
    PROVE  ShapeInv
<1>1. \A v \in Views : IsView(v)
  BY InitView
<1>2. /\ DOMAIN agent = Agent /\ DOMAIN saved = Agent /\ DOMAIN seen = Agent
      /\ agent = [a \in Agent |-> agent[a]] /\ saved = [a \in Agent |-> saved[a]]
      /\ seen = [a \in Agent |-> seen[a]]
      /\ ops \in Nat
  BY DEF Init
<1> QED BY <1>1, <1>2 DEF ShapeInv

LEMMA SameViews ==
    ASSUME UNCHANGED vars
    PROVE  Views' = Views /\ (ShapeInv => ShapeInv') /\ (CareInv => CareInv')
<1>1. Views' = Views
  BY DEF vars, Views, HeldBy
<1>2. ShapeInv => ShapeInv'
  BY <1>1 DEF vars, ShapeInv, IsView, Shaped
<1>3. CareInv => CareInv'
  <2>1. \A a : Published(a)' = Published(a) /\ Elsewhere(a)' = Elsewhere(a)
    BY DEF vars, Published, Elsewhere
  <2> QED BY <2>1 DEF vars, CareInv, By
<1> QED BY <1>1, <1>2, <1>3

(* What every proof below starts from *)
BaseInv == ShapeInv /\ (Careless \/ CareInv)

LEMMA BaseInit ==
    ASSUME Init
    PROVE  BaseInv
BY ShapeInit, CareInit DEF BaseInv

LEMMA BaseNext ==
    ASSUME BaseInv, Next
    PROVE  BaseInv' /\ \E w : NewView(w)
<1>1. ShapeInv' /\ \E w : NewView(w)
  BY StepView DEF BaseInv
<1>2. CASE Careless
  BY <1>1, <1>2 DEF BaseInv
<1>3. CASE ~ Careless
  BY <1>1, <1>3, CareNext DEF BaseInv
<1> QED BY <1>2, <1>3

-----------------------------------------------------------------------------
(* Tags *)

Added(H, e) == {op.tag : op \in {x \in H : x.kind = "tag" /\ x.element = e}}

Removed(H) == UNION {op.tags : op \in {x \in H : x.kind = "untag"}}

OpsOf(V) == UNION {v.seen : v \in V}

(* What TagsOfHistory says of a view *)
TagView(v, n) ==
    /\ \A op \in v.seen : op.kind = "tag" => op.tag \in 1 .. n
    /\ Removed(v.seen) \subseteq 1 .. n
    /\ v.state.tags.tombs = Removed(v.seen)
    /\ \A e : LookUp(v.state.tags.elements, e, {}) = Added(v.seen, e) \ Removed(v.seen)

(* No two elements have one tag. *)
TagInv(V, n) ==
    /\ \A v \in V : TagView(v, n)
    /\ \A x, y \in OpsOf(V) :
         x.kind = "tag" /\ y.kind = "tag" /\ x.tag = y.tag => x.element = y.element

LEMMA SameTags ==
    ASSUME NEW n \in Nat, NEW v, TagView(v, n), NEW w,
           w.state.tags \in {v.state.tags, ReloadSet(v.state.tags)},
           v.state.tags = [elements |-> v.state.tags.elements, tombs |-> v.state.tags.tombs],
           {op \in w.seen : op.kind \in {"tag", "untag"}}
             = {op \in v.seen : op.kind \in {"tag", "untag"}}
    PROVE  TagView(w, n)
<1>1. \A e : Added(w.seen, e) = Added(v.seen, e)
  BY DEF Added
<1>2. Removed(w.seen) = Removed(v.seen)
  BY DEF Removed
<1>3. /\ w.state.tags.tombs = v.state.tags.tombs
      /\ \A e : LookUp(w.state.tags.elements, e, {}) =
                 IF w.state.tags = v.state.tags THEN LookUp(v.state.tags.elements, e, {})
                 ELSE LookUp(v.state.tags.elements, e, {}) \ v.state.tags.tombs
  <2>1. CASE w.state.tags = v.state.tags
    BY <2>1
  <2>2. CASE w.state.tags # v.state.tags
    <3> DEFINE x == [e \in DOMAIN v.state.tags.elements |->
                       v.state.tags.elements[e] \ v.state.tags.tombs]
    <3>1. w.state.tags = [elements |-> x, tombs |-> v.state.tags.tombs]
      <4>1. \A y : [v.state.tags EXCEPT !.elements = y] = [elements |-> y, tombs |-> v.state.tags.tombs]
        OBVIOUS
      <4> QED BY <2>2, <4>1 DEF ReloadSet
    <3>2. \A e : LookUp(x, e, {}) = LookUp(v.state.tags.elements, e, {}) \ v.state.tags.tombs
      BY DEF LookUp
    <3> QED BY <2>2, <3>1, <3>2
  <2> QED BY <2>1, <2>2
<1>4. \A op \in w.seen : op.kind = "tag" => op.tag \in 1 .. n
  BY DEF TagView
<1> QED BY <1>1, <1>2, <1>3, <1>4 DEF TagView

LEMMA JoinedTags ==
    ASSUME NEW n \in Nat, NEW u, NEW v, TagView(u, n), TagView(v, n), NEW w, Joined(u, v, w)
    PROVE  TagView(w, n)
<1> DEFINE s == u.state.tags
           t == v.state.tags
           m == w.state.tags
<1>1. m = MergeSet(s, t) /\ w.seen = u.seen \cup v.seen
  BY DEF Joined
<1>2. Removed(w.seen) = Removed(u.seen) \cup Removed(v.seen)
  BY <1>1 DEF Removed
<1>3. \A e : Added(w.seen, e) = Added(u.seen, e) \cup Added(v.seen, e)
  BY <1>1 DEF Added
<1>4. m.tombs = s.tombs \cup t.tombs
  BY <1>1 DEF MergeSet
<1>5. \A e : LookUp(m.elements, e, {}) =
              (LookUp(s.elements, e, {}) \cup LookUp(t.elements, e, {})) \ m.tombs
  BY <1>1 DEF MergeSet, LookUp
<1> HIDE DEF s, t, m
<1>6. \A e : LookUp(m.elements, e, {}) = Added(w.seen, e) \ Removed(w.seen)
  <2> TAKE e
  <2>1. /\ LookUp(s.elements, e, {}) = Added(u.seen, e) \ Removed(u.seen)
        /\ LookUp(t.elements, e, {}) = Added(v.seen, e) \ Removed(v.seen)
        /\ s.tombs = Removed(u.seen) /\ t.tombs = Removed(v.seen)
    BY DEF TagView, s, t
  <2> QED BY <1>2, <1>3, <1>4, <1>5, <2>1
<1>7. m.tombs = Removed(w.seen)
  BY <1>2, <1>4 DEF TagView, s, t
<1>8. \A op \in w.seen : op.kind = "tag" => op.tag \in 1 .. n
  BY <1>1 DEF TagView
<1>9. Removed(w.seen) \subseteq 1 .. n
  BY <1>2 DEF TagView
<1> QED BY <1>6, <1>7, <1>8, <1>9 DEF TagView, m

LEMMA AddedTag ==
    ASSUME NEW n \in Nat, NEW v, TagView(v, n), IsView(v), NEW w, NEW op,
           DidTag(v, w, op, n), w.seen = v.seen \cup {op}
    PROVE  TagView(w, n + 1)
<1> DEFINE s == v.state.tags
           m == w.state.tags
<1>1. PICK x : /\ op = [kind |-> "tag", element |-> x, tag |-> n + 1]
               /\ m = SetAdd(s, x, n + 1)
  BY DEF DidTag
<1>2. s = [elements |-> s.elements, tombs |-> s.tombs]
  BY DEF IsView, Shaped
<1>3. /\ m.tombs = s.tombs
      /\ m.elements = Put(s.elements, x, LookUp(s.elements, x, {}) \cup {n + 1})
  BY <1>1, <1>2 DEF SetAdd
<1>4. \A e : LookUp(m.elements, e, {}) =
              IF e = x THEN LookUp(s.elements, e, {}) \cup {n + 1} ELSE LookUp(s.elements, e, {})
  BY <1>3, LookUpPut
<1>5. Removed(w.seen) = Removed(v.seen)
  BY <1>1 DEF Removed
<1>6. \A e : Added(w.seen, e) = IF e = x THEN Added(v.seen, e) \cup {n + 1} ELSE Added(v.seen, e)
  BY <1>1 DEF Added
<1>7. n + 1 \notin Removed(v.seen)
  BY DEF TagView
<1> HIDE DEF s, m
<1>8. \A e : LookUp(m.elements, e, {}) = Added(w.seen, e) \ Removed(w.seen)
  <2> TAKE e
  <2>1. LookUp(s.elements, e, {}) = Added(v.seen, e) \ Removed(v.seen)
    BY DEF TagView, s
  <2> QED BY <1>4, <1>5, <1>6, <1>7, <2>1
<1>9. \A y \in w.seen : y.kind = "tag" => y.tag \in 1 .. n + 1
  <2>1. \A y \in v.seen : y.kind = "tag" => y.tag \in 1 .. n + 1
    BY DEF TagView
  <2>2. op.tag \in 1 .. n + 1
    BY <1>1
  <2> QED BY <2>1, <2>2
<1>10. Removed(w.seen) \subseteq 1 .. n + 1
  BY <1>5 DEF TagView
<1>11. m.tombs = Removed(w.seen)
  BY <1>3, <1>5 DEF TagView, s
<1> QED BY <1>8, <1>9, <1>10, <1>11 DEF TagView, m

LEMMA RemovedTags ==
    ASSUME NEW n \in Nat, NEW V, TagInv(V, n), NEW v \in V, IsView(v), NEW w, NEW op,
           DidUntag(v, w, op), w.seen = v.seen \cup {op}
    PROVE  TagView(w, n)
<1> DEFINE s == v.state.tags
           m == w.state.tags
<1>0. TagView(v, n)
  BY DEF TagInv
<1>1. PICK x, T :
        /\ op = [kind |-> "untag", tags |-> T]
        /\ \/ T = LookUp(s.elements, x, {}) /\ m = SetRemove(s, x)
           \/ \E tag \in LookUp(s.elements, x, {}) : T = {tag} /\ m = SetRemoveTag(s, x, tag)
  BY DEF DidUntag
<1>2. s = [elements |-> s.elements, tombs |-> s.tombs]
  BY DEF IsView, Shaped
<1>3. \A e : Added(w.seen, e) = Added(v.seen, e)
  BY <1>1 DEF Added
<1>4. Removed(w.seen) = Removed(v.seen) \cup T
  BY <1>1 DEF Removed
<1>5. T \subseteq LookUp(s.elements, x, {})
  BY <1>1
<1>6. /\ m.tombs = s.tombs \cup T
      /\ \A e : LookUp(m.elements, e, {}) =
                 IF e = x THEN LookUp(s.elements, e, {}) \ T ELSE LookUp(s.elements, e, {})
  <2>1. CASE T = LookUp(s.elements, x, {}) /\ m = SetRemove(s, x) /\ T = {}
    BY <2>1 DEF SetRemove
  <2>2. CASE T = LookUp(s.elements, x, {}) /\ m = SetRemove(s, x) /\ T # {}
    <3>1. m.elements = Put(s.elements, x, {}) /\ m.tombs = s.tombs \cup T
      BY <2>2 DEF SetRemove
    <3> HIDE DEF m
    <3> QED BY <2>2, <3>1, LookUpPut
  <2>3. ASSUME NEW tag \in LookUp(s.elements, x, {}), T = {tag}, m = SetRemoveTag(s, x, tag)
        PROVE  /\ m.tombs = s.tombs \cup T
               /\ \A e : LookUp(m.elements, e, {}) =
                   IF e = x THEN LookUp(s.elements, e, {}) \ T ELSE LookUp(s.elements, e, {})
    <3>1. m.elements = Put(s.elements, x, s.elements[x] \ {tag}) /\ m.tombs = s.tombs \cup T
      BY <2>3 DEF SetRemoveTag
    <3>2. s.elements[x] = LookUp(s.elements, x, {})
      BY <2>3 DEF LookUp
    <3> HIDE DEF m
    <3>3. \A e : LookUp(m.elements, e, {}) =
                 IF e = x THEN s.elements[x] \ {tag} ELSE LookUp(s.elements, e, {})
      BY <3>1, LookUpPut
    <3> HIDE DEF s
    <3> QED BY <2>3, <3>1, <3>2, <3>3
  <2> QED BY <1>1, <2>1, <2>2, <2>3
<1> HIDE DEF s, m
<1>7. \A e : LookUp(s.elements, e, {}) = Added(v.seen, e) \ Removed(v.seen)
  BY <1>0 DEF TagView, s
(* What is removed from x was not added to another element. *)
<1>8. ASSUME NEW e, e # x
      PROVE  Added(v.seen, e) \cap T = {}
  <2> SUFFICES ASSUME NEW tag \in Added(v.seen, e), tag \in T
               PROVE  FALSE
    OBVIOUS
  <2>1. tag \in Added(v.seen, x)
    BY <1>5, <1>7
  <2>2. PICK y \in v.seen : y.kind = "tag" /\ y.element = e /\ y.tag = tag
    BY DEF Added
  <2>3. PICK z \in v.seen : z.kind = "tag" /\ z.element = x /\ z.tag = tag
    BY <2>1 DEF Added
  <2>4. y \in OpsOf(V) /\ z \in OpsOf(V)
    BY DEF OpsOf
  <2> QED BY <1>8, <2>2, <2>3, <2>4 DEF TagInv
<1>9. \A e : LookUp(m.elements, e, {}) = Added(w.seen, e) \ Removed(w.seen)
  <2> TAKE e
  <2>1. CASE e = x
    <3>1. LookUp(m.elements, x, {}) = LookUp(s.elements, x, {}) \ T
      BY <1>6
    <3>2. LookUp(s.elements, x, {}) = Added(v.seen, x) \ Removed(v.seen)
      BY <1>7
    <3>3. Added(w.seen, x) = Added(v.seen, x)
      BY <1>3
    <3> QED BY <1>4, <2>1, <3>1, <3>2, <3>3
  <2>2. CASE e # x
    BY <1>3, <1>4, <1>6, <1>7, <1>8, <2>2
  <2> QED BY <2>1, <2>2
<1>10. T \subseteq 1 .. n
  <2>1. Added(v.seen, x) \subseteq 1 .. n
    BY <1>0 DEF Added, TagView
  <2> QED BY <1>5, <1>7, <2>1
<1>11. \A y \in w.seen : y.kind = "tag" => y.tag \in 1 .. n
  BY <1>0, <1>1 DEF TagView
<1>12. Removed(w.seen) \subseteq 1 .. n /\ m.tombs = Removed(w.seen)
  BY <1>0, <1>4, <1>6, <1>10 DEF TagView, s
<1> QED BY <1>9, <1>11, <1>12 DEF TagView, m

LEMMA MoreTagNumbers ==
    ASSUME NEW n \in Nat, NEW v, TagView(v, n)
    PROVE  TagView(v, n + 1)
<1>1. 1 .. n \subseteq 1 .. n + 1
  OBVIOUS
<1> QED BY <1>1 DEF TagView

LEMMA TagMade ==
    ASSUME NEW n \in Nat, NEW V, \A v \in V : IsView(v), TagInv(V, n),
           NEW w, NEW m, Made(w, V, n, m), NEW W, W \subseteq V \cup {w}
    PROVE  TagInv(W, m)
<1> USE DEF OpsOf
<1>1. PICK v \in V :
        \/ m = n /\ Copied(v, w)
        \/ m = n /\ \E u \in V : Joined(v, u, w)
        \/ m = n + 1 /\ \E op : Did(v, w, op, V, n)
  BY DEF Made
<1>2. TagView(v, n) /\ IsView(v)
      /\ v.state.tags = [elements |-> v.state.tags.elements, tombs |-> v.state.tags.tombs]
  <2>1. TagView(v, n) /\ IsView(v)
    BY DEF TagInv
  <2> QED BY <2>1 DEF IsView, Shaped
<1>3. CASE m = n /\ Copied(v, w)
  <2>1. TagView(w, n)
    BY <1>2, <1>3, SameTags DEF Copied
  <2>2. OpsOf(W) \subseteq OpsOf(V)
    BY <1>3 DEF Copied
  <2> HIDE DEF OpsOf
  <2> QED BY <1>3, <2>1, <2>2 DEF TagInv
<1>4. ASSUME m = n, NEW u \in V, Joined(v, u, w)
      PROVE  TagInv(W, m)
  <2>1. TagView(u, n)
    BY DEF TagInv
  <2>2. TagView(w, n)
    BY <1>2, <1>4, <2>1, JoinedTags
  <2>3. OpsOf(W) \subseteq OpsOf(V)
    BY <1>4 DEF Joined
  <2> HIDE DEF OpsOf
  <2> QED BY <1>4, <2>2, <2>3 DEF TagInv
<1>5. ASSUME m = n + 1, NEW op, Did(v, w, op, V, n)
      PROVE  TagInv(W, m)
  <2>1. w.seen = v.seen \cup {op}
    BY <1>5 DEF Did
  <2>2. OpsOf(W) \subseteq OpsOf(V) \cup {op}
    BY <2>1
  <2>3. TagView(w, n + 1) /\ (op.kind = "tag" => op.tag = n + 1)
    <3>1. CASE DidTag(v, w, op, n)
      BY <1>2, <2>1, <3>1, AddedTag DEF DidTag
    <3>2. CASE DidUntag(v, w, op)
      BY <1>2, <2>1, <3>2, RemovedTags, MoreTagNumbers DEF DidUntag
    <3>3. CASE w.state.tags = v.state.tags /\ op.kind \notin {"tag", "untag"}
      <4>1. {x \in w.seen : x.kind \in {"tag", "untag"}} = {x \in v.seen : x.kind \in {"tag", "untag"}}
        BY <2>1, <3>3
      <4>2. TagView(w, n)
        BY <1>2, <3>3, <4>1, SameTags
      <4> QED BY <3>3, <4>2, MoreTagNumbers
    <3>4. CASE DidSet(v, w, op, V, n)
      BY <3>3, <3>4 DEF DidSet
    <3>5. CASE DidDelete(v, w, op)
      BY <3>3, <3>5 DEF DidDelete
    <3>6. CASE DidCount(v, w, op, V, n)
      BY <3>3, <3>6 DEF DidCount
    <3>7. CASE DidMessage(v, w, op, n)
      BY <3>3, <3>7 DEF DidMessage
    <3> QED BY <1>5, <3>1, <3>2, <3>4, <3>5, <3>6, <3>7 DEF Did
  <2>4. \A x \in OpsOf(V) : x.kind = "tag" => x.tag # n + 1
    BY DEF TagInv, TagView
  <2>5. \A x \in V : TagView(x, n + 1)
    BY MoreTagNumbers DEF TagInv
  <2> HIDE DEF OpsOf
  <2> QED BY <1>5, <2>2, <2>3, <2>4, <2>5 DEF TagInv
<1> QED BY <1>1, <1>3, <1>4, <1>5

(* crdt_merge.core.ORSet in agents: add wins, a removed tag stays out, and  *)
(* a form that comes late brings back nothing that was removed.  Callers    *)
(* may be careless.                                                         *)
THEOREM TagsFollowHistory == Spec => []TagsOfHistory
<1> DEFINE Inv == BaseInv /\ TagInv(Views, ops)
<1>1. Init => Inv
  <2> SUFFICES ASSUME Init PROVE TagInv(Views, ops)
    BY BaseInit
  <2>1. ASSUME NEW v \in Views
        PROVE  v.seen = {} /\ v.state.tags = NewORSet
    BY InitView
  <2>2. \A e : Added({}, e) = {} /\ Removed({}) = {}
    BY DEF Added, Removed
  <2>3. NewORSet.tombs = {} /\ \A e : LookUp(NewORSet.elements, e, {}) = {}
    BY LookUpEmpty DEF NewORSet
  <2>4. \A v \in Views : TagView(v, ops)
    BY <2>1, <2>2, <2>3 DEF TagView
  <2>5. OpsOf(Views) = {}
    BY <2>1 DEF OpsOf
  <2> QED BY <2>4, <2>5 DEF TagInv
<1>2. Inv /\ [Next]_vars => Inv'
  <2> SUFFICES ASSUME Inv, [Next]_vars PROVE Inv'
    OBVIOUS
  <2>1. CASE UNCHANGED vars
    <3>1. Views' = Views /\ BaseInv' /\ ops' = ops
      BY <2>1, SameViews DEF vars, BaseInv
    <3> QED BY <3>1 DEF TagInv, TagView, OpsOf, Added, Removed
  <2>2. CASE Next
    <3>1. BaseInv' /\ \E w : NewView(w)
      BY <2>2, BaseNext
    <3>2. PICK w : Views' \subseteq Views \cup {w} /\ Made(w, Views, ops, ops')
      BY <3>1 DEF NewView
    <3>3. TagInv(Views', ops')
      <4>1. ops \in Nat /\ \A v \in Views : IsView(v)
        BY DEF BaseInv, ShapeInv
      <4> QED BY <3>2, <4>1, TagMade
    <3>4. TagInv(Views, ops)' <=> TagInv(Views', ops')
      BY DEF TagInv, TagView, OpsOf, Added, Removed
    <3> QED BY <3>1, <3>3, <3>4
  <2> QED BY <2>1, <2>2
<1>3. Inv => TagsOfHistory
  <2> SUFFICES ASSUME Inv, NEW a \in Agent, NEW e \in Element
               PROVE  LookUp(agent[a].tags.elements, e, {})
                        = {op.tag : op \in {add \in Seen(a, "tag") : add.element = e}}
                            \ UNION {op.tags : op \in Seen(a, "untag")}
    BY DEF TagsOfHistory
  <2>1. TagView(HeldBy(a), ops)
    BY HeldView DEF TagInv
  <2>2. LookUp(agent[a].tags.elements, e, {}) = Added(seen[a], e) \ Removed(seen[a])
    BY <2>1, HeldView DEF TagView
  <2>3. /\ {add \in Seen(a, "tag") : add.element = e}
             = {x \in seen[a] : x.kind = "tag" /\ x.element = e}
        /\ Seen(a, "untag") = {x \in seen[a] : x.kind = "untag"}
    BY DEF Seen
  <2> QED BY <2>2, <2>3 DEF Added, Removed
<1> QED BY <1>1, <1>2, <1>3, PTL DEF Spec

-----------------------------------------------------------------------------
(* Facts *)

Writes(H, k) == {op \in H : op.kind = "set" /\ op.key = k}

Deletes(H, k) == {op \in H : op.kind = "delete" /\ op.key = k}

RegOf(w) == [value |-> w.value, time |-> w.time, node |-> w.id]

IsLast(H, k, w) == w \in Writes(H, k) /\ \A x \in Writes(H, k) \ {w} : Later(w, x)

Stamped(H) ==
    /\ \A op \in H : op.kind = "set" => op.time \in Nat /\ op.id \in Ids
    /\ \A op \in H : op.kind = "delete" => op.time \in Nat

(* What the map has of a key: the last write, and of the deletions one that *)
(* is as late as any, unless the write is later than all that are missing   *)
FactKey(f, H, k) ==
    /\ k \in DOMAIN f.regs => \E w : IsLast(H, k, w) /\ f.regs[k] = RegOf(w)
    /\ k \notin DOMAIN f.regs => Writes(H, k) = {}
    /\ k \in DOMAIN f.tombs => \E d \in Deletes(H, k) : f.tombs[k] = d.time
    /\ \A d \in Deletes(H, k) :
         \/ k \in DOMAIN f.tombs /\ d.time <= f.tombs[k]
         \/ k \in DOMAIN f.regs /\ d.time < f.regs[k].time

FactView(v) == Stamped(v.seen) /\ \A k : FactKey(v.state.facts, v.seen, k)

WritesDiffer(H) ==
    \A x, y \in H :
        x.kind = "set" /\ y.kind = "set" /\ x.id = y.id /\ x.time = y.time => x = y

FactInv(V) == (\A v \in V : FactView(v)) /\ WritesDiffer(OpsOf(V))

IsWrite(w) == w.kind = "set" /\ w.time \in Nat /\ w.id \in Ids

LEMMA LaterIsTransitive ==
    ASSUME NEW x, NEW y, NEW z, IsWrite(x), IsWrite(y), IsWrite(z), Later(x, y), Later(y, z)
    PROVE  Later(x, z)
<1>1. x.time \in Nat /\ y.time \in Nat /\ z.time \in Nat
      /\ x.id \in Ids /\ y.id \in Ids /\ z.id \in Ids
  BY DEF IsWrite
<1>2. IdAbove(x.id, y.id) /\ IdAbove(y.id, z.id) => IdAbove(x.id, z.id)
  BY <1>1, IdAboveIsTransitive
<1> QED BY <1>1, <1>2 DEF Later

LEMMA LaterIsTotal ==
    ASSUME NEW x, NEW y, IsWrite(x), IsWrite(y), WritesDiffer({x, y}), x # y
    PROVE  Later(x, y) \/ Later(y, x)
<1>1. x.time \in Nat /\ y.time \in Nat /\ x.id \in Ids /\ y.id \in Ids
  BY DEF IsWrite
<1>2. x.time = y.time => x.id # y.id
  BY DEF WritesDiffer, IsWrite
<1>3. x.id # y.id => IdAbove(x.id, y.id) \/ IdAbove(y.id, x.id)
  BY <1>1, IdAboveIsTotal
<1>4. x.time > y.time \/ y.time > x.time \/ x.time = y.time
  BY <1>1
<1> QED BY <1>2, <1>3, <1>4 DEF Later

LEMMA LaterNotEarlier ==
    ASSUME NEW x, NEW y, IsWrite(x), IsWrite(y), Later(x, y)
    PROVE  ~ Later(y, x) /\ x # y
<1>1. x.time \in Nat /\ y.time \in Nat /\ x.id \in Ids /\ y.id \in Ids
  BY DEF IsWrite
<1>2. IdAbove(x.id, y.id) => ~ IdAbove(y.id, x.id) /\ x.id # y.id
  BY <1>1, IdAboveNotBelow
<1> QED BY <1>1, <1>2 DEF Later

LEMMA RegistersMerge ==
    ASSUME NEW x, NEW y
    PROVE  MergeRegister(RegOf(x), RegOf(y)) = IF Later(y, x) THEN RegOf(y) ELSE RegOf(x)
BY DEF MergeRegister, RegOf, Later

LEMMA JoinedFacts ==
    ASSUME NEW u, NEW v, NEW w, FactView(u), FactView(v), WritesDiffer(u.seen \cup v.seen),
           Joined(u, v, w)
    PROVE  FactView(w)
<1> DEFINE f == u.state.facts
           g == v.state.facts
           m == w.state.facts
           H == u.seen
           I == v.seen
<1>1. m = MergeMap(f, g) /\ w.seen = H \cup I
  BY DEF Joined
<1>2. Stamped(w.seen)
  BY <1>1 DEF FactView, Stamped
<1> SUFFICES ASSUME NEW k
             PROVE  FactKey(m, H \cup I, k)
  BY <1>1, <1>2 DEF FactView
<1>3. FactKey(f, H, k) /\ FactKey(g, I, k) /\ Stamped(H) /\ Stamped(I)
  BY DEF FactView
<1>4. /\ DOMAIN m.regs = DOMAIN f.regs \cup DOMAIN g.regs
      /\ DOMAIN m.tombs = DOMAIN f.tombs \cup DOMAIN g.tombs
      /\ k \in DOMAIN m.regs => m.regs[k] = MergeRegister(LookUp(f.regs, k, LookUp(g.regs, k, 0)),
                                                        LookUp(g.regs, k, LookUp(f.regs, k, 0)))
      /\ k \in DOMAIN m.tombs =>
           m.tombs[k] = IF LookUp(f.tombs, k, 0) >= LookUp(g.tombs, k, 0)
                        THEN LookUp(f.tombs, k, 0) ELSE LookUp(g.tombs, k, 0)
  BY <1>1 DEF MergeMap, MergeCounts
<1> HIDE DEF f, g, m, H, I
<1>5. /\ Writes(H \cup I, k) = Writes(H, k) \cup Writes(I, k)
      /\ Deletes(H \cup I, k) = Deletes(H, k) \cup Deletes(I, k)
  BY DEF Writes, Deletes
<1>6. /\ \A x \in Writes(H, k) : IsWrite(x) /\ x \in H
      /\ \A x \in Writes(I, k) : IsWrite(x) /\ x \in I
  BY <1>3 DEF Writes, Stamped, IsWrite
<1>7. k \notin DOMAIN m.regs => Writes(H \cup I, k) = {}
  BY <1>3, <1>4, <1>5 DEF FactKey
(* The winner of two registers is the last write of both histories. *)
<1>8. ASSUME k \in DOMAIN m.regs
      PROVE  /\ \E x : IsLast(H \cup I, k, x) /\ m.regs[k] = RegOf(x)
             /\ k \in DOMAIN f.regs => f.regs[k].time <= m.regs[k].time
             /\ k \in DOMAIN g.regs => g.regs[k].time <= m.regs[k].time
  <2>1. CASE k \in DOMAIN f.regs /\ k \in DOMAIN g.regs
    <3>1. PICK x : IsLast(H, k, x) /\ f.regs[k] = RegOf(x)
      BY <1>3, <2>1 DEF FactKey
    <3>2. PICK y : IsLast(I, k, y) /\ g.regs[k] = RegOf(y)
      BY <1>3, <2>1 DEF FactKey
    <3>3. m.regs[k] = IF Later(y, x) THEN RegOf(y) ELSE RegOf(x)
      <4>1. m.regs[k] = MergeRegister(f.regs[k], g.regs[k])
        BY <1>4, <2>1 DEF LookUp
      <4> QED BY <3>1, <3>2, <4>1, RegistersMerge
    <3>4. /\ IsWrite(x) /\ IsWrite(y) /\ x \in H /\ y \in I
          /\ x \in Writes(H, k) /\ y \in Writes(I, k)
      BY <1>6, <3>1, <3>2 DEF IsLast
    <3>5. CASE Later(y, x)
      <4>1. IsLast(H \cup I, k, y)
        <5> SUFFICES ASSUME NEW z \in Writes(H, k) \cup Writes(I, k), z # y
                     PROVE  Later(y, z)
          BY <1>5, <3>4 DEF IsLast
        <5>1. CASE z \in Writes(I, k)
          BY <3>2, <5>1 DEF IsLast
        <5>2. CASE z \in Writes(H, k) /\ z # x
          <6>1. Later(x, z) /\ IsWrite(z)
            BY <1>6, <3>1, <5>2 DEF IsLast
          <6> QED BY <3>4, <3>5, <6>1, LaterIsTransitive
        <5> QED BY <3>5, <5>1, <5>2
      <4>2. x.time <= y.time
        BY <3>4, <3>5 DEF Later, IsWrite
      <4>3. m.regs[k] = RegOf(y)
        BY <3>3, <3>5
      <4> QED BY <3>1, <3>2, <3>4, <4>1, <4>2, <4>3 DEF RegOf, IsWrite
    <3>6. CASE ~ Later(y, x)
      <4>1. x = y \/ Later(x, y)
        <5>1. WritesDiffer({x, y})
          BY <3>4 DEF WritesDiffer, H, I
        <5> QED BY <3>4, <3>6, <5>1, LaterIsTotal
      <4>2. IsLast(H \cup I, k, x)
        <5> SUFFICES ASSUME NEW z \in Writes(H, k) \cup Writes(I, k), z # x
                     PROVE  Later(x, z)
          BY <1>5, <3>4 DEF IsLast
        <5>1. CASE z \in Writes(H, k)
          BY <3>1, <5>1 DEF IsLast
        <5>2. CASE z \in Writes(I, k) /\ z # y
          <6>1. Later(y, z) /\ IsWrite(z)
            BY <1>6, <3>2, <5>2 DEF IsLast
          <6> QED BY <3>4, <4>1, <6>1, LaterIsTransitive
        <5> QED BY <4>1, <5>1, <5>2
      <4>3. y.time <= x.time
        BY <3>4, <4>1 DEF Later, IsWrite
      <4>4. m.regs[k] = RegOf(x)
        BY <3>3, <3>6
      <4> QED BY <3>1, <3>2, <3>4, <4>2, <4>3, <4>4 DEF RegOf, IsWrite
    <3> QED BY <3>5, <3>6
  <2>2. CASE k \in DOMAIN f.regs /\ k \notin DOMAIN g.regs
    <3>1. PICK x : IsLast(H, k, x) /\ f.regs[k] = RegOf(x)
      BY <1>3, <2>2 DEF FactKey
    <3>2. m.regs[k] = f.regs[k]
      BY <1>4, <2>2 DEF LookUp, MergeRegister
    <3>3. Writes(I, k) = {}
      BY <1>3, <2>2 DEF FactKey
    <3>4. IsLast(H \cup I, k, x) /\ x.time \in Nat
      BY <1>5, <1>6, <3>1, <3>3 DEF IsLast, IsWrite
    <3> QED BY <2>2, <3>1, <3>2, <3>4 DEF RegOf
  <2>3. CASE k \notin DOMAIN f.regs /\ k \in DOMAIN g.regs
    <3>1. PICK x : IsLast(I, k, x) /\ g.regs[k] = RegOf(x)
      BY <1>3, <2>3 DEF FactKey
    <3>2. m.regs[k] = g.regs[k]
      BY <1>4, <2>3 DEF LookUp, MergeRegister
    <3>3. Writes(H, k) = {}
      BY <1>3, <2>3 DEF FactKey
    <3>4. IsLast(H \cup I, k, x) /\ x.time \in Nat
      BY <1>5, <1>6, <3>1, <3>3 DEF IsLast, IsWrite
    <3> QED BY <2>3, <3>1, <3>2, <3>4 DEF RegOf
  <2> QED BY <1>4, <1>8, <2>1, <2>2, <2>3
<1>9. /\ \A d \in Deletes(H, k) \cup Deletes(I, k) : d.time \in Nat
      /\ k \in DOMAIN f.tombs => f.tombs[k] \in Nat
      /\ k \in DOMAIN g.tombs => g.tombs[k] \in Nat
      /\ k \in DOMAIN f.regs => f.regs[k].time \in Nat
      /\ k \in DOMAIN g.regs => g.regs[k].time \in Nat
  <2>1. \A d \in Deletes(H, k) \cup Deletes(I, k) : d.time \in Nat
    BY <1>3 DEF Deletes, Stamped
  <2>2. \A x \in Writes(H, k) \cup Writes(I, k) : RegOf(x).time \in Nat
    BY <1>6 DEF RegOf, IsWrite
  <2> QED BY <1>3, <2>1, <2>2 DEF FactKey, IsLast
<1>10. ASSUME k \in DOMAIN m.tombs
       PROVE  /\ \E d \in Deletes(H \cup I, k) : m.tombs[k] = d.time
              /\ k \in DOMAIN f.tombs => f.tombs[k] <= m.tombs[k]
              /\ k \in DOMAIN g.tombs => g.tombs[k] <= m.tombs[k]
  <2>1. CASE k \in DOMAIN f.tombs /\ k \in DOMAIN g.tombs
    <3>1. m.tombs[k] = IF f.tombs[k] >= g.tombs[k] THEN f.tombs[k] ELSE g.tombs[k]
      BY <1>4, <2>1 DEF LookUp
    <3>2. PICK d \in Deletes(H, k) : f.tombs[k] = d.time
      BY <1>3, <2>1 DEF FactKey
    <3>3. PICK e \in Deletes(I, k) : g.tombs[k] = e.time
      BY <1>3, <2>1 DEF FactKey
    <3>4. d \in Deletes(H \cup I, k) /\ e \in Deletes(H \cup I, k)
      BY <1>5
    <3>5. m.tombs[k] = d.time \/ m.tombs[k] = e.time
      BY <3>1, <3>2, <3>3
    <3>6. f.tombs[k] <= m.tombs[k] /\ g.tombs[k] <= m.tombs[k]
      BY <1>9, <2>1, <3>1
    <3> QED BY <3>4, <3>5, <3>6
  <2>2. CASE k \in DOMAIN f.tombs /\ k \notin DOMAIN g.tombs
    <3>1. m.tombs[k] = f.tombs[k]
      BY <1>4, <1>9, <2>2 DEF LookUp
    <3>2. PICK d \in Deletes(H, k) : f.tombs[k] = d.time
      BY <1>3, <2>2 DEF FactKey
    <3>3. d \in Deletes(H \cup I, k)
      BY <1>5
    <3> QED BY <1>9, <2>2, <3>1, <3>2, <3>3
  <2>3. CASE k \notin DOMAIN f.tombs /\ k \in DOMAIN g.tombs
    <3>1. m.tombs[k] = g.tombs[k]
      BY <1>4, <1>9, <2>3 DEF LookUp
    <3>2. PICK d \in Deletes(I, k) : g.tombs[k] = d.time
      BY <1>3, <2>3 DEF FactKey
    <3>3. d \in Deletes(H \cup I, k)
      BY <1>5
    <3> QED BY <1>9, <2>3, <3>1, <3>2, <3>3
  <2> QED BY <1>4, <1>10, <2>1, <2>2, <2>3
<1>11. ASSUME NEW d \in Deletes(H \cup I, k)
       PROVE  \/ k \in DOMAIN m.tombs /\ d.time <= m.tombs[k]
              \/ k \in DOMAIN m.regs /\ d.time < m.regs[k].time
  <2>1. /\ k \in DOMAIN m.tombs => m.tombs[k] \in Nat
        /\ k \in DOMAIN m.regs => m.regs[k].time \in Nat
    <3>1. \A x \in Writes(H \cup I, k) : RegOf(x).time \in Nat
      BY <1>5, <1>6 DEF RegOf, IsWrite
    <3> QED BY <1>5, <1>8, <1>9, <1>10, <3>1 DEF IsLast
  <2>2. CASE d \in Deletes(H, k)
    <3>1. \/ k \in DOMAIN f.tombs /\ d.time <= f.tombs[k]
          \/ k \in DOMAIN f.regs /\ d.time < f.regs[k].time
      BY <1>3, <2>2 DEF FactKey
    <3> QED BY <1>4, <1>8, <1>9, <1>10, <2>1, <2>2, <3>1
  <2>3. CASE d \in Deletes(I, k)
    <3>1. \/ k \in DOMAIN g.tombs /\ d.time <= g.tombs[k]
          \/ k \in DOMAIN g.regs /\ d.time < g.regs[k].time
      BY <1>3, <2>3 DEF FactKey
    <3> QED BY <1>4, <1>8, <1>9, <1>10, <2>1, <2>3, <3>1
  <2> QED BY <1>5, <2>2, <2>3
<1> QED BY <1>7, <1>8, <1>10, <1>11 DEF FactKey

FactOps(H) == {op \in H : op.kind \in {"set", "delete"}}

LEMMA SameFacts ==
    ASSUME NEW v, NEW w, FactView(v), w.state.facts = v.state.facts,
           FactOps(w.seen) = FactOps(v.seen)
    PROVE  FactView(w)
<1>1. \A k : Writes(w.seen, k) = Writes(v.seen, k) /\ Deletes(w.seen, k) = Deletes(v.seen, k)
  BY DEF Writes, Deletes, FactOps
<1>2. Stamped(w.seen)
  BY DEF FactView, Stamped, FactOps
<1> QED BY <1>1, <1>2 DEF FactView, FactKey, IsLast

LEMMA AddedFact ==
    ASSUME ~ Careless, Time \subseteq Nat, NEW v, NEW w, NEW op, NEW V, NEW n,
           FactView(v), IsView(v), w.seen = v.seen \cup {op}, DidSet(v, w, op, V, n)
    PROVE  FactView(w)
<1> DEFINE f == v.state.facts
           H == v.seen
           i == v.state.id
<1>1. PICK k, t :
        /\ t \in Time
        /\ op = [kind |-> "set", key |-> k, time |-> t, id |-> i, value |-> n + 1]
        /\ w.state.facts = MapSet(f, k, [value |-> n + 1, time |-> t, node |-> i])
        /\ LookUp(f.regs, k, [time |-> -1]).time < t
  BY DEF DidSet
<1>2. t \in Nat /\ i \in Ids /\ Stamped(H) /\ w.seen = H \cup {op}
  BY <1>1 DEF IsView, Shaped, FactView
<1> DEFINE m == w.state.facts
<1>3. /\ m.regs = Put(f.regs, k, RegOf(op))
      /\ DOMAIN m.tombs = {y \in DOMAIN f.tombs : y = k => t <= f.tombs[y]}
      /\ \A x \in DOMAIN m.tombs : m.tombs[x] = f.tombs[x]
  BY <1>1 DEF MapSet, RegOf
<1>4. op.kind = "set" /\ op.key = k /\ op.time = t /\ op.id = i /\ RegOf(op).time = t
  BY <1>1 DEF RegOf
<1>5. Stamped(w.seen)
  BY <1>2, <1>4 DEF Stamped
<1> SUFFICES ASSUME NEW x
             PROVE  FactKey(m, H \cup {op}, x)
  BY <1>2, <1>5 DEF FactView
<1>6. FactKey(f, H, x)
  BY DEF FactView
<1>7. LookUp(f.regs, k, [time |-> -1]).time < t
  BY <1>1
<1> HIDE DEF f, H, i, m
<1>8. /\ Deletes(H \cup {op}, x) = Deletes(H, x)
      /\ Writes(H \cup {op}, x) = IF x = k THEN Writes(H, x) \cup {op} ELSE Writes(H, x)
  BY <1>4 DEF Deletes, Writes
<1>9. \A y \in Writes(H, x) : y.time \in Nat
  BY <1>2 DEF Writes, Stamped
<1>10. \A d \in Deletes(H, x) : d.time \in Nat
  BY <1>2 DEF Deletes, Stamped
<1>11. CASE x # k
  <2>1. /\ x \in DOMAIN m.regs <=> x \in DOMAIN f.regs
        /\ x \in DOMAIN f.regs => m.regs[x] = f.regs[x]
        /\ x \in DOMAIN m.tombs <=> x \in DOMAIN f.tombs
        /\ x \in DOMAIN m.tombs => m.tombs[x] = f.tombs[x]
    BY <1>3, <1>11 DEF Put
  <2> QED BY <1>6, <1>8, <1>11, <2>1 DEF FactKey, IsLast
<1>12. CASE x = k
  <2>1. x \in DOMAIN m.regs /\ m.regs[x] = RegOf(op)
    BY <1>3, <1>12 DEF Put
  <2>2. ASSUME x \in DOMAIN f.regs
        PROVE  /\ f.regs[x].time \in Nat /\ f.regs[x].time < t
               /\ \A y \in Writes(H, x) : y.time < t
    <3>1. PICK y : IsLast(H, x, y) /\ f.regs[x] = RegOf(y)
      BY <1>6, <2>2 DEF FactKey
    <3>2. f.regs[x].time = y.time /\ y.time \in Nat
      BY <1>9, <3>1 DEF IsLast, RegOf
    <3>3. y.time < t
      BY <1>7, <1>12, <2>2, <3>2 DEF LookUp
    <3>4. \A z \in Writes(H, x) : z.time <= y.time
      BY <1>9, <3>1 DEF IsLast, Later
    <3> QED BY <1>2, <1>9, <3>2, <3>3, <3>4
  <2>3. \A y \in Writes(H, x) : y.time < t
    BY <1>6, <2>2 DEF FactKey
  <2>4. IsLast(H \cup {op}, x, op)
    BY <1>4, <1>8, <1>12, <2>3 DEF IsLast, Later
  <2>5. x \in DOMAIN m.tombs => \E d \in Deletes(H, x) : m.tombs[x] = d.time
    BY <1>3, <1>6 DEF FactKey
  <2>6. x \in DOMAIN f.tombs => f.tombs[x] \in Nat
    BY <1>6, <1>10 DEF FactKey
  <2>7. ASSUME NEW d \in Deletes(H, x)
        PROVE  (x \in DOMAIN m.tombs /\ d.time <= m.tombs[x]) \/ d.time < t
    <3>1. CASE x \in DOMAIN f.tombs /\ d.time <= f.tombs[x]
      <4>1. CASE t <= f.tombs[x]
        BY <1>3, <3>1, <4>1
      <4>2. CASE f.tombs[x] < t
        BY <1>2, <1>10, <2>6, <3>1, <4>2
      <4> QED BY <1>2, <2>6, <3>1, <4>1, <4>2
    <3>2. CASE x \in DOMAIN f.regs /\ d.time < f.regs[x].time
      BY <1>2, <1>10, <2>2, <3>2
    <3> QED BY <1>6, <3>1, <3>2 DEF FactKey
  <2> QED BY <1>4, <1>8, <2>1, <2>4, <2>5, <2>7 DEF FactKey
<1> QED BY <1>11, <1>12

LEMMA DeletedFact ==
    ASSUME ~ Careless, Time \subseteq Nat, NEW v, NEW w, NEW op,
           FactView(v), IsView(v), w.seen = v.seen \cup {op}, DidDelete(v, w, op)
    PROVE  FactView(w)
<1> DEFINE f == v.state.facts
           H == v.seen
<1>1. PICK k, t :
        /\ t \in Time
        /\ op = [kind |-> "delete", key |-> k, time |-> t]
        /\ w.state.facts = MapDelete(f, k, t)
        /\ LookUp(f.tombs, k, -1) < t
  BY DEF DidDelete
<1>2. t \in Nat /\ Stamped(H) /\ w.seen = H \cup {op} /\ f = [regs |-> f.regs, tombs |-> f.tombs]
  BY <1>1 DEF IsView, Shaped, FactView
<1> DEFINE m == w.state.facts
<1>3. m.regs = f.regs /\ m.tombs = Put(f.tombs, k, t)
  <2>1. \A g : [f EXCEPT !.tombs = g] = [regs |-> f.regs, tombs |-> g]
    BY <1>2
  <2> QED BY <1>1, <2>1 DEF MapDelete
<1>4. op.kind = "delete" /\ op.key = k /\ op.time = t
  BY <1>1
<1>5. Stamped(w.seen)
  BY <1>2, <1>4 DEF Stamped
<1> SUFFICES ASSUME NEW x
             PROVE  FactKey(m, H \cup {op}, x)
  BY <1>2, <1>5 DEF FactView
<1>6. FactKey(f, H, x)
  BY DEF FactView
<1>7. LookUp(f.tombs, k, -1) < t
  BY <1>1
<1> HIDE DEF f, H, m
<1>8. /\ Writes(H \cup {op}, x) = Writes(H, x)
      /\ Deletes(H \cup {op}, x) = IF x = k THEN Deletes(H, x) \cup {op} ELSE Deletes(H, x)
  BY <1>4 DEF Deletes, Writes
<1>10. \A d \in Deletes(H, x) : d.time \in Nat
  BY <1>2 DEF Deletes, Stamped
<1>11. CASE x # k
  <2>1. /\ x \in DOMAIN m.tombs <=> x \in DOMAIN f.tombs
        /\ x \in DOMAIN m.tombs => m.tombs[x] = f.tombs[x]
    BY <1>3, <1>11 DEF Put
  <2> QED BY <1>3, <1>6, <1>8, <1>11, <2>1 DEF FactKey, IsLast
<1>12. CASE x = k
  <2>1. x \in DOMAIN m.tombs /\ m.tombs[x] = t
    BY <1>3, <1>12 DEF Put
  <2>2. op \in Deletes(H \cup {op}, x)
    BY <1>8, <1>12
  <2>3. x \in DOMAIN f.tombs => f.tombs[x] \in Nat /\ f.tombs[x] < t
    <3>1. x \in DOMAIN f.tombs => f.tombs[x] \in Nat
      BY <1>6, <1>10 DEF FactKey
    <3> QED BY <1>7, <1>12, <3>1 DEF LookUp
  <2>4. ASSUME NEW d \in Deletes(H \cup {op}, x)
        PROVE  d.time <= t \/ (x \in DOMAIN m.regs /\ d.time < m.regs[x].time)
    <3>1. CASE d = op
      BY <1>2, <1>4, <3>1
    <3>2. CASE d \in Deletes(H, x)
      BY <1>2, <1>3, <1>6, <1>10, <2>3, <3>2 DEF FactKey
    <3> QED BY <1>8, <1>12, <3>1, <3>2
  <2>5. /\ x \in DOMAIN m.regs => \E y : IsLast(H \cup {op}, x, y) /\ m.regs[x] = RegOf(y)
        /\ x \notin DOMAIN m.regs => Writes(H \cup {op}, x) = {}
    BY <1>3, <1>6, <1>8 DEF FactKey, IsLast
  <2> QED BY <1>4, <2>1, <2>2, <2>4, <2>5 DEF FactKey
<1> QED BY <1>11, <1>12

LEMMA FactMade ==
    ASSUME ~ Careless, Time \subseteq Nat, NEW V, NEW n, NEW m, NEW w, NEW W,
           FactInv(V), \A v \in V : IsView(v), Made(w, V, n, m), W \subseteq V \cup {w}
    PROVE  FactInv(W)
<1>1. PICK v \in V :
        \/ Copied(v, w)
        \/ \E u \in V : Joined(v, u, w)
        \/ \E op : Did(v, w, op, V, n)
  BY DEF Made
<1>2. FactView(v) /\ IsView(v) /\ v.seen \subseteq OpsOf(V)
  BY DEF FactInv, OpsOf
<1>3. WritesDiffer(OpsOf(V)) /\ \A u \in V : FactView(u) /\ u.seen \subseteq OpsOf(V)
  BY DEF FactInv, OpsOf
<1>4. CASE Copied(v, w)
  <2>1. FactView(w)
    BY <1>2, <1>4, SameFacts DEF Copied
  <2>2. OpsOf(W) \subseteq OpsOf(V)
    BY <1>4 DEF Copied, OpsOf
  <2>3. WritesDiffer(OpsOf(W))
    BY <1>3, <2>2 DEF WritesDiffer
  <2> QED BY <1>3, <2>1, <2>3 DEF FactInv
<1>5. ASSUME NEW u \in V, Joined(v, u, w)
      PROVE  FactInv(W)
  <2>1. FactView(w)
    <3>1. WritesDiffer(v.seen \cup u.seen)
      BY <1>2, <1>3 DEF WritesDiffer
    <3> QED BY <1>2, <1>3, <1>5, <3>1, JoinedFacts
  <2>2. OpsOf(W) \subseteq OpsOf(V)
    BY <1>5 DEF Joined, OpsOf
  <2>3. WritesDiffer(OpsOf(W))
    BY <1>3, <2>2 DEF WritesDiffer
  <2> QED BY <1>3, <2>1, <2>3 DEF FactInv
<1>6. ASSUME NEW op, Did(v, w, op, V, n)
      PROVE  FactInv(W)
  <2>1. w.seen = v.seen \cup {op}
    BY <1>6 DEF Did
  <2>2. OpsOf(W) \subseteq OpsOf(V) \cup {op}
    BY <2>1 DEF OpsOf
  <2>3. FactView(w) /\ (op.kind = "set" => \A x \in OpsOf(V) :
                           x.kind = "set" /\ x.id = op.id => x.time # op.time)
    <3>1. CASE DidSet(v, w, op, V, n)
      <4>1. FactView(w)
        BY <1>2, <2>1, <3>1, AddedFact
      <4>2. \A u \in V : \A x \in u.seen : x.kind = "set" /\ x.id = op.id => x.time # op.time
        BY <3>1 DEF DidSet
      <4> QED BY <4>1, <4>2 DEF OpsOf
    <3>2. CASE DidDelete(v, w, op)
      <4>1. FactView(w)
        BY <1>2, <2>1, <3>2, DeletedFact
      <4> QED BY <3>2, <4>1 DEF DidDelete
    <3>3. CASE w.state.facts = v.state.facts /\ op.kind \notin {"set", "delete"}
      <4>1. FactOps(w.seen) = FactOps(v.seen)
        BY <2>1, <3>3 DEF FactOps
      <4> QED BY <1>2, <3>3, <4>1, SameFacts
    <3>4. CASE DidTag(v, w, op, n)
      BY <3>3, <3>4 DEF DidTag
    <3>5. CASE DidUntag(v, w, op)
      BY <3>3, <3>5 DEF DidUntag
    <3>6. CASE DidCount(v, w, op, V, n)
      BY <3>3, <3>6 DEF DidCount
    <3>7. CASE DidMessage(v, w, op, n)
      BY <3>3, <3>7 DEF DidMessage
    <3> QED BY <1>6, <3>1, <3>2, <3>4, <3>5, <3>6, <3>7 DEF Did
  <2>4. WritesDiffer(OpsOf(W))
    BY <1>3, <2>2, <2>3 DEF WritesDiffer
  <2> QED BY <1>3, <2>3, <2>4 DEF FactInv
<1> QED BY <1>1, <1>4, <1>5, <1>6

(* What FactsOfHistory says of a key of a view *)
LEMMA FactShown ==
    ASSUME NEW f, NEW H, NEW k, Stamped(H), FactKey(f, H, k)
    PROVE  {w.value : w \in {x \in Writes(H, k) : /\ IsLast(H, k, x)
                                                  /\ \A d \in Deletes(H, k) : x.time > d.time}}
             = IF IsLive(f, k) THEN {f.regs[k].value} ELSE {}
<1> DEFINE live == {x \in Writes(H, k) : /\ IsLast(H, k, x)
                                         /\ \A d \in Deletes(H, k) : x.time > d.time}
<1>1. \A x \in Writes(H, k) : IsWrite(x)
  BY DEF Writes, Stamped, IsWrite
<1>2. \A d \in Deletes(H, k) : d.time \in Nat
  BY DEF Deletes, Stamped
<1>3. CASE k \notin DOMAIN f.regs
  BY <1>3 DEF FactKey, IsLive
<1>4. CASE k \in DOMAIN f.regs
  <2>1. PICK w : IsLast(H, k, w) /\ f.regs[k] = RegOf(w)
    BY <1>4 DEF FactKey
  <2>2. w \in Writes(H, k) /\ IsWrite(w) /\ w.time \in Nat
        /\ f.regs[k].time = w.time /\ f.regs[k].value = w.value
    BY <1>1, <2>1 DEF IsLast, RegOf, IsWrite
  <2>3. ASSUME NEW x \in Writes(H, k), IsLast(H, k, x)
        PROVE  x = w
    <3>1. CASE x # w
      <4>1. Later(x, w) /\ Later(w, x) /\ IsWrite(x)
        BY <1>1, <2>1, <2>2, <2>3, <3>1 DEF IsLast
      <4> QED BY <2>2, <4>1, LaterNotEarlier
    <3> QED BY <3>1
  <2>4. IsLive(f, k) <=> \A d \in Deletes(H, k) : w.time > d.time
    <3>1. ASSUME IsLive(f, k), NEW d \in Deletes(H, k)
          PROVE  w.time > d.time
      <4>1. k \in DOMAIN f.tombs => f.tombs[k] \in Nat /\ w.time > f.tombs[k]
        BY <1>2, <2>2, <3>1 DEF IsLive, FactKey
      <4>2. \/ k \in DOMAIN f.tombs /\ d.time <= f.tombs[k]
            \/ k \in DOMAIN f.regs /\ d.time < f.regs[k].time
        BY DEF FactKey
      <4> QED BY <1>2, <2>2, <4>1, <4>2
    <3>2. ASSUME \A d \in Deletes(H, k) : w.time > d.time
          PROVE  IsLive(f, k)
      <4>1. k \in DOMAIN f.tombs => \E d \in Deletes(H, k) : f.tombs[k] = d.time
        BY DEF FactKey
      <4> QED BY <1>4, <2>2, <3>2, <4>1 DEF IsLive
    <3> QED BY <3>1, <3>2
  <2>5. live = IF IsLive(f, k) THEN {w} ELSE {}
    BY <2>1, <2>2, <2>3, <2>4
  <2> HIDE DEF live
  <2>6. {x.value : x \in live} = IF IsLive(f, k) THEN {w.value} ELSE {}
    BY <2>5
  <2> QED BY <2>2, <2>6 DEF live
<1> QED BY <1>3, <1>4

(* What every view has of the facts *)
LEMMA FactsHold == ASSUME ~ Careless PROVE Spec => [](BaseInv /\ FactInv(Views))
<1> DEFINE Inv == BaseInv /\ FactInv(Views)
<1>0. Time \subseteq Nat
  BY AgentAssumption DEF AgentAssumption
<1>1. Init => Inv
  <2> SUFFICES ASSUME Init PROVE FactInv(Views)
    BY BaseInit
  <2>1. ASSUME NEW v \in Views
        PROVE  v.seen = {} /\ v.state.facts = NewLWWMap
    BY InitView
  <2>2. Stamped({}) /\ \A k : Writes({}, k) = {} /\ Deletes({}, k) = {}
    BY DEF Stamped, Writes, Deletes
  <2>3. NewLWWMap.regs = EmptyDict /\ NewLWWMap.tombs = EmptyDict /\ DOMAIN EmptyDict = {}
    BY DEF NewLWWMap, EmptyDict
  <2>4. \A v \in Views : FactView(v)
    BY <2>1, <2>2, <2>3 DEF FactView, FactKey
  <2>5. OpsOf(Views) = {}
    BY <2>1 DEF OpsOf
  <2> QED BY <2>4, <2>5 DEF FactInv, WritesDiffer
<1>2. Inv /\ [Next]_vars => Inv'
  <2> SUFFICES ASSUME Inv, [Next]_vars PROVE Inv'
    OBVIOUS
  <2>1. CASE UNCHANGED vars
    <3>1. Views' = Views /\ BaseInv'
      BY <2>1, SameViews DEF vars, BaseInv
    <3>2. FactInv(Views)' <=> FactInv(Views')
      OBVIOUS
    <3> QED BY <3>1, <3>2
  <2>2. CASE Next
    <3>1. BaseInv' /\ \E w : NewView(w)
      BY <2>2, BaseNext
    <3>2. PICK w : Views' \subseteq Views \cup {w} /\ Made(w, Views, ops, ops')
      BY <3>1 DEF NewView
    <3>3. FactInv(Views')
      <4>1. \A v \in Views : IsView(v)
        BY DEF BaseInv, ShapeInv
      <4> QED BY <1>0, <3>2, <4>1, FactMade
    <3>4. FactInv(Views)' <=> FactInv(Views')
      OBVIOUS
    <3> QED BY <3>1, <3>3, <3>4
  <2> QED BY <2>1, <2>2
<1> QED BY <1>1, <1>2, PTL DEF Spec

(* crdt_merge.core.LWWMap in agents, of callers that are not careless: a    *)
(* fact is the latest write in the causal past of the agent, and is visible *)
(* unless a deletion there is as late.                                      *)
THEOREM FactsFollowHistory == ASSUME ~ Careless PROVE Spec => []FactsOfHistory
<1> DEFINE Inv == BaseInv /\ FactInv(Views)
<1>1. Inv => FactsOfHistory
  <2> SUFFICES ASSUME Inv, NEW a \in Agent, NEW k \in Key
               PROVE  LET writes == {op \in Seen(a, "set") : op.key = k}
                          deletes == {op \in Seen(a, "delete") : op.key = k}
                          last == {w \in writes : \A v \in writes \ {w} : Later(w, v)}
                          live == {w \in last : \A d \in deletes : w.time > d.time}
                          facts == agent[a].facts
                      IN {w.value : w \in live}
                           = IF IsLive(facts, k) THEN {facts.regs[k].value} ELSE {}
    BY DEF FactsOfHistory
  <2>1. Stamped(seen[a]) /\ FactKey(agent[a].facts, seen[a], k)
    <3>1. FactView(HeldBy(a))
      BY HeldView DEF FactInv
    <3> QED BY <3>1, HeldView DEF FactView
  <2>2. /\ {op \in Seen(a, "set") : op.key = k} = Writes(seen[a], k)
        /\ {op \in Seen(a, "delete") : op.key = k} = Deletes(seen[a], k)
    BY DEF Seen, Writes, Deletes
  <2> DEFINE writes == Writes(seen[a], k)
             deletes == Deletes(seen[a], k)
             last == {w \in writes : \A v \in writes \ {w} : Later(w, v)}
             live == {w \in last : \A d \in deletes : w.time > d.time}
  <2>3. live = {x \in writes : /\ IsLast(seen[a], k, x)
                               /\ \A d \in deletes : x.time > d.time}
    BY DEF IsLast
  <2>4. {w.value : w \in {x \in writes : /\ IsLast(seen[a], k, x)
                                         /\ \A d \in deletes : x.time > d.time}}
          = IF IsLive(agent[a].facts, k) THEN {agent[a].facts.regs[k].value} ELSE {}
    BY <2>1, FactShown
  <2>5. {w.value : w \in live}
          = IF IsLive(agent[a].facts, k) THEN {agent[a].facts.regs[k].value} ELSE {}
    BY <2>3, <2>4, Zenon
  <2> QED BY <2>2, <2>5
<1>2. Spec => []Inv
  BY FactsHold
<1> QED BY <1>1, <1>2, PTL

-----------------------------------------------------------------------------
(* Counters *)

Slot(s, c, side, id) == LookUp(LookUp(s.counters, c, NewPNCounter)[side], id, 0)

Done(H, c, side, id) ==
    {op \in H : op.kind = "count" /\ op.counter = c /\ op.side = side /\ op.id = id}

(* Two users of an id lose counts, and never count too much. *)
CountSlot(slot, D) ==
    /\ slot \in Nat
    /\ slot <= Cardinality(D)
    /\ (\A x, y \in D : x.by = y.by) => slot = Cardinality(D)

CountView(v, n) ==
    /\ \A op \in v.seen : op.kind = "count" => op.number \in Nat /\ op.number <= n
    /\ \A c, id : \A side \in {"pos", "neg"} :
         CountSlot(Slot(v.state, c, side, id), Done(v.seen, c, side, id))

(* Of the operations that an agent has done, one view has seen all that the *)
(* other has.                                                               *)
CountInv(V, n) ==
    /\ \A v \in V : CountView(v, n)
    /\ \A u, v \in V : \A p : \/ By(u.seen, p) \subseteq By(v.seen, p)
                              \/ By(v.seen, p) \subseteq By(u.seen, p)

LEMMA NoSlot ==
    ASSUME NEW c, NEW id, NEW side \in {"pos", "neg"}, NEW s, c \notin DOMAIN s.counters
    PROVE  Slot(s, c, side, id) = 0
<1>1. NewPNCounter[side] = EmptyDict
  BY DEF NewPNCounter
<1> QED BY <1>1, LookUpEmpty DEF Slot, LookUp

LEMMA JoinedSlot ==
    ASSUME NEW u, NEW v, NEW w, Joined(u, v, w),
           NEW c, NEW id, NEW side \in {"pos", "neg"},
           Slot(u.state, c, side, id) \in Nat, Slot(v.state, c, side, id) \in Nat
    PROVE  Slot(w.state, c, side, id)
             = IF Slot(u.state, c, side, id) >= Slot(v.state, c, side, id)
               THEN Slot(u.state, c, side, id) ELSE Slot(v.state, c, side, id)
<1> DEFINE s == u.state
           t == v.state
           a == LookUp(s.counters, c, NewPNCounter)[side]
           b == LookUp(t.counters, c, NewPNCounter)[side]
<1>1. w.state.counters = MergedCounters(s, t)
  BY DEF Joined
<1>2. CASE c \notin DOMAIN s.counters \cup DOMAIN t.counters
  <2>1. c \notin DOMAIN w.state.counters
    BY <1>1, <1>2 DEF MergedCounters
  <2>2. Slot(w.state, c, side, id) = 0 /\ Slot(s, c, side, id) = 0 /\ Slot(t, c, side, id) = 0
    BY <1>2, <2>1, NoSlot
  <2> QED BY <2>2
<1>3. CASE c \in DOMAIN s.counters \cup DOMAIN t.counters
  <2>1. LookUp(w.state.counters, c, NewPNCounter)
          = MergePN(LookUp(s.counters, c, NewPNCounter), LookUp(t.counters, c, NewPNCounter))
    BY <1>1, <1>3 DEF MergedCounters, LookUp
  <2>2. LookUp(w.state.counters, c, NewPNCounter)[side] = MergeCounts(a, b)
    <3>1. CASE side = "pos"
      BY <2>1, <3>1 DEF MergePN
    <3>2. CASE side = "neg"
      BY <2>1, <3>2 DEF MergePN
    <3> QED BY <3>1, <3>2
  <2>3. /\ Slot(s, c, side, id) = LookUp(a, id, 0) /\ Slot(t, c, side, id) = LookUp(b, id, 0)
        /\ Slot(w.state, c, side, id) = LookUp(MergeCounts(a, b), id, 0)
    BY <2>2 DEF Slot
  <2> HIDE DEF a, b
  <2>4. LookUp(MergeCounts(a, b), id, 0)
          = IF LookUp(a, id, 0) >= LookUp(b, id, 0) THEN LookUp(a, id, 0) ELSE LookUp(b, id, 0)
    BY DEF MergeCounts, LookUp
  <2> QED BY <2>3, <2>4
<1> QED BY <1>2, <1>3

CountedIn(s, c, side) ==
    Put(s.counters, c,
        [LookUp(s.counters, c, NewPNCounter) EXCEPT ![side] = Increment(@, s.id, 1)])

LEMMA CountedSlot ==
    ASSUME NEW s, NEW t, Shaped(s), NEW c, NEW side \in {"pos", "neg"},
           t.counters = CountedIn(s, c, side),
           NEW d, NEW other \in {"pos", "neg"}, NEW id
    PROVE  Slot(t, d, other, id)
             = IF d = c /\ other = side /\ id = s.id
               THEN Slot(s, d, other, id) + 1 ELSE Slot(s, d, other, id)
<1> DEFINE pn == LookUp(s.counters, c, NewPNCounter)
           i == s.id
<1>1. pn = [pos |-> pn.pos, neg |-> pn.neg]
  BY DEF Shaped, LookUp, NewPNCounter
<1>2. LookUp(t.counters, d, NewPNCounter)
        = IF d = c THEN [pn EXCEPT ![side] = Increment(@, i, 1)]
          ELSE LookUp(s.counters, d, NewPNCounter)
  BY LookUpPut DEF CountedIn
<1>3. CASE d # c
  BY <1>2, <1>3 DEF Slot
<1>4. CASE d = c
  <2>1. /\ Slot(t, d, other, id) = LookUp([pn EXCEPT ![side] = Increment(@, i, 1)][other], id, 0)
        /\ Slot(s, d, other, id) = LookUp(pn[other], id, 0)
    BY <1>2, <1>4 DEF Slot
  <2> HIDE DEF pn, i
  <2>2. [pn EXCEPT ![side] = Increment(@, i, 1)][other]
          = IF other = side THEN Increment(pn[other], i, 1) ELSE pn[other]
    BY <1>1
  <2>3. LookUp(Increment(pn[other], i, 1), id, 0)
          = IF id = i THEN LookUp(pn[other], id, 0) + 1 ELSE LookUp(pn[other], id, 0)
    BY LookUpPut DEF Increment
  <2> QED BY <1>4, <2>1, <2>2, <2>3 DEF i
<1> QED BY <1>3, <1>4

LEMMA SameCounts ==
    ASSUME NEW v, NEW w, NEW n, CountView(v, n), w.state.counters = v.state.counters,
           {op \in w.seen : op.kind = "count"} = {op \in v.seen : op.kind = "count"}
    PROVE  CountView(w, n)
<1>1. \A c, side, id : Done(w.seen, c, side, id) = Done(v.seen, c, side, id)
  BY DEF Done
<1>2. \A c, side, id : Slot(w.state, c, side, id) = Slot(v.state, c, side, id)
  BY DEF Slot
<1> QED BY <1>1, <1>2 DEF CountView

LEMMA MoreCounts ==
    ASSUME NEW v, NEW n \in Nat, CountView(v, n)
    PROVE  CountView(v, n + 1)
BY DEF CountView

LEMMA JoinedCounts ==
    ASSUME NEW u, NEW v, NEW w, NEW n, CountView(u, n), CountView(v, n),
           IsFiniteSet(u.seen), IsFiniteSet(v.seen), Joined(u, v, w),
           \A p : \/ By(u.seen, p) \subseteq By(v.seen, p)
                  \/ By(v.seen, p) \subseteq By(u.seen, p)
    PROVE  CountView(w, n)
<1>1. w.seen = u.seen \cup v.seen
  BY DEF Joined
<1>2. \A op \in w.seen : op.kind = "count" => op.number \in Nat /\ op.number <= n
  BY <1>1 DEF CountView
<1>3. ASSUME NEW c, NEW id, NEW side \in {"pos", "neg"}
      PROVE  CountSlot(Slot(w.state, c, side, id), Done(w.seen, c, side, id))
  <2> DEFINE D == Done(u.seen, c, side, id)
             E == Done(v.seen, c, side, id)
             F == Done(w.seen, c, side, id)
             i == Slot(u.state, c, side, id)
             j == Slot(v.state, c, side, id)
             k == Slot(w.state, c, side, id)
  <2>1. CountSlot(i, D) /\ CountSlot(j, E)
    BY DEF CountView
  <2>2. i \in Nat /\ j \in Nat
    BY <2>1 DEF CountSlot
  <2>3. k = IF i >= j THEN i ELSE j
    BY <2>2, JoinedSlot
  <2>4. F = D \cup E
    BY <1>1 DEF Done
  <2>5. /\ D \subseteq u.seen /\ E \subseteq v.seen
        /\ \A x \in D : x \in By(u.seen, x.by) /\ \A y \in By(v.seen, x.by) : x = y => y \in E
        /\ \A x \in E : x \in By(v.seen, x.by) /\ \A y \in By(u.seen, x.by) : x = y => y \in D
    BY DEF Done, By
  <2>6. (\A x, y \in F : x.by = y.by) => D \subseteq E \/ E \subseteq D
    <3>1. SUFFICES ASSUME \A x, y \in F : x.by = y.by, NEW x \in D, x \notin E, NEW y \in E
                   PROVE  y \in D
      OBVIOUS
    <3>2. x.by = y.by
      BY <2>4, <3>1
    <3>3. ~ (By(u.seen, x.by) \subseteq By(v.seen, x.by))
      BY <2>5, <3>1
    <3>4. By(v.seen, y.by) \subseteq By(u.seen, y.by)
      BY <3>2, <3>3
    <3> QED BY <2>5, <3>4
  <2> HIDE DEF D, E, F, i, j, k
  <2>7. IsFiniteSet(D) /\ IsFiniteSet(E)
    BY <2>5, FS_Subset
  <2>8. IsFiniteSet(F)
    BY <2>4, <2>7, FS_Union
  <2>9. D \subseteq F /\ E \subseteq F
    BY <2>4
  <2>10. Cardinality(D) <= Cardinality(F) /\ Cardinality(E) <= Cardinality(F)
    BY <2>8, <2>9, FS_Subset
  <2>11. Cardinality(D) \in Nat /\ Cardinality(E) \in Nat /\ Cardinality(F) \in Nat
    BY <2>7, <2>8, FS_CardinalityType
  <2>12. k \in Nat /\ k <= Cardinality(F)
    BY <2>1, <2>3, <2>10, <2>11 DEF CountSlot
  <2>13. ASSUME \A x, y \in F : x.by = y.by
         PROVE  k = Cardinality(F)
    <3>1. i = Cardinality(D) /\ j = Cardinality(E)
      BY <2>1, <2>9, <2>13 DEF CountSlot
    <3>2. F = D \/ F = E
      BY <2>4, <2>6, <2>13
    <3> QED BY <2>3, <2>10, <2>11, <3>1, <3>2
  <2>14. CountSlot(k, F)
    BY <2>12, <2>13 DEF CountSlot
  <2> QED BY <2>14 DEF k, F
<1> QED BY <1>2, <1>3 DEF CountView

LEMMA CountedView ==
    ASSUME NEW v, NEW w, NEW op, NEW V, NEW n \in Nat, CountView(v, n), IsView(v),
           w.seen = v.seen \cup {op}, DidCount(v, w, op, V, n)
    PROVE  CountView(w, n + 1)
<1>1. Shaped(v.state) /\ IsFiniteSet(v.seen)
  BY DEF IsView
<1>2. PICK c, p : \E side \in {"pos", "neg"} :
        /\ op = [kind |-> "count", counter |-> c, side |-> side, id |-> v.state.id,
                 by |-> p, number |-> n + 1]
        /\ w.state.counters = CountedIn(v.state, c, side)
  BY DEF DidCount, CountedIn
<1>3. PICK side \in {"pos", "neg"} :
        /\ op = [kind |-> "count", counter |-> c, side |-> side, id |-> v.state.id,
                 by |-> p, number |-> n + 1]
        /\ w.state.counters = CountedIn(v.state, c, side)
  BY <1>2
<1>4. op.kind = "count" /\ op.counter = c /\ op.side = side /\ op.id = v.state.id
      /\ op.number = n + 1
  BY <1>3
<1>5. \A x \in v.seen : x.kind = "count" => x.number \in Nat /\ x.number <= n
  BY DEF CountView
<1>6. op \notin v.seen
  BY <1>4, <1>5
<1>7. \A x \in w.seen : x.kind = "count" => x.number \in Nat /\ x.number <= n + 1
  BY <1>4, <1>5
<1>8. ASSUME NEW d, NEW id, NEW other \in {"pos", "neg"}
      PROVE  CountSlot(Slot(w.state, d, other, id), Done(w.seen, d, other, id))
  <2> DEFINE D == Done(v.seen, d, other, id)
             i == Slot(v.state, d, other, id)
  <2>1. CountSlot(i, D)
    BY DEF CountView
  <2>2. Slot(w.state, d, other, id)
          = IF d = c /\ other = side /\ id = v.state.id THEN i + 1 ELSE i
    <3>1. side \in {"pos", "neg"} /\ w.state.counters = CountedIn(v.state, c, side)
      BY <1>3
    <3>2. \A s, t : Shaped(s) /\ t.counters = CountedIn(s, c, side)
            => Slot(t, d, other, id) = IF d = c /\ other = side /\ id = s.id
                                       THEN Slot(s, d, other, id) + 1 ELSE Slot(s, d, other, id)
      BY <3>1, CountedSlot
    <3> QED BY <1>1, <3>1, <3>2
  <2>3. Done(w.seen, d, other, id)
          = IF d = c /\ other = side /\ id = v.state.id THEN D \cup {op} ELSE D
    BY <1>4 DEF Done
  <2>4. op \notin D /\ D \subseteq v.seen
    BY <1>6 DEF Done
  <2> HIDE DEF D, i
  <2>5. CASE d = c /\ other = side /\ id = v.state.id
    <3>1. IsFiniteSet(D)
      BY <1>1, <2>4, FS_Subset
    <3>2. Cardinality(D \cup {op}) = Cardinality(D) + 1
      BY <2>4, <3>1, FS_AddElement
    <3>3. Cardinality(D) \in Nat
      BY <3>1, FS_CardinalityType
    <3>4. CountSlot(i + 1, D \cup {op})
      BY <2>1, <3>2, <3>3 DEF CountSlot
    <3> QED BY <2>2, <2>3, <2>5, <3>4
  <2>6. CASE ~ (d = c /\ other = side /\ id = v.state.id)
    BY <2>1, <2>2, <2>3, <2>6
  <2> QED BY <2>5, <2>6
<1> QED BY <1>7, <1>8 DEF CountView

LEMMA CountMade ==
    ASSUME ~ Careless, NEW V, NEW n \in Nat, NEW m, NEW w, NEW W,
           CountInv(V, n), \A v \in V : IsView(v), Made(w, V, n, m), W \subseteq V \cup {w}
    PROVE  CountInv(W, m)
<1>1. PICK v \in V :
        \/ m = n /\ Copied(v, w)
        \/ m = n /\ \E u \in V : Joined(v, u, w)
        \/ m = n + 1 /\ \E op : Did(v, w, op, V, n)
  BY DEF Made
<1>2. CountView(v, n) /\ IsView(v) /\ IsFiniteSet(v.seen)
  BY DEF CountInv, IsView
<1>3. \A u \in V : CountView(u, n) /\ CountView(u, n + 1)
  BY MoreCounts DEF CountInv
<1>4. \A x, y \in V : \A p : By(x.seen, p) \subseteq By(y.seen, p) \/ By(y.seen, p) \subseteq By(x.seen, p)
  BY DEF CountInv
<1>5. ASSUME \A u \in V : \A p : \/ By(u.seen, p) \subseteq By(w.seen, p)
                                 \/ By(w.seen, p) \subseteq By(u.seen, p)
      PROVE  \A x, y \in W : \A p : \/ By(x.seen, p) \subseteq By(y.seen, p)
                                    \/ By(y.seen, p) \subseteq By(x.seen, p)
  BY <1>4, <1>5
<1>6. CASE m = n /\ Copied(v, w)
  <2>1. CountView(w, n)
    BY <1>2, <1>6, SameCounts DEF Copied
  <2>2. \A p : By(w.seen, p) = By(v.seen, p)
    BY <1>6 DEF Copied
  <2>3. \A u \in V : \A p : By(u.seen, p) \subseteq By(w.seen, p) \/ By(w.seen, p) \subseteq By(u.seen, p)
    BY <1>4, <2>2
  <2> QED BY <1>3, <1>5, <1>6, <2>1, <2>3 DEF CountInv
<1>7. ASSUME m = n, NEW u \in V, Joined(v, u, w)
      PROVE  CountInv(W, m)
  <2>1. CountView(w, n)
    <3>1. CountView(u, n) /\ IsFiniteSet(u.seen)
      BY <1>3 DEF IsView
    <3> QED BY <1>2, <1>4, <1>7, <3>1, JoinedCounts
  <2>2. \A p : By(w.seen, p) = By(v.seen, p) \cup By(u.seen, p)
    BY <1>7 DEF Joined, By
  <2>3. \A x \in V : \A p : By(x.seen, p) \subseteq By(w.seen, p) \/ By(w.seen, p) \subseteq By(x.seen, p)
    <3> SUFFICES ASSUME NEW x \in V, NEW p
                 PROVE  By(x.seen, p) \subseteq By(w.seen, p) \/ By(w.seen, p) \subseteq By(x.seen, p)
      OBVIOUS
    <3>1. By(w.seen, p) = By(v.seen, p) \cup By(u.seen, p)
      BY <2>2
    <3>2. /\ By(x.seen, p) \subseteq By(v.seen, p) \/ By(v.seen, p) \subseteq By(x.seen, p)
          /\ By(x.seen, p) \subseteq By(u.seen, p) \/ By(u.seen, p) \subseteq By(x.seen, p)
      BY <1>4
    <3> HIDE DEF By
    <3> QED BY <3>1, <3>2
  <2> QED BY <1>3, <1>5, <1>7, <2>1, <2>3 DEF CountInv
<1>8. ASSUME m = n + 1, NEW op, Did(v, w, op, V, n)
      PROVE  CountInv(W, m)
  <2>1. w.seen = v.seen \cup {op}
    BY <1>8 DEF Did
  <2>2. CASE DidCount(v, w, op, V, n)
    <3>1. CountView(w, n + 1)
      BY <1>2, <2>1, <2>2, CountedView
    <3>2. op.kind = "count" /\ \A u \in V : By(u.seen, op.by) \subseteq v.seen
      BY <2>2 DEF DidCount
    <3>3. ASSUME NEW u \in V, NEW p
          PROVE  By(u.seen, p) \subseteq By(w.seen, p) \/ By(w.seen, p) \subseteq By(u.seen, p)
      <4>1. CASE p = op.by
        BY <2>1, <3>2, <4>1 DEF By
      <4>2. CASE p # op.by
        <5>1. By(w.seen, p) = By(v.seen, p)
          BY <2>1, <4>2 DEF By
        <5> QED BY <1>4, <5>1
      <4> QED BY <4>1, <4>2
    <3> QED BY <1>3, <1>5, <1>8, <3>1, <3>3 DEF CountInv
  <2>3. CASE w.state.counters = v.state.counters /\ op.kind # "count"
    <3>1. {x \in w.seen : x.kind = "count"} = {x \in v.seen : x.kind = "count"}
      BY <2>1, <2>3
    <3>2. CountView(w, n + 1)
      BY <1>3, <2>3, <3>1, SameCounts
    <3>3. \A p : By(w.seen, p) = By(v.seen, p)
      BY <2>1, <2>3 DEF By
    <3>4. \A u \in V : \A p : By(u.seen, p) \subseteq By(w.seen, p) \/ By(w.seen, p) \subseteq By(u.seen, p)
      BY <1>4, <3>3
    <3> QED BY <1>3, <1>5, <1>8, <3>2, <3>4 DEF CountInv
  <2>4. CASE DidSet(v, w, op, V, n)
    BY <2>3, <2>4 DEF DidSet
  <2>5. CASE DidDelete(v, w, op)
    BY <2>3, <2>5 DEF DidDelete
  <2>6. CASE DidTag(v, w, op, n)
    BY <2>3, <2>6 DEF DidTag
  <2>7. CASE DidUntag(v, w, op)
    BY <2>3, <2>7 DEF DidUntag
  <2>8. CASE DidMessage(v, w, op, n)
    BY <2>3, <2>8 DEF DidMessage
  <2> QED BY <1>8, <2>2, <2>4, <2>5, <2>6, <2>7, <2>8 DEF Did
<1> QED BY <1>1, <1>6, <1>7, <1>8

LEMMA AllOfOne ==
    ASSUME NEW D, IsFiniteSet(D), Cardinality({x.by : x \in D}) <= 1
    PROVE  \A x, y \in D : x.by = y.by
<1> SUFFICES ASSUME NEW x \in D, NEW y \in D, x.by # y.by
             PROVE  FALSE
  OBVIOUS
<1> DEFINE B == {z.by : z \in D}
           P == {x.by} \cup {y.by}
<1>1. IsFiniteSet(B)
  <2>1. [z \in D |-> z.by] \in Surjection(D, B)
    BY DEF Surjection
  <2> QED BY <2>1, FS_Surjection
<1>2. P \subseteq B
  OBVIOUS
<1>3. Cardinality(P) = 2
  <2>1. IsFiniteSet({x.by}) /\ Cardinality({x.by}) = 1
    BY FS_Singleton
  <2>2. y.by \notin {x.by}
    OBVIOUS
  <2>3. Cardinality({x.by} \cup {y.by}) = Cardinality({x.by}) + 1
    BY <2>1, <2>2, FS_AddElement
  <2> QED BY <2>1, <2>3
<1> HIDE DEF P
<1>4. Cardinality(P) <= Cardinality(B)
  BY <1>1, <1>2, FS_Subset
<1>5. Cardinality(B) <= 1 /\ Cardinality(B) \in Nat
  BY <1>1, FS_CardinalityType
<1> QED BY <1>3, <1>4, <1>5

(* What every view has of the counters *)
LEMMA CountsHold == ASSUME ~ Careless PROVE Spec => [](BaseInv /\ CountInv(Views, ops))
<1> DEFINE Inv == BaseInv /\ CountInv(Views, ops)
<1>1. Init => Inv
  <2> SUFFICES ASSUME Init PROVE CountInv(Views, ops)
    BY BaseInit
  <2>1. ASSUME NEW v \in Views
        PROVE  v.seen = {} /\ v.state.counters = EmptyDict
    BY InitView
  <2>2. \A p : By({}, p) = {}
    BY DEF By
  <2>3. \A v \in Views : \A c, id : \A side \in {"pos", "neg"} :
          Slot(v.state, c, side, id) = 0 /\ Done(v.seen, c, side, id) = {}
    <3>1. DOMAIN EmptyDict = {}
      BY DEF EmptyDict
    <3> QED BY <2>1, <3>1, NoSlot DEF Done
  <2>4. CountSlot(0, {})
    BY FS_EmptySet DEF CountSlot
  <2>5. \A v \in Views : CountView(v, ops)
    BY <2>1, <2>3, <2>4 DEF CountView
  <2> QED BY <2>1, <2>2, <2>5 DEF CountInv
<1>2. Inv /\ [Next]_vars => Inv'
  <2> SUFFICES ASSUME Inv, [Next]_vars PROVE Inv'
    OBVIOUS
  <2>1. CASE UNCHANGED vars
    <3>1. Views' = Views /\ BaseInv' /\ ops' = ops
      BY <2>1, SameViews DEF vars, BaseInv
    <3>2. CountInv(Views, ops)' <=> CountInv(Views', ops')
      OBVIOUS
    <3> QED BY <3>1, <3>2
  <2>2. CASE Next
    <3>1. BaseInv' /\ \E w : NewView(w)
      BY <2>2, BaseNext
    <3>2. PICK w : Views' \subseteq Views \cup {w} /\ Made(w, Views, ops, ops')
      BY <3>1 DEF NewView
    <3>3. CountInv(Views', ops')
      <4>1. ops \in Nat /\ \A v \in Views : IsView(v)
        BY DEF BaseInv, ShapeInv
      <4> QED BY <3>2, <4>1, CountMade
    <3>4. CountInv(Views, ops)' <=> CountInv(Views', ops')
      OBVIOUS
    <3> QED BY <3>1, <3>3, <3>4
  <2> QED BY <2>1, <2>2
<1> QED BY <1>1, <1>2, PTL DEF Spec

(* crdt_merge.core.PNCounter in agents, of callers that are not careless: a *)
(* slot never counts more than was counted under its id, and all of it as   *)
(* long as one agent alone used the id.                                     *)
THEOREM CountersFollowHistory == ASSUME ~ Careless PROVE Spec => []CountersOfHistory
<1> DEFINE Inv == BaseInv /\ CountInv(Views, ops)
<1>1. Inv => CountersOfHistory
  <2> SUFFICES ASSUME Inv, NEW a \in Agent, NEW c \in Counter, NEW side \in {"pos", "neg"}
               PROVE  LET slots == LookUp(agent[a].counters, c, NewPNCounter)[side]
                          done(id) == {op \in Seen(a, "count") :
                                         op.counter = c /\ op.side = side /\ op.id = id}
                          users(id) == {op.by : op \in done(id)}
                      IN \A id \in DOMAIN slots \cup {op.id : op \in Seen(a, "count")} :
                           /\ LookUp(slots, id, 0) <= Cardinality(done(id))
                           /\ Cardinality(users(id)) <= 1
                                => LookUp(slots, id, 0) = Cardinality(done(id))
    BY DEF CountersOfHistory
  <2> SUFFICES ASSUME NEW id
               PROVE  LET slots == LookUp(agent[a].counters, c, NewPNCounter)[side]
                          done == {op \in Seen(a, "count") :
                                      op.counter = c /\ op.side = side /\ op.id = id}
                          users == {op.by : op \in done}
                      IN /\ LookUp(slots, id, 0) <= Cardinality(done)
                         /\ Cardinality(users) <= 1 => LookUp(slots, id, 0) = Cardinality(done)
    OBVIOUS
  <2>1. CountView(HeldBy(a), ops) /\ IsFiniteSet(seen[a])
    BY HeldView, HeldShape DEF CountInv, BaseInv
  <2> DEFINE done == Done(seen[a], c, side, id)
  <2>2. CountSlot(Slot(agent[a], c, side, id), done)
    BY <2>1, HeldView DEF CountView
  <2>3. {op \in Seen(a, "count") : op.counter = c /\ op.side = side /\ op.id = id} = done
    BY DEF Seen, Done
  <2>4. IsFiniteSet(done)
    <3>1. done \subseteq seen[a]
      BY DEF Done
    <3> QED BY <2>1, <3>1, FS_Subset
  <2>5. Cardinality({op.by : op \in done}) <= 1 => Slot(agent[a], c, side, id) = Cardinality(done)
    BY <2>2, <2>4, AllOfOne DEF CountSlot
  <2> QED BY <2>2, <2>3, <2>5 DEF CountSlot, Slot
<1>2. Spec => []Inv
  BY CountsHold
<1> QED BY <1>1, <1>2, PTL

-----------------------------------------------------------------------------
(* Message logs *)

(* What Folding says of numbers in order, whatever is folded *)
Listed == INSTANCE Folding WITH Op <- MergeSet, Ch <- ReloadSet

Rising(q) == \A i, j \in DOMAIN q : i < j => q[i] < q[j]

Newer(P, m) == {x \in P : x > m}

Caps == {Cap[b] : b \in Agent} \cup {DefaultCap}

(* Fewer than any cap are newer. *)
Newest(P) == {m \in P : \A c \in Caps : Cardinality(Newer(P, m)) < c}

IsLog(q) == q \in Seq(Nat) /\ Rising(q)

LEMMA CapsArePositive == ASSUME NEW c \in Caps PROVE c \in Nat /\ c > 0
BY AgentAssumption DEF Caps

LEMMA LogParts ==
    ASSUME NEW q, IsLog(q)
    PROVE  /\ Len(q) \in Nat /\ DOMAIN q = 1 .. Len(q)
           /\ \A i \in 1 .. Len(q) : q[i] \in Nat /\ q[i] \in ToSet(q)
           /\ \A x \in ToSet(q) : \E i \in 1 .. Len(q) : q[i] = x
           /\ \A i, j \in 1 .. Len(q) : i < j => q[i] < q[j]
<1>1. Len(q) \in Nat /\ DOMAIN q = 1 .. Len(q) /\ \A i \in 1 .. Len(q) : q[i] \in Nat
  BY ElementOfSeq, LenProperties DEF IsLog
<1>2. ToSet(q) = {q[i] : i \in DOMAIN q}
  BY DEF ToSet
<1> QED BY <1>1, <1>2 DEF IsLog, Rising

(* The last c of a log are a log, and an element goes only when c of the    *)
(* log are newer.                                                           *)
LEMMA LastOfLog ==
    ASSUME NEW c \in Nat, c > 0, NEW q, IsLog(q)
    PROVE  IsLog(LastOf(c, q)) /\ ToSet(LastOf(c, q)) \subseteq ToSet(q)
<1> DEFINE N == Len(q)
           f == IF N > c THEN N - c + 1 ELSE 1
           r == LastOf(c, q)
<1>1. /\ N \in Nat /\ q \in Seq(Nat)
      /\ \A i, j \in 1 .. N : i < j => q[i] < q[j]
      /\ \A i \in 1 .. N : q[i] \in ToSet(q)
  BY LogParts DEF IsLog
<1>2. f \in 1 .. N + 1
  BY <1>1
<1>3. r = SubSeq(q, f, N)
  BY DEF LastOf
<1> HIDE DEF f, r, N
<1>4. /\ r \in Seq(Nat)
      /\ Len(r) = IF f <= N THEN N - f + 1 ELSE 0
      /\ \A i \in 1 .. N - f + 1 : r[i] = q[f + i - 1]
  BY <1>1, <1>2, <1>3, SubSeqProperties DEF N
<1>5. DOMAIN r = 1 .. N - f + 1 /\ \A i \in DOMAIN r : f + i - 1 \in 1 .. N /\ r[i] = q[f + i - 1]
  <2>1. DOMAIN r = 1 .. Len(r)
    BY <1>4, LenProperties
  <2>2. Len(r) = N - f + 1
    BY <1>1, <1>2, <1>4
  <2>3. \A i \in 1 .. N - f + 1 : f + i - 1 \in 1 .. N
    BY <1>1, <1>2
  <2> QED BY <1>4, <2>1, <2>2, <2>3
<1>6. ASSUME NEW i \in DOMAIN r, NEW j \in DOMAIN r, i < j PROVE r[i] < r[j]
  <2>1. f + i - 1 < f + j - 1
    BY <1>1, <1>2, <1>5, <1>6
  <2> QED BY <1>1, <1>5, <2>1
<1>7. ToSet(r) = {r[i] : i \in DOMAIN r}
  BY DEF ToSet
<1>8. ToSet(r) \subseteq ToSet(q)
  BY <1>1, <1>5, <1>7
<1> QED BY <1>4, <1>6, <1>8 DEF IsLog, Rising, r

LEMMA LastOfKeeps ==
    ASSUME NEW c \in Nat, c > 0, NEW q, IsLog(q), NEW P, IsFiniteSet(P), ToSet(q) \subseteq P,
           NEW m \in ToSet(q), Cardinality(Newer(P, m)) < c
    PROVE  m \in ToSet(LastOf(c, q))
<1> DEFINE N == Len(q)
           f == IF N > c THEN N - c + 1 ELSE 1
           r == LastOf(c, q)
<1>1. /\ N \in Nat /\ q \in Seq(Nat)
      /\ \A i, j \in 1 .. N : i < j => q[i] < q[j]
      /\ \A i \in 1 .. N : q[i] \in ToSet(q) /\ q[i] \in Nat
  BY LogParts DEF IsLog
<1>2. f \in 1 .. N + 1
  BY <1>1
<1>3. r = SubSeq(q, f, N)
  BY DEF LastOf
<1>4. PICK k \in 1 .. N : q[k] = m
  BY LogParts
<1>5. CASE k >= f
  <2> HIDE DEF f, r, N
  <2>1. /\ r \in Seq(Nat)
        /\ Len(r) = IF f <= N THEN N - f + 1 ELSE 0
        /\ \A i \in 1 .. N - f + 1 : r[i] = q[f + i - 1]
    BY <1>1, <1>2, <1>3, SubSeqProperties DEF N
  <2>2. k - f + 1 \in 1 .. N - f + 1 /\ f + (k - f + 1) - 1 = k /\ f <= N
    BY <1>1, <1>2, <1>4, <1>5
  <2>3. k - f + 1 \in DOMAIN r
    BY <2>1, <2>2, LenProperties
  <2>4. r[k - f + 1] = m
    BY <1>4, <2>1, <2>2
  <2> QED BY <2>3, <2>4 DEF ToSet, r
<1>6. CASE k < f
  <2>1. N > c /\ f = N - c + 1 /\ k + c <= N
    BY <1>1, <1>4, <1>6
  <2> DEFINE g == [i \in 1 .. c |-> q[k + i]]
  <2> HIDE DEF f, r, N
  <2>2. ASSUME NEW i \in 1 .. c PROVE k + i \in 1 .. N /\ k < k + i
    BY <1>1, <1>4, <2>1
  <2>3. ASSUME NEW i \in 1 .. c PROVE g[i] \in Newer(P, m)
    <3>1. q[k] < q[k + i] /\ q[k + i] \in P
      BY <1>1, <1>4, <2>2
    <3>2. q[k + i] > m
      BY <1>1, <1>4, <2>2, <3>1
    <3> QED BY <3>1, <3>2 DEF Newer
  <2>4. ASSUME NEW i \in 1 .. c, NEW j \in 1 .. c, i < j PROVE g[i] # g[j]
    <3>1. k + i < k + j
      BY <1>4, <1>1, <2>4
    <3>2. q[k + i] < q[k + j] /\ q[k + i] \in Nat
      BY <1>1, <2>2, <3>1
    <3> QED BY <3>2
  <2> HIDE DEF g
  <2>5. \A i, j \in 1 .. c : g[i] = g[j] => i = j
    <3>1. \A i, j \in 1 .. c : i < j \/ j < i \/ i = j
      OBVIOUS
    <3> QED BY <2>4, <3>1
  <2>6. g \in Injection(1 .. c, Newer(P, m))
    <3>1. g \in [1 .. c -> Newer(P, m)]
      BY <2>3 DEF g
    <3> QED BY <2>5, <3>1 DEF Injection, IsInjective
  <2>7. IsFiniteSet(1 .. c) /\ Cardinality(1 .. c) = c
    BY FS_Interval
  <2>8. IsFiniteSet(Newer(P, m))
    <3>1. Newer(P, m) \in SUBSET P
      BY DEF Newer
    <3> QED BY <3>1, FS_Subset
  <2>9. c <= Cardinality(Newer(P, m))
    BY <2>6, <2>7, <2>8, FS_Injection
  <2>10. Cardinality(Newer(P, m)) \in Nat
    BY <2>8, FS_CardinalityType
  <2> QED BY <2>9, <2>10
<1> QED BY <1>1, <1>2, <1>4, <1>5, <1>6

LEMMA AppendedLog ==
    ASSUME NEW q, IsLog(q), NEW n \in Nat, \A x \in ToSet(q) : x < n
    PROVE  IsLog(Append(q, n)) /\ ToSet(Append(q, n)) = ToSet(q) \cup {n}
<1> DEFINE N == Len(q)
           r == Append(q, n)
<1>1. /\ N \in Nat /\ q \in Seq(Nat) /\ DOMAIN q = 1 .. N
      /\ \A i, j \in 1 .. N : i < j => q[i] < q[j]
      /\ \A i \in 1 .. N : q[i] < n
  BY LogParts DEF IsLog
<1>2. /\ r \in Seq(Nat) /\ Len(r) = N + 1
      /\ \A i \in 1 .. N : r[i] = q[i]
      /\ r[N + 1] = n
  BY <1>1, AppendProperties
<1> HIDE DEF r, N
<1>3. DOMAIN r = 1 .. N + 1
  BY <1>2, LenProperties
<1>4. \A i \in 1 .. N + 1 : i \in 1 .. N \/ i = N + 1
  BY <1>1
<1>5. \A i, j \in 1 .. N + 1 : i < j => i \in 1 .. N
  BY <1>1
<1>6. Rising(r)
  BY <1>1, <1>2, <1>3, <1>4, <1>5 DEF Rising
<1>7. ToSet(r) = {r[i] : i \in 1 .. N + 1} /\ ToSet(q) = {q[i] : i \in 1 .. N}
  BY <1>1, <1>3 DEF ToSet
<1>8. N + 1 \in 1 .. N + 1 /\ \A i \in 1 .. N : i \in 1 .. N + 1
  BY <1>1
<1>9. ToSet(r) = ToSet(q) \cup {n}
  BY <1>2, <1>4, <1>7, <1>8
<1> QED BY <1>2, <1>6, <1>9 DEF IsLog, r

LEMMA OrderedLog ==
    ASSUME NEW S, IsFiniteSet(S), S \subseteq Nat
    PROVE  IsLog(InOrder(S)) /\ ToSet(InOrder(S)) = S
<1> DEFINE N == Cardinality(S)
           q == InOrder(S)
<1>1. \A T : Listed!Cardinality(T) = Cardinality(T)
  BY DEF Listed!Cardinality, Cardinality
<1>2. Listed!IsFiniteSet(S) /\ S \subseteq Int
  BY DEF Listed!IsFiniteSet, IsFiniteSet
<1>3. Listed!IsSorted(Listed!InOrder(S), S)
  BY <1>2, Listed!InOrderIsSorted
<1>4. Listed!InOrder(S) = q
  BY DEF InOrder, Listed!InOrder, Listed!Cardinality, Cardinality
<1>5. /\ q \in [1 .. N -> S]
      /\ \A i, j \in 1 .. N : i < j => q[i] < q[j]
      /\ \A x \in S : \E n \in 1 .. N : q[n] = x
  BY <1>1, <1>3, <1>4 DEF Listed!IsSorted
<1>6. N \in Nat
  BY FS_CardinalityType
<1> HIDE DEF q, N
<1>7. q \in Seq(Nat)
  <2>1. q \in [1 .. N -> Nat]
    BY <1>5
  <2> QED BY <1>6, <2>1, SeqDef
<1>8. ToSet(q) = S
  BY <1>5 DEF ToSet
<1> QED BY <1>5, <1>7, <1>8 DEF IsLog, Rising, q

Messages(H) == {op.number : op \in {x \in H : x.kind = "message"}}

(* What a log holds: some messages of its past, and all the newest of them. *)
LogView(v, n) ==
    LET P == Messages(v.seen)
    IN /\ v.state.cap \in Caps /\ IsLog(v.state.log)
       /\ P \subseteq 1 .. n
       /\ ToSet(v.state.log) \subseteq P
       /\ Newest(P) \subseteq ToSet(v.state.log)

LEMMA FewerAreNewer ==
    ASSUME NEW P, NEW Q, IsFiniteSet(Q), P \subseteq Q, Q \subseteq Nat
    PROVE  Newest(Q) \cap P \subseteq Newest(P)
<1> SUFFICES ASSUME NEW m \in Newest(Q), m \in P, NEW c \in Caps
             PROVE  Cardinality(Newer(P, m)) < c
  BY DEF Newest
<1>1. Newer(P, m) \in SUBSET Newer(Q, m) /\ Newer(Q, m) \in SUBSET Q
  BY DEF Newer
<1>2. IsFiniteSet(Newer(Q, m))
  BY <1>1, FS_Subset
<1>3. IsFiniteSet(Newer(P, m)) /\ Cardinality(Newer(P, m)) <= Cardinality(Newer(Q, m))
  BY <1>1, <1>2, FS_Subset
<1>4. Cardinality(Newer(P, m)) \in Nat /\ Cardinality(Newer(Q, m)) \in Nat
  BY <1>2, <1>3, FS_CardinalityType
<1>5. Cardinality(Newer(Q, m)) < c /\ c \in Nat
  BY CapsArePositive DEF Newest
<1> QED BY <1>3, <1>4, <1>5

(* A log of some of the past that has the newest still has them when it is  *)
(* cut to a cap.                                                            *)
LEMMA CutKeeps ==
    ASSUME NEW P, IsFiniteSet(P), NEW q, IsLog(q), ToSet(q) \subseteq P,
           Newest(P) \subseteq ToSet(q), NEW c \in Caps
    PROVE  /\ IsLog(LastOf(c, q)) /\ ToSet(LastOf(c, q)) \subseteq P
           /\ Newest(P) \subseteq ToSet(LastOf(c, q))
<1>1. c \in Nat /\ c > 0
  BY CapsArePositive
<1>2. IsLog(LastOf(c, q)) /\ ToSet(LastOf(c, q)) \subseteq ToSet(q)
  BY <1>1, LastOfLog
<1>3. ASSUME NEW m \in Newest(P)
      PROVE  m \in ToSet(LastOf(c, q))
  <2>1. m \in ToSet(q) /\ Cardinality(Newer(P, m)) < c
    BY DEF Newest
  <2> QED BY <1>1, <2>1, LastOfKeeps
<1> QED BY <1>2, <1>3

LEMMA FiniteMessages ==
    ASSUME NEW n \in Nat, NEW P, P \subseteq 1 .. n
    PROVE  IsFiniteSet(P) /\ P \subseteq Nat
<1>1. IsFiniteSet(1 .. n) /\ P \in SUBSET (1 .. n)
  BY FS_Interval
<1>2. 1 .. n \subseteq Nat
  OBVIOUS
<1> QED BY <1>1, <1>2, FS_Subset

LEMMA CopiedLog ==
    ASSUME NEW n \in Nat, NEW v, LogView(v, n), NEW w, Messages(w.seen) = Messages(v.seen),
           SameLog(v, w) \/ CutLog(v, w)
    PROVE  LogView(w, n)
<1> DEFINE P == Messages(v.seen)
           q == v.state.log
<1>1. /\ v.state.cap \in Caps /\ IsLog(q) /\ P \subseteq 1 .. n
      /\ ToSet(q) \subseteq P /\ Newest(P) \subseteq ToSet(q)
  BY DEF LogView
<1>2. CASE SameLog(v, w)
  BY <1>1, <1>2 DEF SameLog, LogView
<1>3. CASE CutLog(v, w)
  <2>1. IsFiniteSet(P) /\ DefaultCap \in Caps
    BY <1>1, FiniteMessages DEF Caps
  <2> HIDE DEF P, q
  <2>2. /\ IsLog(LastOf(DefaultCap, q)) /\ ToSet(LastOf(DefaultCap, q)) \subseteq P
        /\ Newest(P) \subseteq ToSet(LastOf(DefaultCap, q))
    BY <1>1, <2>1, CutKeeps
  <2> QED BY <1>1, <1>3, <2>1, <2>2 DEF CutLog, LogView, P, q
<1> QED BY <1>2, <1>3

LEMMA MergedLog ==
    ASSUME NEW n \in Nat, NEW u, LogView(u, n), NEW v, LogView(v, n), NEW w,
           JoinedLog(u, v, w), Messages(w.seen) = Messages(u.seen) \cup Messages(v.seen)
    PROVE  LogView(w, n)
<1> DEFINE P == Messages(u.seen)
           Q == Messages(v.seen)
           p == u.state.log
           q == v.state.log
           cap == w.state.cap
           S == ToSet(p) \cup ToSet(q)
<1>1. /\ u.state.cap \in Caps /\ P \subseteq 1 .. n
      /\ ToSet(p) \subseteq P /\ Newest(P) \subseteq ToSet(p)
      /\ v.state.cap \in Caps /\ Q \subseteq 1 .. n
      /\ ToSet(q) \subseteq Q /\ Newest(Q) \subseteq ToSet(q)
  BY DEF LogView
<1>2. cap \in Caps /\ w.state.log = LastOf(cap, InOrder(S))
  BY <1>1 DEF JoinedLog, MergeLogs
<1>3. Messages(w.seen) = P \cup Q
  OBVIOUS
<1> HIDE DEF P, Q, p, q, cap
<1>4. IsFiniteSet(P \cup Q) /\ P \cup Q \subseteq Nat /\ P \cup Q \subseteq 1 .. n
  BY <1>1, FiniteMessages
<1>5. S \in SUBSET (P \cup Q)
  BY <1>1
<1>6. IsFiniteSet(S) /\ S \subseteq Nat
  BY <1>4, <1>5, FS_Subset
<1>7. Newest(P \cup Q) \cap P \subseteq Newest(P) /\ Newest(P \cup Q) \cap Q \subseteq Newest(Q)
  BY <1>4, FewerAreNewer
<1>8. Newest(P \cup Q) \subseteq P \cup Q
  BY DEF Newest
<1>9. Newest(P \cup Q) \subseteq S
  BY <1>1, <1>7, <1>8
<1> HIDE DEF S
<1>10. IsLog(InOrder(S)) /\ ToSet(InOrder(S)) = S
  BY <1>6, OrderedLog
<1>11. /\ IsLog(w.state.log) /\ ToSet(w.state.log) \subseteq P \cup Q
       /\ Newest(P \cup Q) \subseteq ToSet(w.state.log)
  BY <1>2, <1>4, <1>5, <1>9, <1>10, CutKeeps
<1> QED BY <1>2, <1>3, <1>4, <1>11 DEF LogView, cap

LEMMA WrittenLog ==
    ASSUME NEW n \in Nat, NEW v, LogView(v, n), NEW w, NEW op, DidMessage(v, w, op, n),
           Messages(w.seen) = Messages(v.seen) \cup {n + 1}
    PROVE  LogView(w, n + 1)
<1> DEFINE P == Messages(v.seen)
           Q == P \cup {n + 1}
           q == v.state.log
           cap == v.state.cap
           r == Append(q, n + 1)
<1>1. /\ cap \in Caps /\ IsLog(q) /\ P \subseteq 1 .. n
      /\ ToSet(q) \subseteq P /\ Newest(P) \subseteq ToSet(q)
  BY DEF LogView
<1>2. w.state.cap = cap /\ w.state.log = LastOf(cap, r) /\ Messages(w.seen) = Q
  BY DEF DidMessage
<1> HIDE DEF P, q, cap
<1>3. Q \subseteq 1 .. n + 1 /\ \A x \in ToSet(q) : x < n + 1
  <2>1. \A x \in 1 .. n : x \in 1 .. n + 1 /\ x < n + 1
    OBVIOUS
  <2>2. n + 1 \in 1 .. n + 1
    OBVIOUS
  <2> QED BY <1>1, <2>1, <2>2
<1>4. IsFiniteSet(Q) /\ Q \subseteq Nat
  BY <1>3, FiniteMessages
<1>5. IsLog(r) /\ ToSet(r) = ToSet(q) \cup {n + 1}
  BY <1>1, <1>3, AppendedLog
<1>6. Newest(Q) \cap P \subseteq Newest(P)
  BY <1>4, FewerAreNewer
<1>7. Newest(Q) \subseteq Q
  BY DEF Newest
<1>8. Newest(Q) \subseteq ToSet(r) /\ ToSet(r) \subseteq Q
  BY <1>1, <1>5, <1>6, <1>7
<1> HIDE DEF Q, r
<1>9. /\ IsLog(LastOf(cap, r)) /\ ToSet(LastOf(cap, r)) \subseteq Q
      /\ Newest(Q) \subseteq ToSet(LastOf(cap, r))
  BY <1>1, <1>4, <1>5, <1>8, CutKeeps
<1> QED BY <1>1, <1>2, <1>3, <1>9 DEF LogView


LEMMA LaterLog ==
    ASSUME NEW n \in Nat, NEW v, LogView(v, n)
    PROVE  LogView(v, n + 1)
<1>1. 1 .. n \subseteq 1 .. n + 1
  OBVIOUS
<1> QED BY <1>1 DEF LogView

LEMMA LogMade ==
    ASSUME NEW n \in Nat, NEW V, \A v \in V : LogView(v, n),
           NEW w, NEW m, Made(w, V, n, m), NEW W, W \subseteq V \cup {w}
    PROVE  \A v \in W : LogView(v, m)
<1>1. PICK v \in V :
        \/ m = n /\ Copied(v, w)
        \/ m = n /\ \E u \in V : Joined(v, u, w)
        \/ m = n + 1 /\ \E op : Did(v, w, op, V, n)
  BY DEF Made
<1>2. LogView(v, n)
  OBVIOUS
<1>3. CASE m = n /\ Copied(v, w)
  <2>1. LogView(w, n)
    BY <1>2, <1>3, CopiedLog DEF Copied
  <2> QED BY <1>3, <2>1
<1>4. ASSUME m = n, NEW u \in V, Joined(v, u, w)
      PROVE  \A x \in W : LogView(x, m)
  <2>1. Messages(w.seen) = Messages(v.seen) \cup Messages(u.seen)
    BY <1>4 DEF Joined, Messages
  <2>2. LogView(w, n)
    BY <1>2, <1>4, <2>1, MergedLog DEF Joined
  <2> QED BY <1>4, <2>2
<1>5. ASSUME m = n + 1, NEW op, Did(v, w, op, V, n)
      PROVE  \A x \in W : LogView(x, m)
  <2>1. w.seen = v.seen \cup {op}
    BY <1>5 DEF Did
  <2>2. LogView(w, n + 1)
    <3>1. CASE DidMessage(v, w, op, n)
      <4>1. op.kind = "message" /\ op.number = n + 1
        BY <3>1 DEF DidMessage
      <4>2. Messages(w.seen) = Messages(v.seen) \cup {n + 1}
        BY <2>1, <4>1 DEF Messages
      <4> QED BY <1>2, <3>1, <4>2, WrittenLog
    <3>2. CASE SameLog(v, w) /\ op.kind # "message"
      <4>1. Messages(w.seen) = Messages(v.seen)
        BY <2>1, <3>2 DEF Messages
      <4>2. LogView(w, n)
        BY <1>2, <3>2, <4>1, CopiedLog
      <4> QED BY <4>2, LaterLog
    <3>3. DidMessage(v, w, op, n) \/ (SameLog(v, w) /\ op.kind # "message")
      <4>1. DidSet(v, w, op, V, n) => op.kind = "set"
        BY DEF DidSet
      <4>2. DidDelete(v, w, op) => op.kind = "delete"
        BY DEF DidDelete
      <4>3. DidTag(v, w, op, n) => op.kind = "tag"
        BY DEF DidTag
      <4>4. DidUntag(v, w, op) => op.kind = "untag"
        BY DEF DidUntag
      <4>5. DidCount(v, w, op, V, n) => op.kind = "count"
        BY DEF DidCount
      <4> QED BY <1>5, <4>1, <4>2, <4>3, <4>4, <4>5 DEF Did
    <3> QED BY <3>1, <3>2, <3>3
  <2>3. \A x \in V : LogView(x, n + 1)
    BY LaterLog
  <2> QED BY <1>5, <2>2, <2>3
<1> QED BY <1>1, <1>3, <1>4, <1>5

(* crdt_merge.agentic.AgentState.message_log, a deque of max_messages, with *)
(* merge() and from_dict(): whatever caps meet, a log has the newest        *)
(* messages of the causal past, as many as the smallest cap, in the order   *)
(* of time.  Callers may be careless.                                       *)
THEOREM LogFollowsHistory == Spec => []LogKeepsNewest
<1> DEFINE Logs == \A v \in Views : LogView(v, ops)
           Inv == BaseInv /\ Logs
<1>1. Init => Inv
  <2> SUFFICES ASSUME Init, NEW v \in Views PROVE LogView(v, ops)
    BY BaseInit
  <2>1. v.seen = {} /\ v.state.log = <<>> /\ v.state.cap \in Caps
    BY InitView DEF Caps
  <2>2. Messages({}) = {} /\ Newest({}) = {}
    BY DEF Messages, Newest
  <2>3. IsLog(<<>>) /\ ToSet(<<>>) = {}
    BY EmptySeq DEF IsLog, Rising, ToSet
  <2> QED BY <2>1, <2>2, <2>3 DEF LogView
<1>2. Inv /\ [Next]_vars => Inv'
  <2> SUFFICES ASSUME Inv, [Next]_vars PROVE Inv'
    OBVIOUS
  <2>0. Logs' <=> \A v \in Views' : LogView(v, ops')
    OBVIOUS
  <2>1. CASE UNCHANGED vars
    <3>1. Views' = Views /\ BaseInv' /\ ops' = ops
      BY <2>1, SameViews DEF vars, BaseInv
    <3> QED BY <2>0, <3>1
  <2>2. CASE Next
    <3>1. BaseInv' /\ \E w : NewView(w)
      BY <2>2, BaseNext
    <3>2. PICK w : Views' \subseteq Views \cup {w} /\ Made(w, Views, ops, ops')
      BY <3>1 DEF NewView
    <3>3. ops \in Nat
      BY DEF BaseInv, ShapeInv
    <3>4. \A v \in Views' : LogView(v, ops')
      BY <3>2, <3>3, LogMade
    <3> QED BY <2>0, <3>1, <3>4
  <2> QED BY <2>1, <2>2
<1>3. Inv => LogKeepsNewest
  <2> SUFFICES ASSUME Inv, NEW a \in Agent
               PROVE  /\ Newest(Messages(seen[a])) \subseteq ToSet(agent[a].log)
                      /\ Rising(agent[a].log)
    BY DEF LogKeepsNewest, Newest, Newer, Caps, Rising, Messages, Seen
  <2>1. LogView(HeldBy(a), ops)
    BY HeldView
  <2> QED BY <2>1, HeldView DEF LogView, IsLog
<1> QED BY <1>1, <1>2, <1>3, PTL DEF Spec

-----------------------------------------------------------------------------
(* The order of merges *)

(* Registers of writes in O *)
RegsOf(f, O) ==
    \A k \in DOMAIN f.regs : \E x \in O : IsWrite(x) /\ f.regs[k] = RegOf(x)

LEMMA RegistersCommute ==
    ASSUME NEW O, WritesDiffer(O), NEW x \in O, NEW y \in O, IsWrite(x), IsWrite(y)
    PROVE  MergeRegister(RegOf(x), RegOf(y)) = MergeRegister(RegOf(y), RegOf(x))
<1>1. WritesDiffer({x, y})
  BY DEF WritesDiffer
<1>2. x = y \/ Later(x, y) \/ Later(y, x)
  BY <1>1, LaterIsTotal
<1>3. ~ (Later(x, y) /\ Later(y, x))
  BY LaterNotEarlier
<1> QED BY <1>2, <1>3, RegistersMerge

LEMMA RegistersAssociate ==
    ASSUME NEW O, WritesDiffer(O), NEW x \in O, NEW y \in O, NEW z \in O,
           IsWrite(x), IsWrite(y), IsWrite(z)
    PROVE  MergeRegister(MergeRegister(RegOf(x), RegOf(y)), RegOf(z))
             = MergeRegister(RegOf(x), MergeRegister(RegOf(y), RegOf(z)))
<1>1. WritesDiffer({x, y}) /\ WritesDiffer({y, z}) /\ WritesDiffer({x, z})
  BY DEF WritesDiffer
<1>2. /\ x = y \/ Later(x, y) \/ Later(y, x)
      /\ y = z \/ Later(y, z) \/ Later(z, y)
      /\ x = z \/ Later(x, z) \/ Later(z, x)
  BY <1>1, LaterIsTotal
<1>3. /\ ~ (Later(x, y) /\ Later(y, x))
      /\ ~ (Later(y, z) /\ Later(z, y))
      /\ ~ (Later(x, z) /\ Later(z, x))
  BY LaterNotEarlier
<1>4. /\ Later(x, y) /\ Later(y, z) => Later(x, z)
      /\ Later(z, y) /\ Later(y, x) => Later(z, x)
  BY LaterIsTransitive
<1> DEFINE p == IF Later(y, x) THEN y ELSE x
           q == IF Later(z, y) THEN z ELSE y
<1>5. MergeRegister(RegOf(x), RegOf(y)) = RegOf(p)
      /\ MergeRegister(RegOf(y), RegOf(z)) = RegOf(q)
  BY RegistersMerge
<1>6. /\ MergeRegister(RegOf(p), RegOf(z)) = IF Later(z, p) THEN RegOf(z) ELSE RegOf(p)
      /\ MergeRegister(RegOf(x), RegOf(q)) = IF Later(q, x) THEN RegOf(q) ELSE RegOf(x)
  BY RegistersMerge
<1>7. (IF Later(z, p) THEN z ELSE p) = (IF Later(q, x) THEN q ELSE x)
  BY <1>2, <1>3, <1>4
<1> HIDE DEF p, q
<1>8. RegOf(IF Later(z, p) THEN z ELSE p) = RegOf(IF Later(q, x) THEN q ELSE x)
  BY <1>7
<1> QED BY <1>5, <1>6, <1>8

LEMMA MapRegs ==
    ASSUME NEW f, NEW g
    PROVE  /\ DOMAIN MergeMap(f, g).regs = DOMAIN f.regs \cup DOMAIN g.regs
           /\ \A k \in DOMAIN f.regs \cap DOMAIN g.regs :
                MergeMap(f, g).regs[k] = MergeRegister(f.regs[k], g.regs[k])
           /\ \A k \in DOMAIN f.regs \ DOMAIN g.regs : MergeMap(f, g).regs[k] = f.regs[k]
           /\ \A k \in DOMAIN g.regs \ DOMAIN f.regs : MergeMap(f, g).regs[k] = g.regs[k]
<1> DEFINE m == MergeMap(f, g).regs
<1>1. m = [k \in DOMAIN f.regs \cup DOMAIN g.regs |->
                MergeRegister(LookUp(f.regs, k, LookUp(g.regs, k, 0)),
                              LookUp(g.regs, k, LookUp(f.regs, k, 0)))]
  BY DEF MergeMap
<1> HIDE DEF m
<1>2. DOMAIN m = DOMAIN f.regs \cup DOMAIN g.regs
  BY <1>1
<1>3. \A k \in DOMAIN m : m[k] = MergeRegister(LookUp(f.regs, k, LookUp(g.regs, k, 0)),
                                               LookUp(g.regs, k, LookUp(f.regs, k, 0)))
  BY <1>1
<1>4. \A x : MergeRegister(x, x) = x
  BY DEF MergeRegister
<1>5. \A k \in DOMAIN f.regs \cap DOMAIN g.regs : m[k] = MergeRegister(f.regs[k], g.regs[k])
  BY <1>2, <1>3 DEF LookUp
<1>6. \A k \in DOMAIN f.regs \ DOMAIN g.regs : m[k] = f.regs[k]
  BY <1>2, <1>3, <1>4 DEF LookUp
<1>7. \A k \in DOMAIN g.regs \ DOMAIN f.regs : m[k] = g.regs[k]
  BY <1>2, <1>3, <1>4 DEF LookUp
<1> QED BY <1>2, <1>5, <1>6, <1>7 DEF m

IsDict(f) == f = [k \in DOMAIN f |-> f[k]]

LEMMA EqualDicts ==
    ASSUME NEW f, NEW g, IsDict(f), IsDict(g), DOMAIN f = DOMAIN g,
           \A k \in DOMAIN f : f[k] = g[k]
    PROVE  f = g
<1>1. [k \in DOMAIN f |-> f[k]] = [k \in DOMAIN g |-> g[k]]
  OBVIOUS
<1> QED BY <1>1 DEF IsDict

LEMMA MapDict ==
    ASSUME NEW f, NEW g
    PROVE  IsDict(MergeMap(f, g).regs)
BY DEF MergeMap, IsDict

LEMMA MapsCommute ==
    ASSUME NEW O, WritesDiffer(O), NEW f, NEW g, RegsOf(f, O), RegsOf(g, O)
    PROVE  MergeMap(f, g).regs = MergeMap(g, f).regs
<1> DEFINE m == MergeMap(f, g).regs
           n == MergeMap(g, f).regs
<1>1. DOMAIN m = DOMAIN n
  <2>1. DOMAIN m = DOMAIN f.regs \cup DOMAIN g.regs
    BY MapRegs
  <2>2. DOMAIN n = DOMAIN g.regs \cup DOMAIN f.regs
    BY MapRegs
  <2> QED BY <2>1, <2>2
<1>2. ASSUME NEW k \in DOMAIN m
      PROVE  m[k] = n[k]
  <2>1. k \in DOMAIN f.regs \cup DOMAIN g.regs
    BY MapRegs
  <2>2. CASE k \in DOMAIN f.regs \cap DOMAIN g.regs
    <3>1. PICK x \in O : IsWrite(x) /\ f.regs[k] = RegOf(x)
      BY <2>2 DEF RegsOf
    <3>2. PICK y \in O : IsWrite(y) /\ g.regs[k] = RegOf(y)
      BY <2>2 DEF RegsOf
    <3>3. MergeRegister(f.regs[k], g.regs[k]) = MergeRegister(g.regs[k], f.regs[k])
      BY <3>1, <3>2, RegistersCommute
    <3>4. m[k] = MergeRegister(f.regs[k], g.regs[k]) /\ n[k] = MergeRegister(g.regs[k], f.regs[k])
      BY <2>2, MapRegs
    <3> QED BY <3>3, <3>4
  <2>3. CASE k \in DOMAIN f.regs \ DOMAIN g.regs
    BY <2>3, MapRegs
  <2>4. CASE k \in DOMAIN g.regs \ DOMAIN f.regs
    BY <2>4, MapRegs
  <2> QED BY <2>1, <2>2, <2>3, <2>4
<1>3. IsDict(m) /\ IsDict(n)
  BY MapDict
<1> HIDE DEF m, n
<1>4. m = n
  BY <1>1, <1>2, <1>3, EqualDicts
<1> QED BY <1>4 DEF m, n

LEMMA MapsAssociate ==
    ASSUME NEW O, WritesDiffer(O), NEW f, NEW g, NEW h,
           RegsOf(f, O), RegsOf(g, O), RegsOf(h, O)
    PROVE  MergeMap(MergeMap(f, g), h).regs = MergeMap(f, MergeMap(g, h)).regs
<1> DEFINE fg == MergeMap(f, g)
           gh == MergeMap(g, h)
           m == MergeMap(fg, h).regs
           n == MergeMap(f, gh).regs
           D == DOMAIN f.regs
           E == DOMAIN g.regs
           F == DOMAIN h.regs
<1>1. /\ DOMAIN fg.regs = D \cup E
      /\ \A k \in D \cap E : fg.regs[k] = MergeRegister(f.regs[k], g.regs[k])
      /\ \A k \in D \ E : fg.regs[k] = f.regs[k]
      /\ \A k \in E \ D : fg.regs[k] = g.regs[k]
  BY MapRegs
<1>2. /\ DOMAIN gh.regs = E \cup F
      /\ \A k \in E \cap F : gh.regs[k] = MergeRegister(g.regs[k], h.regs[k])
      /\ \A k \in E \ F : gh.regs[k] = g.regs[k]
      /\ \A k \in F \ E : gh.regs[k] = h.regs[k]
  BY MapRegs
<1>3. /\ DOMAIN m = DOMAIN fg.regs \cup F
      /\ \A k \in DOMAIN fg.regs \cap F : m[k] = MergeRegister(fg.regs[k], h.regs[k])
      /\ \A k \in DOMAIN fg.regs \ F : m[k] = fg.regs[k]
      /\ \A k \in F \ DOMAIN fg.regs : m[k] = h.regs[k]
  BY MapRegs
<1>4. /\ DOMAIN n = D \cup DOMAIN gh.regs
      /\ \A k \in D \cap DOMAIN gh.regs : n[k] = MergeRegister(f.regs[k], gh.regs[k])
      /\ \A k \in D \ DOMAIN gh.regs : n[k] = f.regs[k]
      /\ \A k \in DOMAIN gh.regs \ D : n[k] = gh.regs[k]
  BY MapRegs
<1>5. IsDict(m) /\ IsDict(n)
  BY MapDict
<1>6. /\ \A k \in D : \E x \in O : IsWrite(x) /\ f.regs[k] = RegOf(x)
      /\ \A k \in E : \E x \in O : IsWrite(x) /\ g.regs[k] = RegOf(x)
      /\ \A k \in F : \E x \in O : IsWrite(x) /\ h.regs[k] = RegOf(x)
  BY DEF RegsOf
<1> HIDE DEF fg, gh, m, n, D, E, F
<1>7. ASSUME NEW k \in DOMAIN m
      PROVE  m[k] = n[k]
  <2>1. k \in D \cup E \cup F
    BY <1>1, <1>3
  <2>2. CASE k \in D /\ k \in E /\ k \in F
    <3>1. PICK x \in O : IsWrite(x) /\ f.regs[k] = RegOf(x)
      BY <1>6, <2>2
    <3>2. PICK y \in O : IsWrite(y) /\ g.regs[k] = RegOf(y)
      BY <1>6, <2>2
    <3>3. PICK z \in O : IsWrite(z) /\ h.regs[k] = RegOf(z)
      BY <1>6, <2>2
    <3>4. m[k] = MergeRegister(MergeRegister(f.regs[k], g.regs[k]), h.regs[k])
      BY <1>1, <1>3, <2>2
    <3>5. n[k] = MergeRegister(f.regs[k], MergeRegister(g.regs[k], h.regs[k]))
      BY <1>2, <1>4, <2>2
    <3> QED BY <3>1, <3>2, <3>3, <3>4, <3>5, RegistersAssociate
  <2>3. CASE k \notin D
    BY <1>1, <1>2, <1>3, <1>4, <2>1, <2>3
  <2>4. CASE k \notin E
    BY <1>1, <1>2, <1>3, <1>4, <2>1, <2>4
  <2>5. CASE k \notin F
    BY <1>1, <1>2, <1>3, <1>4, <2>1, <2>5
  <2> QED BY <2>2, <2>3, <2>4, <2>5
<1>8. DOMAIN m = DOMAIN n
  BY <1>1, <1>2, <1>3, <1>4
<1>9. m = n
  BY <1>5, <1>7, <1>8, EqualDicts
<1> QED BY <1>9 DEF m, n, fg, gh

Counts(a) == \A id \in DOMAIN a : a[id] \in Nat

LEMMA CountsMerge ==
    ASSUME NEW a, NEW b, Counts(a), Counts(b)
    PROVE  /\ IsDict(MergeCounts(a, b)) /\ Counts(MergeCounts(a, b))
           /\ DOMAIN MergeCounts(a, b) = DOMAIN a \cup DOMAIN b
           /\ \A id : LookUp(MergeCounts(a, b), id, 0)
                        = IF LookUp(a, id, 0) >= LookUp(b, id, 0)
                          THEN LookUp(a, id, 0) ELSE LookUp(b, id, 0)
<1>1. \A id : LookUp(a, id, 0) \in Nat /\ LookUp(b, id, 0) \in Nat
  BY DEF Counts, LookUp
<1>2. DOMAIN MergeCounts(a, b) = DOMAIN a \cup DOMAIN b /\ IsDict(MergeCounts(a, b))
  BY DEF MergeCounts, IsDict
<1>3. \A id \in DOMAIN a \cup DOMAIN b :
        MergeCounts(a, b)[id] = IF LookUp(a, id, 0) >= LookUp(b, id, 0)
                                THEN LookUp(a, id, 0) ELSE LookUp(b, id, 0)
  BY DEF MergeCounts
<1>4. Counts(MergeCounts(a, b))
  BY <1>1, <1>2, <1>3 DEF Counts
<1>5. \A id : id \notin DOMAIN a \cup DOMAIN b => LookUp(a, id, 0) = 0 /\ LookUp(b, id, 0) = 0
  BY DEF LookUp
<1>6. \A id : LookUp(MergeCounts(a, b), id, 0)
                = IF LookUp(a, id, 0) >= LookUp(b, id, 0)
                  THEN LookUp(a, id, 0) ELSE LookUp(b, id, 0)
  <2> TAKE id
  <2>1. CASE id \in DOMAIN a \cup DOMAIN b
    BY <1>2, <1>3, <2>1 DEF LookUp
  <2>2. CASE id \notin DOMAIN a \cup DOMAIN b
    <3>1. LookUp(MergeCounts(a, b), id, 0) = 0
      BY <1>2, <2>2 DEF LookUp
    <3> QED BY <1>5, <2>2, <3>1
  <2> QED BY <2>1, <2>2
<1> QED BY <1>2, <1>4, <1>6

LEMMA EqualCounts ==
    ASSUME NEW a, NEW b, IsDict(a), IsDict(b), DOMAIN a = DOMAIN b,
           \A id : LookUp(a, id, 0) = LookUp(b, id, 0)
    PROVE  a = b
<1>1. \A id \in DOMAIN a : a[id] = b[id]
  BY DEF LookUp
<1> QED BY <1>1, EqualDicts

LEMMA CountsCommute ==
    ASSUME NEW a, NEW b, Counts(a), Counts(b)
    PROVE  MergeCounts(a, b) = MergeCounts(b, a)
<1>1. \A id : LookUp(a, id, 0) \in Nat /\ LookUp(b, id, 0) \in Nat
  BY DEF Counts, LookUp
<1>2. \A id : LookUp(MergeCounts(a, b), id, 0) = LookUp(MergeCounts(b, a), id, 0)
  <2> TAKE id
  <2>1. LookUp(MergeCounts(a, b), id, 0)
          = IF LookUp(a, id, 0) >= LookUp(b, id, 0)
            THEN LookUp(a, id, 0) ELSE LookUp(b, id, 0)
    BY CountsMerge
  <2>2. LookUp(MergeCounts(b, a), id, 0)
          = IF LookUp(b, id, 0) >= LookUp(a, id, 0)
            THEN LookUp(b, id, 0) ELSE LookUp(a, id, 0)
    BY CountsMerge
  <2> QED BY <1>1, <2>1, <2>2
<1>3. /\ IsDict(MergeCounts(a, b)) /\ IsDict(MergeCounts(b, a))
      /\ DOMAIN MergeCounts(a, b) = DOMAIN MergeCounts(b, a)
  BY CountsMerge
<1> QED BY <1>2, <1>3, EqualCounts

LEMMA CountsAssociate ==
    ASSUME NEW a, NEW b, NEW c, Counts(a), Counts(b), Counts(c)
    PROVE  MergeCounts(MergeCounts(a, b), c) = MergeCounts(a, MergeCounts(b, c))
<1> DEFINE m == MergeCounts(MergeCounts(a, b), c)
           n == MergeCounts(a, MergeCounts(b, c))
<1>1. \A id : LookUp(a, id, 0) \in Nat /\ LookUp(b, id, 0) \in Nat /\ LookUp(c, id, 0) \in Nat
  BY DEF Counts, LookUp
<1>2. Counts(MergeCounts(a, b)) /\ Counts(MergeCounts(b, c))
  BY CountsMerge
<1>3. \A id : LookUp(m, id, 0) = LookUp(n, id, 0)
  <2> TAKE id
  <2>1. /\ LookUp(MergeCounts(a, b), id, 0)
             = IF LookUp(a, id, 0) >= LookUp(b, id, 0)
               THEN LookUp(a, id, 0) ELSE LookUp(b, id, 0)
        /\ LookUp(MergeCounts(b, c), id, 0)
             = IF LookUp(b, id, 0) >= LookUp(c, id, 0)
               THEN LookUp(b, id, 0) ELSE LookUp(c, id, 0)
    BY CountsMerge
  <2>2. /\ LookUp(m, id, 0)
             = IF LookUp(MergeCounts(a, b), id, 0) >= LookUp(c, id, 0)
               THEN LookUp(MergeCounts(a, b), id, 0) ELSE LookUp(c, id, 0)
        /\ LookUp(n, id, 0)
             = IF LookUp(a, id, 0) >= LookUp(MergeCounts(b, c), id, 0)
               THEN LookUp(a, id, 0) ELSE LookUp(MergeCounts(b, c), id, 0)
    BY <1>2, CountsMerge
  <2> QED BY <1>1, <2>1, <2>2
<1>4. IsDict(m) /\ IsDict(n) /\ DOMAIN m = DOMAIN n
  <2>1. /\ DOMAIN MergeCounts(a, b) = DOMAIN a \cup DOMAIN b
        /\ DOMAIN MergeCounts(b, c) = DOMAIN b \cup DOMAIN c
    BY CountsMerge
  <2>2. IsDict(m) /\ DOMAIN m = DOMAIN MergeCounts(a, b) \cup DOMAIN c
    BY <1>2, CountsMerge
  <2>3. IsDict(n) /\ DOMAIN n = DOMAIN a \cup DOMAIN MergeCounts(b, c)
    BY <1>2, CountsMerge
  <2> QED BY <2>1, <2>2, <2>3
<1> HIDE DEF m, n
<1>5. m = n
  BY <1>3, <1>4, EqualCounts
<1> QED BY <1>5 DEF m, n

Slots(pn) == Counts(pn.pos) /\ Counts(pn.neg)

LEMMA SlotsMerge ==
    ASSUME NEW a, NEW b, Slots(a), Slots(b)
    PROVE  Slots(MergePN(a, b)) /\ MergePN(a, b) = MergePN(b, a)
<1>1. /\ MergePN(a, b).pos = MergeCounts(a.pos, b.pos)
      /\ MergePN(a, b).neg = MergeCounts(a.neg, b.neg)
  BY DEF MergePN
<1>2. Counts(MergeCounts(a.pos, b.pos)) /\ Counts(MergeCounts(a.neg, b.neg))
  BY CountsMerge DEF Slots
<1>3. /\ MergeCounts(a.pos, b.pos) = MergeCounts(b.pos, a.pos)
      /\ MergeCounts(a.neg, b.neg) = MergeCounts(b.neg, a.neg)
  BY CountsCommute DEF Slots
<1>4. MergePN(a, b) = MergePN(b, a)
  BY <1>3 DEF MergePN
<1> QED BY <1>1, <1>2, <1>4 DEF Slots

LEMMA SlotsAssociate ==
    ASSUME NEW a, NEW b, NEW c, Slots(a), Slots(b), Slots(c)
    PROVE  MergePN(MergePN(a, b), c) = MergePN(a, MergePN(b, c))
<1>1. \A x, y : MergePN(x, y).pos = MergeCounts(x.pos, y.pos)
                /\ MergePN(x, y).neg = MergeCounts(x.neg, y.neg)
  BY DEF MergePN
<1>2. /\ MergePN(MergePN(a, b), c) =
           [pos |-> MergeCounts(MergeCounts(a.pos, b.pos), c.pos),
            neg |-> MergeCounts(MergeCounts(a.neg, b.neg), c.neg)]
      /\ MergePN(a, MergePN(b, c)) =
           [pos |-> MergeCounts(a.pos, MergeCounts(b.pos, c.pos)),
            neg |-> MergeCounts(a.neg, MergeCounts(b.neg, c.neg))]
  BY <1>1 DEF MergePN
<1>3. /\ MergeCounts(MergeCounts(a.pos, b.pos), c.pos) = MergeCounts(a.pos, MergeCounts(b.pos, c.pos))
      /\ MergeCounts(MergeCounts(a.neg, b.neg), c.neg) = MergeCounts(a.neg, MergeCounts(b.neg, c.neg))
  BY CountsAssociate DEF Slots
<1> QED BY <1>2, <1>3

LEMMA EmptySlots == Slots(NewPNCounter) /\ MergePN(NewPNCounter, NewPNCounter) = NewPNCounter
<1>1. DOMAIN EmptyDict = {} /\ IsDict(EmptyDict)
  BY DEF EmptyDict, IsDict
<1>2. Counts(EmptyDict)
  BY <1>1 DEF Counts
<1>3. /\ DOMAIN MergeCounts(EmptyDict, EmptyDict) = {}
      /\ IsDict(MergeCounts(EmptyDict, EmptyDict))
  BY <1>1, <1>2, CountsMerge
<1>4. MergeCounts(EmptyDict, EmptyDict) = EmptyDict
  BY <1>1, <1>3, EqualDicts
<1> QED BY <1>2, <1>4 DEF NewPNCounter, Slots, MergePN

AllSlots(s) == \A c : Slots(LookUp(s.counters, c, NewPNCounter))

LEMMA CountersMerge ==
    ASSUME NEW s, NEW t
    PROVE  /\ DOMAIN MergedCounters(s, t) = DOMAIN s.counters \cup DOMAIN t.counters
           /\ IsDict(MergedCounters(s, t))
           /\ \A c : LookUp(MergedCounters(s, t), c, NewPNCounter)
                       = MergePN(LookUp(s.counters, c, NewPNCounter),
                                 LookUp(t.counters, c, NewPNCounter))
<1>1. DOMAIN MergedCounters(s, t) = DOMAIN s.counters \cup DOMAIN t.counters /\ IsDict(MergedCounters(s, t))
  BY DEF MergedCounters, IsDict
<1>2. ASSUME NEW c
      PROVE  LookUp(MergedCounters(s, t), c, NewPNCounter)
               = MergePN(LookUp(s.counters, c, NewPNCounter), LookUp(t.counters, c, NewPNCounter))
  <2>1. CASE c \in DOMAIN s.counters \cup DOMAIN t.counters
    <3>1. MergedCounters(s, t)[c]
            = MergePN(LookUp(s.counters, c, NewPNCounter), LookUp(t.counters, c, NewPNCounter))
      BY <2>1 DEF MergedCounters
    <3>2. LookUp(MergedCounters(s, t), c, NewPNCounter) = MergedCounters(s, t)[c]
      BY <1>1, <2>1 DEF LookUp
    <3> QED BY <3>1, <3>2
  <2>2. CASE c \notin DOMAIN s.counters \cup DOMAIN t.counters
    <3>1. /\ LookUp(MergedCounters(s, t), c, NewPNCounter) = NewPNCounter
          /\ LookUp(s.counters, c, NewPNCounter) = NewPNCounter
          /\ LookUp(t.counters, c, NewPNCounter) = NewPNCounter
      BY <1>1, <2>2 DEF LookUp
    <3> QED BY <3>1, EmptySlots
  <2> QED BY <2>1, <2>2
<1> QED BY <1>1, <1>2

LEMMA EqualCounters ==
    ASSUME NEW a, NEW b, IsDict(a), IsDict(b), DOMAIN a = DOMAIN b,
           \A c : LookUp(a, c, NewPNCounter) = LookUp(b, c, NewPNCounter)
    PROVE  a = b
<1>1. \A c \in DOMAIN a : a[c] = b[c]
  BY DEF LookUp
<1> QED BY <1>1, EqualDicts

LEMMA CountersCommute ==
    ASSUME NEW s, NEW t, AllSlots(s), AllSlots(t)
    PROVE  MergedCounters(s, t) = MergedCounters(t, s)
<1> DEFINE m == MergedCounters(s, t)
           n == MergedCounters(t, s)
<1>2. /\ DOMAIN m = DOMAIN s.counters \cup DOMAIN t.counters
      /\ IsDict(m)
      /\ \A c : LookUp(m, c, NewPNCounter)
                  = MergePN(LookUp(s.counters, c, NewPNCounter), LookUp(t.counters, c, NewPNCounter))
  BY CountersMerge
<1>3. /\ DOMAIN n = DOMAIN t.counters \cup DOMAIN s.counters
      /\ IsDict(n)
      /\ \A c : LookUp(n, c, NewPNCounter)
                  = MergePN(LookUp(t.counters, c, NewPNCounter), LookUp(s.counters, c, NewPNCounter))
  BY CountersMerge
<1> HIDE DEF m, n
<1>4. \A c : LookUp(m, c, NewPNCounter) = LookUp(n, c, NewPNCounter)
  BY <1>2, <1>3, SlotsMerge DEF AllSlots
<1>5. DOMAIN m = DOMAIN n
  BY <1>2, <1>3
<1>6. m = n
  BY <1>2, <1>3, <1>4, <1>5, EqualCounters
<1> QED BY <1>6 DEF m, n

LEMMA CountersAssociate ==
    ASSUME NEW s, NEW t, NEW u, AllSlots(s), AllSlots(t), AllSlots(u),
           NEW st, st.counters = MergedCounters(s, t),
           NEW tu, tu.counters = MergedCounters(t, u)
    PROVE  MergedCounters(st, u) = MergedCounters(s, tu)
<1> DEFINE m == MergedCounters(st, u)
           n == MergedCounters(s, tu)
           Pair(x, c) == LookUp(x, c, NewPNCounter)
           a == s.counters
           b == t.counters
           d == u.counters
<1>2. /\ DOMAIN st.counters = DOMAIN a \cup DOMAIN b
      /\ \A c : Pair(st.counters, c) = MergePN(Pair(a, c), Pair(b, c))
  BY CountersMerge
<1>3. /\ DOMAIN tu.counters = DOMAIN b \cup DOMAIN d
      /\ \A c : Pair(tu.counters, c) = MergePN(Pair(b, c), Pair(d, c))
  BY CountersMerge
<1>4. /\ DOMAIN m = DOMAIN st.counters \cup DOMAIN d /\ IsDict(m)
      /\ \A c : Pair(m, c) = MergePN(Pair(st.counters, c), Pair(d, c))
  BY CountersMerge
<1>5. /\ DOMAIN n = DOMAIN a \cup DOMAIN tu.counters /\ IsDict(n)
      /\ \A c : Pair(n, c) = MergePN(Pair(a, c), Pair(tu.counters, c))
  BY CountersMerge
<1>6. \A c : Slots(Pair(a, c)) /\ Slots(Pair(b, c)) /\ Slots(Pair(d, c))
  BY DEF AllSlots
<1> HIDE DEF m, n, a, b, d
<1>7. DOMAIN m = DOMAIN n
  BY <1>2, <1>3, <1>4, <1>5
<1>8. \A c : Pair(m, c) = Pair(n, c)
  <2> HIDE DEF Pair
  <2> TAKE c
  <2>1. MergePN(MergePN(Pair(a, c), Pair(b, c)), Pair(d, c)) = MergePN(Pair(a, c), MergePN(Pair(b, c), Pair(d, c)))
    BY <1>6, SlotsAssociate
  <2> QED BY <1>2, <1>3, <1>4, <1>5, <2>1
<1>9. m = n
  BY <1>4, <1>5, <1>7, <1>8, EqualCounters
<1> QED BY <1>9 DEF m, n

LEMMA SetElements ==
    ASSUME NEW s, NEW t
    PROVE  /\ MergeSet(s, t).tombs = s.tombs \cup t.tombs
           /\ DOMAIN MergeSet(s, t).elements = DOMAIN s.elements \cup DOMAIN t.elements
           /\ IsDict(MergeSet(s, t).elements)
           /\ \A e : LookUp(MergeSet(s, t).elements, e, {})
                       = (LookUp(s.elements, e, {}) \cup LookUp(t.elements, e, {}))
                           \ (s.tombs \cup t.tombs)
<1>1. /\ MergeSet(s, t).tombs = s.tombs \cup t.tombs
      /\ DOMAIN MergeSet(s, t).elements = DOMAIN s.elements \cup DOMAIN t.elements
      /\ IsDict(MergeSet(s, t).elements)
  BY DEF MergeSet, IsDict
<1>2. \A e : LookUp(MergeSet(s, t).elements, e, {})
               = (LookUp(s.elements, e, {}) \cup LookUp(t.elements, e, {})) \ (s.tombs \cup t.tombs)
  BY DEF MergeSet, LookUp
<1> QED BY <1>1, <1>2

LEMMA EqualSets ==
    ASSUME NEW s, NEW t, NEW p, NEW q, p = MergeSet(s, t),
           NEW u, NEW v, q = MergeSet(u, v),
           s.tombs \cup t.tombs = u.tombs \cup v.tombs,
           DOMAIN s.elements \cup DOMAIN t.elements = DOMAIN u.elements \cup DOMAIN v.elements,
           \A e : (LookUp(s.elements, e, {}) \cup LookUp(t.elements, e, {})) \ (s.tombs \cup t.tombs)
                    = (LookUp(u.elements, e, {}) \cup LookUp(v.elements, e, {})) \ (u.tombs \cup v.tombs)
    PROVE  p = q
<1>1. /\ p = [elements |-> p.elements, tombs |-> p.tombs]
      /\ q = [elements |-> q.elements, tombs |-> q.tombs]
  BY DEF MergeSet
<1>2. p.tombs = q.tombs /\ DOMAIN p.elements = DOMAIN q.elements
      /\ IsDict(p.elements) /\ IsDict(q.elements)
  <2>1. /\ p.tombs = s.tombs \cup t.tombs
        /\ DOMAIN p.elements = DOMAIN s.elements \cup DOMAIN t.elements /\ IsDict(p.elements)
    BY SetElements
  <2>2. /\ q.tombs = u.tombs \cup v.tombs
        /\ DOMAIN q.elements = DOMAIN u.elements \cup DOMAIN v.elements /\ IsDict(q.elements)
    BY SetElements
  <2> QED BY <2>1, <2>2
<1>3. \A e : LookUp(p.elements, e, {}) = LookUp(q.elements, e, {})
  <2>1. \A e : LookUp(p.elements, e, {})
                 = (LookUp(s.elements, e, {}) \cup LookUp(t.elements, e, {})) \ (s.tombs \cup t.tombs)
    BY SetElements
  <2>2. \A e : LookUp(q.elements, e, {})
                 = (LookUp(u.elements, e, {}) \cup LookUp(v.elements, e, {})) \ (u.tombs \cup v.tombs)
    BY SetElements
  <2> QED BY <2>1, <2>2
<1>4. \A e \in DOMAIN p.elements : p.elements[e] = q.elements[e]
  BY <1>2, <1>3 DEF LookUp
<1>5. p.elements = q.elements
  BY <1>2, <1>4, EqualDicts
<1> QED BY <1>1, <1>2, <1>5

LEMMA SetsCommute ==
    ASSUME NEW s, NEW t
    PROVE  MergeSet(s, t) = MergeSet(t, s)
<1>1. \A e : (LookUp(s.elements, e, {}) \cup LookUp(t.elements, e, {})) \ (s.tombs \cup t.tombs)
               = (LookUp(t.elements, e, {}) \cup LookUp(s.elements, e, {})) \ (t.tombs \cup s.tombs)
  OBVIOUS
<1> QED BY <1>1, EqualSets

LEMMA SetsAssociate ==
    ASSUME NEW s, NEW t, NEW u
    PROVE  MergeSet(MergeSet(s, t), u) = MergeSet(s, MergeSet(t, u))
<1> DEFINE st == MergeSet(s, t)
           tu == MergeSet(t, u)
<1>1. /\ st.tombs = s.tombs \cup t.tombs
      /\ DOMAIN st.elements = DOMAIN s.elements \cup DOMAIN t.elements
      /\ \A e : LookUp(st.elements, e, {})
                  = (LookUp(s.elements, e, {}) \cup LookUp(t.elements, e, {})) \ (s.tombs \cup t.tombs)
  BY SetElements
<1>2. /\ tu.tombs = t.tombs \cup u.tombs
      /\ DOMAIN tu.elements = DOMAIN t.elements \cup DOMAIN u.elements
      /\ \A e : LookUp(tu.elements, e, {})
                  = (LookUp(t.elements, e, {}) \cup LookUp(u.elements, e, {})) \ (t.tombs \cup u.tombs)
  BY SetElements
<1> HIDE DEF st, tu
<1>3. st.tombs \cup u.tombs = s.tombs \cup tu.tombs
  BY <1>1, <1>2
<1>4. DOMAIN st.elements \cup DOMAIN u.elements = DOMAIN s.elements \cup DOMAIN tu.elements
  BY <1>1, <1>2
<1>5. \A e : (LookUp(st.elements, e, {}) \cup LookUp(u.elements, e, {})) \ (st.tombs \cup u.tombs)
               = (LookUp(s.elements, e, {}) \cup LookUp(tu.elements, e, {})) \ (s.tombs \cup tu.tombs)
  BY <1>1, <1>2
<1>6. MergeSet(st, u) = MergeSet(s, tu)
  BY <1>3, <1>4, <1>5, EqualSets
<1> QED BY <1>6 DEF st, tu

(* What makes the merges of a view order-free *)
Mergeable(s, O) ==
    RegsOf(s.facts, O) /\ Counts(s.facts.tombs) /\ AllSlots(s)

LEMMA ViewsMergeable ==
    ASSUME NEW V, NEW n, FactInv(V), CountInv(V, n), NEW v \in V
    PROVE  Mergeable(v.state, OpsOf(V))
<1>1. FactView(v) /\ v.seen \subseteq OpsOf(V)
  BY DEF FactInv, OpsOf
<1>2. ASSUME NEW k \in DOMAIN v.state.facts.regs
      PROVE  \E x \in OpsOf(V) : IsWrite(x) /\ v.state.facts.regs[k] = RegOf(x)
  <2>1. FactKey(v.state.facts, v.seen, k) /\ Stamped(v.seen)
    BY <1>1 DEF FactView
  <2>2. PICK x : IsLast(v.seen, k, x) /\ v.state.facts.regs[k] = RegOf(x)
    BY <1>2, <2>1 DEF FactKey
  <2>3. x \in v.seen /\ IsWrite(x)
    BY <2>1, <2>2 DEF IsLast, Writes, Stamped, IsWrite
  <2> QED BY <1>1, <2>2, <2>3
<1>3. ASSUME NEW k \in DOMAIN v.state.facts.tombs
      PROVE  v.state.facts.tombs[k] \in Nat
  <2>1. FactKey(v.state.facts, v.seen, k) /\ Stamped(v.seen)
    BY <1>1 DEF FactView
  <2>2. PICK d \in Deletes(v.seen, k) : v.state.facts.tombs[k] = d.time
    BY <1>3, <2>1 DEF FactKey
  <2> QED BY <2>1, <2>2 DEF Deletes, Stamped
<1>4. ASSUME NEW c
      PROVE  Slots(LookUp(v.state.counters, c, NewPNCounter))
  <2> DEFINE pn == LookUp(v.state.counters, c, NewPNCounter)
  <2>1. CountView(v, n)
    BY DEF CountInv
  <2>2. \A id : Slot(v.state, c, "pos", id) \in Nat /\ Slot(v.state, c, "neg", id) \in Nat
    BY <2>1 DEF CountView, CountSlot
  <2>3. \A id : LookUp(pn.pos, id, 0) \in Nat /\ LookUp(pn.neg, id, 0) \in Nat
    BY <2>2 DEF Slot
  <2> HIDE DEF pn
  <2>4. Slots(pn)
    BY <2>3 DEF Slots, Counts, LookUp
  <2> QED BY <2>4 DEF pn
<1> QED BY <1>2, <1>3, <1>4 DEF Mergeable, RegsOf, Counts, AllSlots

LEMMA KnowledgeOfMerge ==
    ASSUME NEW s, NEW t
    PROVE  /\ MergeAgents(s, t).facts = MergeMap(s.facts, t.facts)
           /\ MergeAgents(s, t).tags = MergeSet(s.tags, t.tags)
           /\ MergeAgents(s, t).counters = MergedCounters(s, t)
BY DEF MergeAgents, MergedCounters

LEMMA MergeMapFields ==
    ASSUME NEW f, NEW g
    PROVE  /\ MergeMap(f, g) = [regs |-> MergeMap(f, g).regs, tombs |-> MergeMap(f, g).tombs]
           /\ MergeMap(f, g).tombs = MergeCounts(f.tombs, g.tombs)
BY DEF MergeMap

LEMMA KnowledgeCommutes ==
    ASSUME NEW O, WritesDiffer(O), NEW s, NEW t, Mergeable(s, O), Mergeable(t, O)
    PROVE  Knowledge(MergeAgents(s, t)) = Knowledge(MergeAgents(t, s))
<1>1. MergeMap(s.facts, t.facts).regs = MergeMap(t.facts, s.facts).regs
  BY MapsCommute DEF Mergeable
<1>2. MergeCounts(s.facts.tombs, t.facts.tombs) = MergeCounts(t.facts.tombs, s.facts.tombs)
  BY CountsCommute DEF Mergeable
<1>3. MergeMap(s.facts, t.facts) = MergeMap(t.facts, s.facts)
  <2>1. /\ MergeMap(s.facts, t.facts)
             = [regs |-> MergeMap(s.facts, t.facts).regs, tombs |-> MergeMap(s.facts, t.facts).tombs]
        /\ MergeMap(s.facts, t.facts).tombs = MergeCounts(s.facts.tombs, t.facts.tombs)
    BY MergeMapFields
  <2>2. /\ MergeMap(t.facts, s.facts)
             = [regs |-> MergeMap(t.facts, s.facts).regs, tombs |-> MergeMap(t.facts, s.facts).tombs]
        /\ MergeMap(t.facts, s.facts).tombs = MergeCounts(t.facts.tombs, s.facts.tombs)
    BY MergeMapFields
  <2> QED BY <1>1, <1>2, <2>1, <2>2
<1>4. MergedCounters(s, t) = MergedCounters(t, s)
  BY CountersCommute DEF Mergeable
<1>5. MergeSet(s.tags, t.tags) = MergeSet(t.tags, s.tags)
  BY SetsCommute
<1> QED BY <1>3, <1>4, <1>5, KnowledgeOfMerge DEF Knowledge

LEMMA KnowledgeAssociates ==
    ASSUME NEW O, WritesDiffer(O), NEW s, NEW t, NEW u,
           Mergeable(s, O), Mergeable(t, O), Mergeable(u, O)
    PROVE  Knowledge(MergeAgents(MergeAgents(s, t), u)) = Knowledge(MergeAgents(s, MergeAgents(t, u)))
<1> DEFINE st == MergeAgents(s, t)
           tu == MergeAgents(t, u)
           f == s.facts
           g == t.facts
           h == u.facts
<1>1. /\ st.facts = MergeMap(f, g) /\ st.tags = MergeSet(s.tags, t.tags)
      /\ st.counters = MergedCounters(s, t)
      /\ tu.facts = MergeMap(g, h) /\ tu.tags = MergeSet(t.tags, u.tags)
      /\ tu.counters = MergedCounters(t, u)
  BY KnowledgeOfMerge
<1>2. /\ Knowledge(MergeAgents(st, u))
           = <<MergeMap(st.facts, h), MergeSet(st.tags, u.tags), MergedCounters(st, u)>>
      /\ Knowledge(MergeAgents(s, tu))
           = <<MergeMap(f, tu.facts), MergeSet(s.tags, tu.tags), MergedCounters(s, tu)>>
  BY KnowledgeOfMerge DEF Knowledge
<1> HIDE DEF st, tu
<1>3. MergedCounters(st, u) = MergedCounters(s, tu)
  BY <1>1, CountersAssociate DEF Mergeable
<1>4. MergeSet(st.tags, u.tags) = MergeSet(s.tags, tu.tags)
  BY <1>1, SetsAssociate
<1>5. MergeMap(st.facts, h) = MergeMap(f, tu.facts)
  <2>1. /\ RegsOf(f, O) /\ RegsOf(g, O) /\ RegsOf(h, O)
        /\ Counts(f.tombs) /\ Counts(g.tombs) /\ Counts(h.tombs)
    BY DEF Mergeable
  <2> HIDE DEF f, g, h
  <2>2. MergeMap(MergeMap(f, g), h).regs = MergeMap(f, MergeMap(g, h)).regs
    BY <2>1, MapsAssociate
  <2>3. MergeCounts(MergeCounts(f.tombs, g.tombs), h.tombs)
          = MergeCounts(f.tombs, MergeCounts(g.tombs, h.tombs))
    BY <2>1, CountsAssociate
  <2>4. \A x, y : MergeMap(x, y) = [regs |-> MergeMap(x, y).regs, tombs |-> MergeMap(x, y).tombs]
                  /\ MergeMap(x, y).tombs = MergeCounts(x.tombs, y.tombs)
    BY MergeMapFields
  <2>5. MergeMap(MergeMap(f, g), h).tombs = MergeMap(f, MergeMap(g, h)).tombs
    BY <2>3, <2>4
  <2>6. MergeMap(MergeMap(f, g), h) = MergeMap(f, MergeMap(g, h))
    <3>1. /\ MergeMap(MergeMap(f, g), h)
               = [regs |-> MergeMap(MergeMap(f, g), h).regs, tombs |-> MergeMap(MergeMap(f, g), h).tombs]
          /\ MergeMap(f, MergeMap(g, h))
               = [regs |-> MergeMap(f, MergeMap(g, h)).regs, tombs |-> MergeMap(f, MergeMap(g, h)).tombs]
      BY <2>4
    <3> QED BY <2>2, <2>5, <3>1
  <2> QED BY <1>1, <2>6
<1>6. Knowledge(MergeAgents(st, u)) = Knowledge(MergeAgents(s, tu))
  BY <1>2, <1>3, <1>4, <1>5
<1> QED BY <1>6 DEF st, tu

(* crdt_merge.agentic.SharedKnowledge.merge, of callers that are not        *)
(* careless: the facts, tags and counters of a merge depend neither on the  *)
(* order of the states merged nor on how they are grouped.                  *)
THEOREM SharedKnowledgeIsOrderFree == ASSUME ~ Careless PROVE Spec => []SharedOrderFree
<1> DEFINE Facts == BaseInv /\ FactInv(Views)
           Counted == BaseInv /\ CountInv(Views, ops)
<1>1. Facts /\ Counted => SharedOrderFree
  <2> SUFFICES ASSUME FactInv(Views), CountInv(Views, ops),
                      NEW a \in Agent, NEW f \in shared, NEW g \in shared
               PROVE  /\ Knowledge(MergeAgents(agent[a], f.state)) = Knowledge(MergeAgents(f.state, agent[a]))
                      /\ Knowledge(MergeAgents(MergeAgents(agent[a], f.state), g.state))
                           = Knowledge(MergeAgents(agent[a], MergeAgents(f.state, g.state)))
    BY DEF SharedOrderFree
  <2>1. f \in Views /\ g \in Views /\ HeldBy(a) \in Views /\ HeldBy(a).state = agent[a]
    BY HeldView DEF Views
  <2>2. \A v \in Views : Mergeable(v.state, OpsOf(Views))
    BY ViewsMergeable
  <2>3. Mergeable(agent[a], OpsOf(Views)) /\ Mergeable(f.state, OpsOf(Views)) /\ Mergeable(g.state, OpsOf(Views))
    BY <2>1, <2>2
  <2>4. WritesDiffer(OpsOf(Views))
    BY DEF FactInv
  <2> QED BY <2>3, <2>4, KnowledgeCommutes, KnowledgeAssociates
<1>2. Spec => []Facts
  BY FactsHold
<1>3. Spec => []Counted
  BY CountsHold
<1> QED BY <1>1, <1>2, <1>3, PTL
=============================================================================
