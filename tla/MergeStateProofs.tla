-------------------------- MODULE MergeStateProofs --------------------------
(***************************************************************************)
(* Proofs about MergeState, for any number of replicas, models, versions,  *)
(* adds and snapshots, and every conflict policy: type correctness,        *)
(* finality of tombstones, coherence of the cache; then nothing is lost    *)
(* without a reason, a removed version stays out, and, under               *)
(* HIGHEST_VERSION, replicas that have heard the same show the same and    *)
(* merges may come in any order and grouping.                              *)
(***************************************************************************)
EXTENDS MergeState, TLAPS

(***************************************************************************)
(* The inductive invariant.  K is what a replica or a snapshot holds, T    *)
(* its tombstones, S the contributions it has seen, k the next tag.        *)
(***************************************************************************)
Sound(K, T, S, k) ==
    /\ K \subseteq S
    /\ \A c \in K : c.tag \notin T
    /\ \A c, d \in K : c.id = d.id => c = d
    /\ S \subseteq Contribution
    /\ \A c \in S : c.tag < k
    /\ T \subseteq Tag
    /\ \A t \in T : t < k

(* Every contribution that was accepted anywhere *)
Everything == UNION {seen[r] : r \in Replica}

UniqueTags(S) == \A c, d \in S : c.tag = d.tag => c = d

SoundInv ==
    /\ TypeOK
    /\ UniqueTags(Everything)
    /\ \A m \in snapshots : m.seen \subseteq Everything
    /\ \A r \in Replica :
         Sound(state[r].contribs, state[r].tombs, seen[r], nextTag)
    /\ \A m \in snapshots :
         Sound(m.body.contribs, m.body.tombs, m.seen, nextTag)

-----------------------------------------------------------------------------
(* What the operators of MergeState preserve *)

LEMMA ContributionFields ==
    ASSUME NEW c \in Contribution
    PROVE  /\ c.version \in Int /\ c.content \in Int /\ c.time \in Int
           /\ c.tag \in Tag
<1>1. /\ c.version \in Version /\ c.content \in Content /\ c.time \in Time
      /\ c.tag \in Tag
  BY DEF Contribution
<1>2. Version \subseteq Int /\ Content \subseteq Int /\ Time \subseteq Int
  BY ConstantsAssumption DEF ConstantsAssumption
<1> QED  BY <1>1, <1>2

(* Removing what T says keeps soundness when T only has tags that exist.    *)
LEMMA AliveSound ==
    ASSUME NEW K, NEW T, NEW S, NEW k, NEW U,
           Sound(K, T, S, k), U \subseteq Tag, \A t \in U : t < k
    PROVE  Sound(Alive(K, U), U, S, k)
BY DEF Sound, Alive

LEMMA UnionSound ==
    ASSUME NEW A, NEW B, NEW T, NEW S, NEW R, NEW k,
           Sound(A, T, S, k), Sound(B, T, R, k)
    PROVE  Sound(UnionOf(A, B), T, S \cup R, k)
BY DEF Sound, UnionOf, Replaces

LEMMA MergedSound ==
    ASSUME NEW s \in State, NEW o \in State, NEW S, NEW R, NEW k,
           Sound(s.contribs, s.tombs, S, k), Sound(o.contribs, o.tombs, R, k)
    PROVE  /\ Merged(s, o) \in State
           /\ Sound(Merged(s, o).contribs, Merged(s, o).tombs, S \cup R, k)
<1> DEFINE U == s.tombs \cup o.tombs
<1>1. U \subseteq Tag /\ \A t \in U : t < k
  BY DEF Sound
<1>2. Sound(Alive(s.contribs, U), U, S, k) /\ Sound(Alive(o.contribs, U), U, R, k)
  BY <1>1, AliveSound
<1>3. Sound(UnionOf(Alive(s.contribs, U), Alive(o.contribs, U)), U, S \cup R, k)
  BY <1>2, UnionSound
<1>4. UnionOf(Alive(s.contribs, U), Alive(o.contribs, U)) \subseteq Contribution
  BY <1>3 DEF Sound
<1>5. Merged(s, o).contribs = UnionOf(Alive(s.contribs, U), Alive(o.contribs, U))
      /\ Merged(s, o).tombs = U
  BY DEF Merged
<1>6. Merged(s, o) \in State
  BY <1>1, <1>4 DEF Merged, State
<1> QED  BY <1>3, <1>5, <1>6

LEMMA MergedManySound ==
    ASSUME NEW s \in State, NEW o \in State, NEW p \in State,
           NEW S, NEW R, NEW Q, NEW k,
           Sound(s.contribs, s.tombs, S, k), Sound(o.contribs, o.tombs, R, k),
           Sound(p.contribs, p.tombs, Q, k)
    PROVE  /\ MergedMany(s, o, p) \in State
           /\ Sound(MergedMany(s, o, p).contribs, MergedMany(s, o, p).tombs,
                    S \cup R \cup Q, k)
<1> DEFINE U == s.tombs \cup o.tombs \cup p.tombs
           A == UnionOf(Alive(s.contribs, U), Alive(o.contribs, U))
           B == UnionOf(A, Alive(p.contribs, U))
<1>1. U \subseteq Tag /\ \A t \in U : t < k
  BY DEF Sound
<1>2. /\ Sound(Alive(s.contribs, U), U, S, k)
      /\ Sound(Alive(o.contribs, U), U, R, k)
      /\ Sound(Alive(p.contribs, U), U, Q, k)
  BY <1>1, AliveSound
<1>3. Sound(A, U, S \cup R, k)
  BY <1>2, UnionSound
<1>4. Sound(B, U, (S \cup R) \cup Q, k)
  <2> HIDE DEF A
  <2> QED  BY <1>2, <1>3, UnionSound
<1>5. B \subseteq Contribution
  BY <1>4 DEF Sound
<1>6. MergedMany(s, o, p).contribs = B /\ MergedMany(s, o, p).tombs = U
  BY DEF MergedMany
<1>7. MergedMany(s, o, p) \in State
  <2>1. MergedMany(s, o, p).base \in Base \cup {NoBase}
    BY DEF MergedMany, State
  <2>2. MergedMany(s, o, p) = [contribs |-> B, tombs |-> U,
                               base |-> MergedMany(s, o, p).base]
    BY DEF MergedMany
  <2> HIDE DEF B
  <2> QED  BY <1>1, <1>5, <2>1, <2>2 DEF State
<1> QED  BY <1>4, <1>6, <1>7

LEMMA SoundLater ==
    ASSUME NEW K, NEW T, NEW S, NEW k \in Nat, NEW l \in Nat, k <= l,
           Sound(K, T, S, k)
    PROVE  Sound(K, T, S, l)
<1>1. \A t \in T : t \in Int
  BY DEF Sound, Tag
<1>2. \A c \in S : c.tag \in Int
  BY ContributionFields DEF Sound, Tag
<1> QED  BY <1>1, <1>2 DEF Sound

(* A fresh contribution joins what the replica holds, or is turned away.    *)
LEMMA AddToSound ==
    ASSUME NEW s \in State, NEW S, NEW k \in Nat, NEW c \in Contribution,
           Sound(s.contribs, s.tombs, S, k), c.tag = k
    PROVE  /\ AddTo(s, c) \in State
           /\ AddTo(s, c).tombs = s.tombs
           /\ Sound(AddTo(s, c).contribs, AddTo(s, c).tombs,
                    S \cup ({c} \cap AddTo(s, c).contribs), k + 1)
           /\ ~Accepts(s, c) => AddTo(s, c) = s
<1>1. c.tag \notin s.tombs
  BY DEF Sound
<1>2. Sound(s.contribs, s.tombs, S, k + 1)
  BY SoundLater
<1>3. CASE Accepts(s, c)
  <2> DEFINE K == {d \in s.contribs : d.id # c.id} \cup {c}
  <2>1. /\ AddTo(s, c).contribs = K
        /\ AddTo(s, c).tombs = s.tombs
        /\ AddTo(s, c) \in State
    BY <1>1, <1>3 DEF AddTo, State
  <2>2. S \cup ({c} \cap K) = S \cup {c}
    OBVIOUS
  <2>3. Sound(K, s.tombs, S \cup {c}, k + 1)
    <3>1. K \subseteq S \cup {c} /\ S \cup {c} \subseteq Contribution
      BY <1>2 DEF Sound
    <3>2. \A d \in K : d.tag \notin s.tombs
      BY <1>1, <1>2 DEF Sound
    <3>3. \A d, e \in K : d.id = e.id => d = e
      BY <1>2 DEF Sound
    <3>4. \A d \in S \cup {c} : d.tag < k + 1
      BY <1>2 DEF Sound
    <3> QED  BY <1>2, <3>1, <3>2, <3>3, <3>4 DEF Sound
  <2> QED  BY <1>3, <2>1, <2>2, <2>3
<1>4. CASE ~Accepts(s, c)
  <2>1. AddTo(s, c) = s
    BY <1>4 DEF AddTo
  <2>2. S \cup ({c} \cap s.contribs) = S
    BY DEF Sound
  <2> QED  BY <1>2, <2>1, <2>2
<1> QED  BY <1>3, <1>4

LEMMA BatchSound ==
    ASSUME NEW s \in State, NEW S, NEW k \in Nat, NEW raises \in BOOLEAN,
           NEW c \in Contribution, NEW d \in Contribution,
           Sound(s.contribs, s.tombs, S, k), c.tag = k, d.tag = k + 1
    PROVE  /\ Batch(s, c, d, raises) \in State
           /\ Batch(s, c, d, raises).tombs = s.tombs
           /\ Sound(Batch(s, c, d, raises).contribs, s.tombs,
                    S \cup Inserted(s, c, d, raises), k + 2)
<1> DEFINE first == AddTo(s, c)
           S1 == S \cup ({c} \cap first.contribs)
           second == AddTo(first, d)
           S2 == S1 \cup ({d} \cap second.contribs)
<1>1. /\ first \in State /\ first.tombs = s.tombs
      /\ Sound(first.contribs, s.tombs, S1, k + 1)
  BY AddToSound
<1>2. /\ second \in State /\ second.tombs = s.tombs
      /\ Sound(second.contribs, s.tombs, S2, (k + 1) + 1)
  <2>1. k + 1 \in Nat
    OBVIOUS
  <2> HIDE DEF first, S1
  <2> QED  BY <1>1, <2>1, AddToSound
<1>3. CASE raises
  <2>1. d \notin first.contribs
    <3> HIDE DEF first
    <3> QED  BY <1>1 DEF Sound
  <2>2. /\ Batch(s, c, d, raises) = first
        /\ S \cup Inserted(s, c, d, raises) = S1
    BY <1>3, <2>1 DEF Batch, Inserted
  <2>3. k + 1 \in Nat /\ k + 2 \in Nat /\ k + 1 <= k + 2
    OBVIOUS
  <2> HIDE DEF first, S1
  <2>4. Sound(first.contribs, s.tombs, S1, k + 2)
    BY <1>1, <2>3, SoundLater
  <2> QED  BY <1>1, <2>2, <2>4
<1>4. CASE ~raises
  <2>1. /\ Batch(s, c, d, raises) = second
        /\ S \cup Inserted(s, c, d, raises) = S2
    BY <1>4 DEF Batch, Inserted
  <2>2. (k + 1) + 1 = k + 2
    OBVIOUS
  <2> HIDE DEF second, S2
  <2> QED  BY <1>2, <2>1, <2>2
<1> QED  BY <1>3, <1>4

-----------------------------------------------------------------------------
(* The inductive invariant *)

LEMMA InitSound == Init => SoundInv
<1> SUFFICES ASSUME Init PROVE SoundInv
  OBVIOUS
<1> USE ConstantsAssumption DEF ConstantsAssumption
<1>1. TypeOK
  BY DEF Init, TypeOK, State
<1>2. \A r \in Replica :
        Sound(state[r].contribs, state[r].tombs, seen[r], nextTag)
  BY DEF Init, Sound
<1>3. Everything = {}
  BY DEF Init, Everything
<1> QED  BY <1>1, <1>2, <1>3 DEF Init, SoundInv, UniqueTags

LEMMA SourcesSound ==
    ASSUME SoundInv, NEW m \in Sources
    PROVE  /\ m.body \in State
           /\ m.seen \subseteq Everything
           /\ Sound(m.body.contribs, m.body.tombs, m.seen, nextTag)
BY DEF SoundInv, TypeOK, Sources, Everything

(* An operation gives replica r the state s and the history S, with the     *)
(* fresh contributions N, and leaves the others and the snapshots alone.    *)
LEMMA ReplicaStepSound ==
    ASSUME SoundInv, NEW r \in Replica, NEW s \in State, NEW S, NEW N,
           seen[r] \subseteq S, S \subseteq Everything \cup N,
           \A c \in N : c.tag >= nextTag, UniqueTags(N),
           state' = [state EXCEPT ![r] = s],
           seen' = [seen EXCEPT ![r] = S],
           nextTag' \in 1 .. MaxAdds + 1, nextTag <= nextTag',
           Sound(s.contribs, s.tombs, S, nextTag'),
           cache' \in [Replica -> SUBSET SUBSET Contribution],
           \A q \in Replica : \A a, b \in cache'[q] : a = b,
           gone' \in [Replica -> SUBSET Contribution],
           snapshots' = snapshots
    PROVE  SoundInv'
<1> USE ConstantsAssumption DEF ConstantsAssumption
<1>1. nextTag \in Nat /\ nextTag' \in Nat
  BY DEF SoundInv, TypeOK
<1>2. S \subseteq Contribution /\ \A c, d \in s.contribs : c.id = d.id => c = d
  BY DEF Sound
<1>3. \A q \in Replica :
        /\ state'[q] = IF q = r THEN s ELSE state[q]
        /\ seen'[q] = IF q = r THEN S ELSE seen[q]
  BY DEF SoundInv, TypeOK
<1>4. \A q \in Replica :
        Sound(state'[q].contribs, state'[q].tombs, seen'[q], nextTag')
  BY <1>1, <1>3, SoundLater DEF SoundInv
<1>5. \A m \in snapshots :
        Sound(m.body.contribs, m.body.tombs, m.seen, nextTag')
  BY <1>1, SoundLater DEF SoundInv
<1>6. TypeOK'
  BY <1>2, <1>3 DEF SoundInv, TypeOK
<1>7. Everything \subseteq Everything' /\ Everything' \subseteq Everything \cup N
  BY <1>3 DEF Everything
<1>8. UniqueTags(Everything)'
  <2>1. \A c \in Everything : c.tag < nextTag /\ c.tag \in Int
    BY ContributionFields DEF SoundInv, Everything, Sound, Tag
  <2>2. \A c \in Everything, d \in N : c.tag # d.tag
    <3> SUFFICES ASSUME NEW c \in Everything, NEW d \in N PROVE c.tag # d.tag
      OBVIOUS
    <3> QED  BY <1>1, <2>1
  <2> QED  BY <1>7, <2>2 DEF SoundInv, UniqueTags
<1> QED  BY <1>4, <1>5, <1>6, <1>7, <1>8 DEF SoundInv

LEMMA NextSound == SoundInv /\ [Next]_vars => SoundInv'
<1> SUFFICES ASSUME SoundInv, [Next]_vars PROVE SoundInv'
  OBVIOUS
<1> USE ConstantsAssumption DEF ConstantsAssumption
<1>0. /\ TypeOK
      /\ nextTag \in Nat
      /\ \A r \in Replica :
           /\ state[r] \in State /\ seen[r] \subseteq Contribution
           /\ Sound(state[r].contribs, state[r].tombs, seen[r], nextTag)
           /\ seen[r] \subseteq Everything
  BY DEF SoundInv, TypeOK, Everything
<1>1. ASSUME NEW r \in Replica, Add(r) PROVE SoundInv'
  <2>1. PICK c \in NewContributions(nextTag) :
          /\ Accepts(state[r], c)
          /\ state' = [state EXCEPT ![r] = AddTo(@, c)]
          /\ seen' = [seen EXCEPT ![r] = @ \cup {c}]
    BY <1>1 DEF Add
  <2>2. nextTag' = nextTag + 1 /\ nextTag' \in 1 .. MaxAdds + 1 /\ nextTag \in Tag
    BY <1>0, <1>1 DEF Add, CanAdd, TypeOK, Tag
  <2>3. c \in Contribution /\ c.tag = nextTag
    BY <2>2 DEF NewContributions, Contribution
  <2>4. c \in AddTo(state[r], c).contribs
    BY <1>0, <2>1 DEF AddTo, State
  <2>5. /\ AddTo(state[r], c) \in State
        /\ Sound(AddTo(state[r], c).contribs, AddTo(state[r], c).tombs,
                 seen[r] \cup {c}, nextTag')
    <3>1. {c} \cap AddTo(state[r], c).contribs = {c}
      BY <2>4
    <3> QED  BY <1>0, <2>2, <2>3, <3>1, AddToSound
  <2>6. /\ cache' \in [Replica -> SUBSET SUBSET Contribution]
        /\ \A q \in Replica : \A a, b \in cache'[q] : a = b
        /\ gone' \in [Replica -> SUBSET Contribution]
        /\ nextTag <= nextTag' /\ snapshots' = snapshots
    BY <1>0, <1>1 DEF Add, TypeOK
  <2>7. /\ state' = [state EXCEPT ![r] = AddTo(state[r], c)]
        /\ seen' = [seen EXCEPT ![r] = seen[r] \cup {c}]
    BY <2>1
  <2>8. /\ seen[r] \cup {c} \subseteq Everything \cup {c} /\ UniqueTags({c})
        /\ \A x \in {c} : x.tag >= nextTag
    BY <1>0, <2>3 DEF UniqueTags
  <2> DEFINE s == AddTo(state[r], c)
             S == seen[r] \cup {c}
  <2>9. seen[r] \subseteq S /\ S \subseteq Everything \cup {c}
    BY <2>8
  <2> HIDE DEF s, S
  <2> QED  BY <1>0, <2>2, <2>5, <2>6, <2>7, <2>8, <2>9, ReplicaStepSound
             DEF s, S
<1>2. ASSUME NEW r \in Replica, AddBatch(r) PROVE SoundInv'
  <2>1. PICK c \in NewContributions(nextTag), d \in NewContributions(nextTag + 1),
             raises \in {FALSE, BatchMayRaise} :
          /\ state' = [state EXCEPT ![r] = Batch(@, c, d, raises)]
          /\ seen' = [seen EXCEPT ![r] = @ \cup Inserted(state[r], c, d, raises)]
          /\ cache' = [cache EXCEPT ![r] = BatchCache(r, state[r], c, d, raises)]
    BY <1>2 DEF AddBatch
  <2> DEFINE s == Batch(state[r], c, d, raises)
             S == seen[r] \cup Inserted(state[r], c, d, raises)
  <2>2. /\ nextTag' = nextTag + 2 /\ nextTag' \in 1 .. MaxAdds + 1
        /\ nextTag \in Tag /\ nextTag + 1 \in Tag /\ nextTag <= nextTag'
    BY <1>0, <1>2 DEF AddBatch, CanAdd, TypeOK, Tag
  <2>3. /\ c \in Contribution /\ c.tag = nextTag
        /\ d \in Contribution /\ d.tag = nextTag + 1
    BY <2>2 DEF NewContributions, Contribution
  <2>4. s \in State /\ Sound(s.contribs, s.tombs, S, nextTag')
    BY <1>0, <2>2, <2>3, BatchSound
  <2>5. /\ cache' \in [Replica -> SUBSET SUBSET Contribution]
        /\ \A q \in Replica : \A a, b \in cache'[q] : a = b
        /\ gone' \in [Replica -> SUBSET Contribution] /\ snapshots' = snapshots
    <3>1. BatchCache(r, state[r], c, d, raises) \in {cache[r], {}}
      BY DEF BatchCache
    <3> QED  BY <1>0, <1>2, <2>1, <3>1 DEF AddBatch, TypeOK
  <2>6. state' = [state EXCEPT ![r] = s] /\ seen' = [seen EXCEPT ![r] = S]
    BY <2>1
  <2>7. /\ seen[r] \subseteq S /\ S \subseteq Everything \cup {c, d}
        /\ \A x \in {c, d} : x.tag >= nextTag
        /\ UniqueTags({c, d})
    <3>1. Inserted(state[r], c, d, raises) \subseteq {c, d}
      BY DEF Inserted
    <3>2. \A x \in {c, d} : x.tag >= nextTag
      BY <1>0, <2>3
    <3>3. UniqueTags({c, d})
      BY <1>0, <2>3 DEF UniqueTags
    <3> QED  BY <1>0, <3>1, <3>2, <3>3
  <2> HIDE DEF s, S
  <2> QED  BY <1>0, <2>2, <2>4, <2>5, <2>6, <2>7, ReplicaStepSound
<1>3. ASSUME NEW r \in Replica, NEW id \in Id, Remove(r, id) PROVE SoundInv'
  <2>1. PICK c \in state[r].contribs :
          /\ c.id = id
          /\ state' = [state EXCEPT ![r] = RemoveFrom(@, c)]
    BY <1>3 DEF Remove
  <2> DEFINE s == RemoveFrom(state[r], c)
  <2>2. c \in Contribution /\ c.tag \in Tag /\ c.tag < nextTag /\ c \in seen[r]
    BY <1>0, ContributionFields DEF State, Sound
  <2>3. /\ s \in State
        /\ s.contribs = state[r].contribs \ {c}
        /\ s.tombs = state[r].tombs \cup {c.tag}
    BY <1>0, <2>2 DEF State, RemoveFrom
  <2>4. Sound(s.contribs, s.tombs, seen[r], nextTag)
    <3>1. \A d \in s.contribs : d.tag # c.tag
      BY <1>0, <2>2, <2>3 DEF SoundInv, UniqueTags, Sound
    <3> HIDE DEF s
    <3> QED  BY <1>0, <2>2, <2>3, <3>1 DEF Sound
  <2>5. state' = [state EXCEPT ![r] = s]
    BY <2>1
  <2>6. /\ cache' \in [Replica -> SUBSET SUBSET Contribution]
        /\ \A q \in Replica : \A a, b \in cache'[q] : a = b
        /\ gone' \in [Replica -> SUBSET Contribution]
        /\ nextTag' = nextTag /\ nextTag <= nextTag'
        /\ nextTag' \in 1 .. MaxAdds + 1 /\ snapshots' = snapshots /\ seen' = seen
    BY <1>0, <1>3 DEF Remove, TypeOK
  <2>7. seen' = [seen EXCEPT ![r] = seen[r]]
    BY <1>0, <2>6 DEF TypeOK
  <2>8. /\ seen[r] \subseteq Everything \cup {} /\ UniqueTags({})
        /\ \A x \in {} : x.tag >= nextTag
    BY <1>0 DEF UniqueTags
  <2> HIDE DEF s
  <2> QED  BY <1>0, <2>3, <2>4, <2>5, <2>6, <2>7, <2>8, ReplicaStepSound
<1>4. ASSUME NEW r \in Replica, Read(r) PROVE SoundInv'
  <2>1. TypeOK'
    <3>1. Active(r) \subseteq Contribution
      BY <1>0 DEF Active, Alive, State
    <3> QED  BY <1>0, <1>4, <3>1 DEF Read, TypeOK
  <2> QED  BY <1>4, <2>1 DEF Read, SoundInv, Everything
<1>5. ASSUME NEW r \in Replica, TakeSnapshot(r) PROVE SoundInv'
  <2>1. snapshots' = snapshots \cup {[body |-> state[r], seen |-> seen[r]]}
    BY <1>5 DEF TakeSnapshot
  <2>2. UNCHANGED <<state, cache, nextTag, seen, gone, Everything>>
    BY <1>5 DEF TakeSnapshot, Everything
  <2>3. TypeOK'
    BY <1>0, <2>1, <2>2 DEF TypeOK
  <2>4. \A m \in snapshots' :
          /\ m.seen \subseteq Everything
          /\ Sound(m.body.contribs, m.body.tombs, m.seen, nextTag)
    BY <1>0, <2>1 DEF SoundInv
  <2> QED  BY <2>2, <2>3, <2>4 DEF SoundInv, UniqueTags
<1>6. ASSUME NEW r \in Replica, NEW m \in Sources, Merge(r, m) PROVE SoundInv'
  <2> DEFINE s == Merged(state[r], m.body)
             S == seen[r] \cup m.seen
  <2>1. s \in State /\ Sound(s.contribs, s.tombs, S, nextTag)
    BY <1>0, SourcesSound, MergedSound
  <2>2. state' = [state EXCEPT ![r] = s] /\ seen' = [seen EXCEPT ![r] = S]
    BY <1>6 DEF Merge
  <2>3. /\ cache' \in [Replica -> SUBSET SUBSET Contribution]
        /\ \A q \in Replica : \A a, b \in cache'[q] : a = b
        /\ gone' \in [Replica -> SUBSET Contribution]
        /\ nextTag' = nextTag /\ nextTag <= nextTag'
        /\ nextTag' \in 1 .. MaxAdds + 1 /\ snapshots' = snapshots
    BY <1>0, <1>6 DEF Merge, TypeOK
  <2>4. /\ seen[r] \subseteq S /\ S \subseteq Everything \cup {}
        /\ UniqueTags({}) /\ \A x \in {} : x.tag >= nextTag
    BY <1>0, SourcesSound DEF UniqueTags
  <2> HIDE DEF s, S
  <2> QED  BY <1>0, <2>1, <2>2, <2>3, <2>4, ReplicaStepSound
<1>7. ASSUME NEW r \in Replica, NEW m \in Sources, NEW n \in Sources,
             MergeMany(r, m, n)
      PROVE  SoundInv'
  <2> DEFINE s == MergedMany(state[r], m.body, n.body)
             S == seen[r] \cup m.seen \cup n.seen
  <2>1. s \in State /\ Sound(s.contribs, s.tombs, S, nextTag)
    BY <1>0, SourcesSound, MergedManySound
  <2>2. state' = [state EXCEPT ![r] = s] /\ seen' = [seen EXCEPT ![r] = S]
    BY <1>7 DEF MergeMany
  <2>3. /\ cache' \in [Replica -> SUBSET SUBSET Contribution]
        /\ \A q \in Replica : \A a, b \in cache'[q] : a = b
        /\ gone' \in [Replica -> SUBSET Contribution]
        /\ nextTag' = nextTag /\ nextTag <= nextTag'
        /\ nextTag' \in 1 .. MaxAdds + 1 /\ snapshots' = snapshots
    BY <1>0, <1>7 DEF MergeMany, TypeOK
  <2>4. /\ seen[r] \subseteq S /\ S \subseteq Everything \cup {}
        /\ UniqueTags({}) /\ \A x \in {} : x.tag >= nextTag
    BY <1>0, SourcesSound DEF UniqueTags
  <2> HIDE DEF s, S
  <2> QED  BY <1>0, <2>1, <2>2, <2>3, <2>4, ReplicaStepSound
<1>8. ASSUME UNCHANGED vars PROVE SoundInv'
  BY <1>8 DEF vars, SoundInv, TypeOK, Everything
<1> QED  BY <1>1, <1>2, <1>3, <1>4, <1>5, <1>6, <1>7, <1>8 DEF Next

LEMMA SpecSound == Spec => []SoundInv
<1>1. Init => SoundInv
  BY InitSound
<1>2. SoundInv /\ [Next]_vars => SoundInv'
  BY NextSound
<1> QED  BY <1>1, <1>2, PTL DEF Spec

(* The state of CRDTMergeState keeps its type under every conflict policy,  *)
(* with one contribution per model id, as the dict in the code does.        *)
THEOREM TypeCorrect == Spec => []TypeOK
<1>1. SoundInv => TypeOK
  BY DEF SoundInv
<1> QED  BY <1>1, SpecSound, PTL

(* The filter of _active_contributions never hides anything: merge and      *)
(* remove keep tombstoned contributions out of every replica and snapshot.  *)
THEOREM NoneTombstoned == Spec => []NoTombstonedContribution
<1>1. SoundInv => NoTombstonedContribution
  BY DEF SoundInv, NoTombstonedContribution, Sound, States
<1> QED  BY <1>1, SpecSound, PTL

-----------------------------------------------------------------------------
(* What no step takes back *)

LEMMA StepsGrow ==
    ASSUME SoundInv, Next, NEW r \in Replica
    PROVE  state[r].tombs \subseteq state'[r].tombs /\ seen[r] \subseteq seen'[r]
<1>0. /\ state \in [Replica -> State] /\ seen \in [Replica -> SUBSET Contribution]
      /\ state[r] \in State /\ nextTag \in Nat
      /\ \A q \in Replica :
           /\ state[q] \in State
           /\ Sound(state[q].contribs, state[q].tombs, seen[q], nextTag)
  BY ConstantsAssumption DEF ConstantsAssumption, SoundInv, TypeOK
<1>1. ASSUME NEW q \in Replica, NEW s, NEW S,
             state' = [state EXCEPT ![q] = s], seen' = [seen EXCEPT ![q] = S],
             state[q].tombs \subseteq s.tombs, seen[q] \subseteq S
      PROVE  state[r].tombs \subseteq state'[r].tombs /\ seen[r] \subseteq seen'[r]
  BY <1>0, <1>1
<1>2. ASSUME NEW s \in State, NEW c, c.tag \notin s.tombs
      PROVE  AddTo(s, c).tombs = s.tombs
  BY <1>2 DEF AddTo, State
<1>3. ASSUME NEW q \in Replica, Add(q) 
      PROVE  state[r].tombs \subseteq state'[r].tombs /\ seen[r] \subseteq seen'[r]
  <2>1. PICK c \in NewContributions(nextTag) :
          /\ state' = [state EXCEPT ![q] = AddTo(state[q], c)]
          /\ seen' = [seen EXCEPT ![q] = seen[q] \cup {c}]
    BY <1>3 DEF Add
  <2>2. c.tag \notin state[q].tombs
    BY <1>0 DEF NewContributions, Sound
  <2> QED  BY <1>0, <1>1, <1>2, <2>1, <2>2
<1>4. ASSUME NEW q \in Replica, AddBatch(q)
      PROVE  state[r].tombs \subseteq state'[r].tombs /\ seen[r] \subseteq seen'[r]
  <2>1. PICK c \in NewContributions(nextTag), d \in NewContributions(nextTag + 1),
             raises \in {FALSE, BatchMayRaise} :
          /\ state' = [state EXCEPT ![q] = Batch(state[q], c, d, raises)]
          /\ seen' = [seen EXCEPT ![q] =
                        seen[q] \cup Inserted(state[q], c, d, raises)]
    BY <1>4 DEF AddBatch
  <2>2. nextTag \in Tag /\ nextTag + 1 \in Tag
    BY <1>0, <1>4, ConstantsAssumption
    DEF ConstantsAssumption, AddBatch, CanAdd, SoundInv, TypeOK, Tag
  <2>3. /\ c \in Contribution /\ c.tag = nextTag
        /\ d \in Contribution /\ d.tag = nextTag + 1
    BY <2>2 DEF NewContributions, Contribution
  <2>4. Batch(state[q], c, d, raises).tombs = state[q].tombs
    <3>1. c.tag \notin state[q].tombs /\ d.tag \notin state[q].tombs
      <4>1. state[q].tombs \subseteq Nat
        BY <1>0 DEF State, Tag
      <4> QED  BY <1>0, <2>3, <4>1 DEF Sound
    <3> QED  BY <1>0, <3>1 DEF Batch, AddTo, State
  <2> QED  BY <1>0, <1>1, <2>1, <2>4
<1>5. ASSUME NEW q \in Replica, NEW id \in Id, Remove(q, id) 
      PROVE  state[r].tombs \subseteq state'[r].tombs /\ seen[r] \subseteq seen'[r]
  BY <1>0, <1>5 DEF Remove, RemoveFrom, State
<1>6. ASSUME NEW q \in Replica, NEW m \in Sources, Merge(q, m) 
      PROVE  state[r].tombs \subseteq state'[r].tombs /\ seen[r] \subseteq seen'[r]
  BY <1>0, <1>6 DEF Merge, Merged
<1>7. ASSUME NEW q \in Replica, NEW m \in Sources, NEW n \in Sources,
             MergeMany(q, m, n) 
      PROVE  state[r].tombs \subseteq state'[r].tombs /\ seen[r] \subseteq seen'[r]
  BY <1>0, <1>7 DEF MergeMany, MergedMany
<1>8. ASSUME NEW q \in Replica, Read(q) \/ TakeSnapshot(q) 
      PROVE  state[r].tombs \subseteq state'[r].tombs /\ seen[r] \subseteq seen'[r]
  BY <1>8 DEF Read, TakeSnapshot
<1> QED  BY <1>3, <1>4, <1>5, <1>6, <1>7, <1>8 DEF Next

(* A tombstone is for ever: no add, batch, merge or merge_many of any       *)
(* states, old or new, takes one back.                                      *)
THEOREM TombstonesAreKept == Spec => TombstonesGrow
<1>1. SoundInv /\ [Next]_vars =>
        [\A r \in Replica : state[r].tombs \subseteq state'[r].tombs]_vars
  BY StepsGrow
<1> QED  BY <1>1, SpecSound, PTL DEF Spec, TombstonesGrow

-----------------------------------------------------------------------------
(* The cache *)

CacheInv ==
    /\ TypeOK
    /\ \A r \in Replica : cache[r] \in {{}, {Active(r)}}

LEMMA InitCache == Init => CacheInv
<1>1. Init => TypeOK
  BY InitSound DEF SoundInv
<1> QED  BY <1>1 DEF Init, CacheInv

(* A batch that keeps the cache inserted nothing. *)
LEMMA BatchKeepsCache ==
    ASSUME BatchMayRaise = FALSE, NEW r \in Replica, NEW s, NEW c, NEW d,
           NEW raises \in {FALSE, BatchMayRaise}
    PROVE  \/ BatchCache(r, s, c, d, raises) = {}
           \/ /\ BatchCache(r, s, c, d, raises) = cache[r]
              /\ Batch(s, c, d, raises) = s
BY DEF BatchCache, Batch, AddTo

LEMMA NextCache ==
    ASSUME BatchMayRaise = FALSE, SoundInv, CacheInv, [Next]_vars
    PROVE  CacheInv'
<1>0. /\ state \in [Replica -> State]
      /\ cache \in [Replica -> SUBSET SUBSET Contribution]
      /\ \A r \in Replica : cache[r] \in {{}, {Active(r)}}
  BY DEF CacheInv, TypeOK
<1>1. TypeOK'
  BY NextSound DEF SoundInv
<1>2. ASSUME NEW r \in Replica, NEW s, state' = [state EXCEPT ![r] = s],
             cache' = [cache EXCEPT ![r] = {}]
      PROVE  CacheInv'
  BY <1>0, <1>1, <1>2 DEF CacheInv, Active
<1>3. ASSUME NEW r \in Replica, Add(r) PROVE CacheInv'
  BY <1>2, <1>3 DEF Add
<1>4. ASSUME NEW r \in Replica, AddBatch(r) PROVE CacheInv'
  <2>1. PICK c \in NewContributions(nextTag), d \in NewContributions(nextTag + 1),
             raises \in {FALSE, BatchMayRaise} :
          /\ state' = [state EXCEPT ![r] = Batch(state[r], c, d, raises)]
          /\ cache' = [cache EXCEPT ![r] = BatchCache(r, state[r], c, d, raises)]
    BY <1>4 DEF AddBatch
  <2>2. CASE BatchCache(r, state[r], c, d, raises) = {}
    BY <1>2, <2>1, <2>2
  <2>3. CASE /\ BatchCache(r, state[r], c, d, raises) = cache[r]
             /\ Batch(state[r], c, d, raises) = state[r]
    <3>1. state' = state /\ cache' = cache
      BY <1>0, <2>1, <2>3
    <3> QED  BY <1>0, <1>1, <3>1 DEF CacheInv, Active
  <2> QED  BY <2>2, <2>3, BatchKeepsCache
<1>5. ASSUME NEW r \in Replica, NEW id \in Id, Remove(r, id) PROVE CacheInv'
  BY <1>2, <1>5 DEF Remove
<1>6. ASSUME NEW r \in Replica, Read(r) PROVE CacheInv'
  BY <1>0, <1>1, <1>6 DEF Read, CacheInv, Active
<1>7. ASSUME NEW r \in Replica, TakeSnapshot(r) PROVE CacheInv'
  BY <1>0, <1>1, <1>7 DEF TakeSnapshot, CacheInv, Active
<1>8. ASSUME NEW r \in Replica, NEW m \in Sources, Merge(r, m) PROVE CacheInv'
  BY <1>2, <1>8 DEF Merge
<1>9. ASSUME NEW r \in Replica, NEW m \in Sources, NEW n \in Sources,
             MergeMany(r, m, n)
      PROVE  CacheInv'
  BY <1>2, <1>9 DEF MergeMany
<1>10. ASSUME UNCHANGED vars PROVE CacheInv'
  BY <1>0, <1>1, <1>10 DEF vars, CacheInv, Active
<1> QED  BY <1>3, <1>4, <1>5, <1>6, <1>7, <1>8, <1>9, <1>10 DEF Next

(* When no item of a batch raises, a reader that is served from             *)
(* _active_cache gets what a fresh filter of the contributions would give.  *)
THEOREM CacheIsCoherent ==
    ASSUME BatchMayRaise = FALSE
    PROVE  Spec => []CacheCoherent
<1>1. Init => CacheInv
  BY InitCache
<1>2. SoundInv /\ CacheInv /\ [Next]_vars => CacheInv'
  BY NextCache
<1>3. CacheInv => CacheCoherent
  BY DEF CacheInv, CacheCoherent, Visible
<1> QED  BY <1>1, <1>2, <1>3, SpecSound, PTL DEF Spec

-----------------------------------------------------------------------------
(***************************************************************************)
(* What is kept.  The argument is a second invariant, CoverInv: whatever a *)
(* replica or a snapshot has seen is covered by something that it holds or *)
(* has a tombstone for.                                                    *)
(***************************************************************************)
Covering(K, T, S) ==
    \A c \in S : \E d \in S : Covers(d, c) /\ (d \in K \/ d.tag \in T)

CoverInv ==
    /\ SoundInv
    /\ \A r \in Replica :
         Covering(state[r].contribs, state[r].tombs, seen[r])
    /\ \A m \in snapshots :
         Covering(m.body.contribs, m.body.tombs, m.seen)

-----------------------------------------------------------------------------
(* The order of contributions.  LAST_WRITE_WINS has none: add() replaces    *)
(* whatever its time is, and merge() does not.                              *)

LEMMA CoversReflexive ==
    ASSUME NEW c \in Contribution
    PROVE  Covers(c, c)
BY ContributionFields DEF Covers, Replaces

LEMMA CoversTransitive ==
    ASSUME Policy # "last_write_wins",
           NEW c \in Contribution, NEW d \in Contribution, NEW e \in Contribution,
           Covers(d, c), Covers(e, d)
    PROVE  Covers(e, c)
BY ContributionFields DEF Covers, Replaces

LEMMA OverwrittenIsCovered ==
    ASSUME Policy # "last_write_wins",
           NEW c \in Contribution, NEW d \in Contribution,
           c.id = d.id, Overwrites(c, d)
    PROVE  Covers(c, d)
BY ContributionFields DEF Covers, Replaces, Overwrites

(* Covering each other leaves no visible difference. *)
LEMMA CoversAntisymmetric ==
    ASSUME Policy = "highest_version",
           NEW c \in Contribution, NEW d \in Contribution,
           Covers(c, d), Covers(d, c)
    PROVE  c.id = d.id /\ c.version = d.version /\ c.content = d.content
BY ContributionFields DEF Covers, Replaces

-----------------------------------------------------------------------------
(* What the operators of MergeState preserve *)

LEMMA AliveCovering ==
    ASSUME NEW K, NEW T, NEW S, NEW U, Covering(K, T, S), T \subseteq U
    PROVE  Covering(Alive(K, U), U, S)
BY DEF Covering, Alive

LEMMA UnionCovering ==
    ASSUME Policy # "last_write_wins",
           NEW A, NEW B, NEW T, NEW S, NEW R, NEW k,
           Sound(A, T, S, k), Sound(B, T, R, k),
           Covering(A, T, S), Covering(B, T, R)
    PROVE  Covering(UnionOf(A, B), T, S \cup R)
<1>1. /\ A \subseteq S /\ B \subseteq R
      /\ S \subseteq Contribution /\ R \subseteq Contribution
      /\ \A c, d \in A : c.id = d.id => c = d
      /\ \A c, d \in B : c.id = d.id => c = d
  BY DEF Sound
<1>2. ASSUME NEW d \in A
      PROVE  \E e \in UnionOf(A, B) : Covers(e, d)
  <2>1. CASE \A e \in B : e.id = d.id => ~Replaces(e, d)
    <3>1. d \in UnionOf(A, B)
      BY <2>1 DEF UnionOf
    <3>2. Covers(d, d)
      <4>1. d \in Contribution
        BY <1>1
      <4> QED  BY <4>1, CoversReflexive
    <3> QED  BY <3>1, <3>2
  <2>2. CASE \E e \in B : e.id = d.id /\ Replaces(e, d)
    <3>1. PICK e \in B : e.id = d.id /\ Replaces(e, d)
      BY <2>2
    <3>2. e \in UnionOf(A, B)
      BY <1>1, <3>1 DEF UnionOf
    <3>3. Covers(e, d)
      <4>1. d \in Contribution /\ e \in Contribution
        BY <1>1
      <4> QED  BY <3>1, <4>1, ContributionFields DEF Covers, Replaces
    <3> QED  BY <3>2, <3>3
  <2> QED  BY <2>1, <2>2
<1>3. ASSUME NEW d \in B
      PROVE  \E e \in UnionOf(A, B) : Covers(e, d)
  <2>1. CASE \A e \in A : e.id = d.id => Replaces(d, e)
    <3>1. d \in UnionOf(A, B)
      BY <2>1 DEF UnionOf
    <3>2. d \in Contribution
      BY <1>1
    <3> QED  BY <3>1, <3>2, CoversReflexive
  <2>2. CASE \E e \in A : e.id = d.id /\ ~Replaces(d, e)
    <3>1. PICK e \in A : e.id = d.id /\ ~Replaces(d, e)
      BY <2>2
    <3>2. e \in UnionOf(A, B)
      BY <1>1, <3>1 DEF UnionOf
    <3> QED  BY <3>1, <3>2 DEF Covers
  <2> QED  BY <2>1, <2>2
<1>4. UnionOf(A, B) \subseteq S \cup R
  BY <1>1 DEF UnionOf
<1>5. ASSUME NEW c \in S \cup R, NEW d \in A \cup B, Covers(d, c)
      PROVE  \E e \in S \cup R : Covers(e, c) /\ e \in UnionOf(A, B)
  <2>1. PICK e \in UnionOf(A, B) : Covers(e, d)
    BY <1>2, <1>3
  <2>2. c \in Contribution /\ d \in Contribution /\ e \in Contribution
    BY <1>1, <1>4
  <2> QED  BY <1>4, <1>5, <2>1, <2>2, CoversTransitive
<1>6. ASSUME NEW c \in S \cup R
      PROVE  \E e \in S \cup R :
               Covers(e, c) /\ (e \in UnionOf(A, B) \/ e.tag \in T)
  <2>1. PICK d \in S \cup R : Covers(d, c) /\ (d \in A \cup B \/ d.tag \in T)
    BY DEF Covering
  <2> QED  BY <1>5, <2>1
<1> QED  BY <1>6 DEF Covering

LEMMA MergedCovering ==
    ASSUME Policy # "last_write_wins",
           NEW s \in State, NEW o \in State, NEW S, NEW R, NEW k,
           Sound(s.contribs, s.tombs, S, k), Sound(o.contribs, o.tombs, R, k),
           Covering(s.contribs, s.tombs, S), Covering(o.contribs, o.tombs, R)
    PROVE  Covering(Merged(s, o).contribs, Merged(s, o).tombs, S \cup R)
<1> DEFINE U == s.tombs \cup o.tombs
           A == Alive(s.contribs, U)
           B == Alive(o.contribs, U)
<1>1. U \subseteq Tag /\ \A t \in U : t < k
  BY DEF Sound
<1>2. Sound(A, U, S, k) /\ Sound(B, U, R, k)
  BY <1>1, AliveSound
<1>3. Covering(A, U, S) /\ Covering(B, U, R)
  <2>1. s.tombs \subseteq U /\ o.tombs \subseteq U
    OBVIOUS
  <2> HIDE DEF U
  <2> QED  BY <2>1, AliveCovering
<1>4. Merged(s, o).contribs = UnionOf(A, B) /\ Merged(s, o).tombs = U
  BY DEF Merged
<1> HIDE DEF U, A, B
<1> QED  BY <1>2, <1>3, <1>4, UnionCovering

LEMMA MergedManyCovering ==
    ASSUME Policy # "last_write_wins",
           NEW s \in State, NEW o \in State, NEW p \in State,
           NEW S, NEW R, NEW Q, NEW k,
           Sound(s.contribs, s.tombs, S, k), Sound(o.contribs, o.tombs, R, k),
           Sound(p.contribs, p.tombs, Q, k),
           Covering(s.contribs, s.tombs, S), Covering(o.contribs, o.tombs, R),
           Covering(p.contribs, p.tombs, Q)
    PROVE  Covering(MergedMany(s, o, p).contribs, MergedMany(s, o, p).tombs,
                    S \cup R \cup Q)
<1> DEFINE U == s.tombs \cup o.tombs \cup p.tombs
           A == Alive(s.contribs, U)
           B == Alive(o.contribs, U)
           C == Alive(p.contribs, U)
<1>1. U \subseteq Tag /\ \A t \in U : t < k
  BY DEF Sound
<1>2. Sound(A, U, S, k) /\ Sound(B, U, R, k) /\ Sound(C, U, Q, k)
  BY <1>1, AliveSound
<1>3. Covering(A, U, S) /\ Covering(B, U, R) /\ Covering(C, U, Q)
  <2>1. s.tombs \subseteq U /\ o.tombs \subseteq U /\ p.tombs \subseteq U
    OBVIOUS
  <2> HIDE DEF U
  <2> QED  BY <2>1, AliveCovering
<1>4. /\ MergedMany(s, o, p).contribs = UnionOf(UnionOf(A, B), C)
      /\ MergedMany(s, o, p).tombs = U
  BY DEF MergedMany
<1> HIDE DEF U, A, B, C
<1>5. Sound(UnionOf(A, B), U, S \cup R, k) /\ Covering(UnionOf(A, B), U, S \cup R)
  BY <1>2, <1>3, UnionSound, UnionCovering
<1> DEFINE D == UnionOf(A, B)
           V == S \cup R
<1>6. Sound(D, U, V, k) /\ Covering(D, U, V)
  BY <1>5
<1>7. Covering(UnionOf(D, C), U, V \cup Q)
  <2> HIDE DEF D, V
  <2> QED  BY <1>2, <1>3, <1>6, UnionCovering
<1> QED  BY <1>4, <1>7

LEMMA AddToCovering ==
    ASSUME Policy # "last_write_wins",
           NEW s \in State, NEW S, NEW k \in Nat, NEW c \in Contribution,
           Sound(s.contribs, s.tombs, S, k), c.tag = k,
           Covering(s.contribs, s.tombs, S)
    PROVE  Covering(AddTo(s, c).contribs, s.tombs,
                    S \cup ({c} \cap AddTo(s, c).contribs))
<1>1. CASE Accepts(s, c)
  <2> DEFINE K == {d \in s.contribs : d.id # c.id} \cup {c}
  <2>1. AddTo(s, c).contribs = K
    BY <1>1 DEF AddTo, State
  <2>2. S \subseteq Contribution /\ s.contribs \subseteq S
    BY DEF Sound
  <2>3. ASSUME NEW d \in s.contribs
        PROVE  \E e \in K : Covers(e, d)
    <3>1. CASE d.id = c.id
      <4>1. Overwrites(c, d)
        BY <1>1, <3>1 DEF Accepts
      <4>2. d \in Contribution
        BY <2>2
      <4> QED  BY <3>1, <4>1, <4>2, OverwrittenIsCovered
    <3>2. CASE d.id # c.id
      BY <2>2, <3>2, CoversReflexive
    <3> QED  BY <3>1, <3>2
  <2>4. ASSUME NEW b \in S
        PROVE  \E e \in S \cup {c} : Covers(e, b) /\ (e \in K \/ e.tag \in s.tombs)
    <3>1. PICK d \in S : Covers(d, b) /\ (d \in s.contribs \/ d.tag \in s.tombs)
      BY DEF Covering
    <3>2. CASE d.tag \in s.tombs
      BY <3>1, <3>2
    <3>3. CASE d \in s.contribs
      <4>1. PICK e \in K : Covers(e, d)
        BY <2>3, <3>3
      <4>2. e \in S \cup {c}
        BY <2>2
      <4>3. Covers(e, b)
        BY <2>2, <3>1, <4>1, <4>2, CoversTransitive
      <4> QED  BY <4>2, <4>3
    <3> QED  BY <3>1, <3>2, <3>3
  <2>5. Covers(c, c) /\ c \in K
    BY CoversReflexive
  <2>6. S \cup ({c} \cap K) = S \cup {c}
    OBVIOUS
  <2>7. Covering(K, s.tombs, S \cup {c})
    BY <2>4, <2>5 DEF Covering
  <2> QED  BY <2>1, <2>6, <2>7
<1>2. CASE ~Accepts(s, c)
  <2>1. AddTo(s, c) = s
    BY <1>2 DEF AddTo
  <2>2. S \cup ({c} \cap s.contribs) = S
    BY DEF Sound
  <2> QED  BY <2>1, <2>2
<1> QED  BY <1>1, <1>2

LEMMA BatchCovering ==
    ASSUME Policy # "last_write_wins",
           NEW s \in State, NEW S, NEW k \in Nat, NEW raises \in BOOLEAN,
           NEW c \in Contribution, NEW d \in Contribution,
           Sound(s.contribs, s.tombs, S, k), c.tag = k, d.tag = k + 1,
           Covering(s.contribs, s.tombs, S)
    PROVE  Covering(Batch(s, c, d, raises).contribs, s.tombs,
                    S \cup Inserted(s, c, d, raises))
<1> DEFINE first == AddTo(s, c)
           S1 == S \cup ({c} \cap first.contribs)
           second == AddTo(first, d)
           S2 == S1 \cup ({d} \cap second.contribs)
<1>1. /\ first \in State /\ first.tombs = s.tombs
      /\ Sound(first.contribs, s.tombs, S1, k + 1)
      /\ Covering(first.contribs, s.tombs, S1)
  BY AddToSound, AddToCovering
<1>2. Covering(second.contribs, s.tombs, S2)
  <2>1. k + 1 \in Nat
    OBVIOUS
  <2> HIDE DEF first, S1
  <2> QED  BY <1>1, <2>1, AddToCovering
<1>3. CASE raises
  <2>1. d \notin first.contribs
    <3> HIDE DEF first
    <3> QED  BY <1>1 DEF Sound
  <2>2. /\ Batch(s, c, d, raises) = first
        /\ S \cup Inserted(s, c, d, raises) = S1
    BY <1>3, <2>1 DEF Batch, Inserted
  <2> HIDE DEF first, S1
  <2> QED  BY <1>1, <2>2
<1>4. CASE ~raises
  <2>1. /\ Batch(s, c, d, raises) = second
        /\ S \cup Inserted(s, c, d, raises) = S2
    BY <1>4 DEF Batch, Inserted
  <2> HIDE DEF second, S2
  <2> QED  BY <1>2, <2>1
<1> QED  BY <1>3, <1>4

LEMMA RemoveCovering ==
    ASSUME NEW s \in State, NEW S, NEW c \in s.contribs,
           Covering(s.contribs, s.tombs, S)
    PROVE  Covering(RemoveFrom(s, c).contribs, RemoveFrom(s, c).tombs, S)
BY DEF Covering, RemoveFrom, State

-----------------------------------------------------------------------------
(* The invariant *)

LEMMA InitCover == Init => CoverInv
<1>1. Init => SoundInv
  BY InitSound
<1> QED  BY <1>1 DEF Init, CoverInv, Covering

LEMMA SourcesCovering ==
    ASSUME CoverInv, NEW m \in Sources
    PROVE  Covering(m.body.contribs, m.body.tombs, m.seen)
BY DEF CoverInv, Sources

LEMMA NextCover ==
    ASSUME Policy # "last_write_wins", CoverInv, [Next]_vars
    PROVE  CoverInv'
<1>0. /\ SoundInv /\ TypeOK /\ SoundInv'
      /\ nextTag \in Nat
      /\ state \in [Replica -> State] /\ seen \in [Replica -> SUBSET Contribution]
      /\ \A r \in Replica :
           /\ state[r] \in State
           /\ Sound(state[r].contribs, state[r].tombs, seen[r], nextTag)
           /\ Covering(state[r].contribs, state[r].tombs, seen[r])
  BY NextSound DEF CoverInv, SoundInv, TypeOK
<1>1. ASSUME NEW r \in Replica, NEW s, NEW S,
             state' = [state EXCEPT ![r] = s], seen' = [seen EXCEPT ![r] = S],
             snapshots' = snapshots, Covering(s.contribs, s.tombs, S)
      PROVE  CoverInv'
  <2>1. \A q \in Replica :
          /\ state'[q] = IF q = r THEN s ELSE state[q]
          /\ seen'[q] = IF q = r THEN S ELSE seen[q]
    BY <1>0, <1>1
  <2> QED  BY <1>0, <1>1, <2>1 DEF CoverInv
<1>2. ASSUME NEW r \in Replica, Add(r) PROVE CoverInv'
  <2>1. PICK c \in NewContributions(nextTag) :
          /\ Accepts(state[r], c)
          /\ state' = [state EXCEPT ![r] = AddTo(state[r], c)]
          /\ seen' = [seen EXCEPT ![r] = seen[r] \cup {c}]
    BY <1>2 DEF Add
  <2>2. c \in Contribution /\ c.tag = nextTag
    <3>1. nextTag \in Tag
      BY <1>0, <1>2, ConstantsAssumption
      DEF ConstantsAssumption, Add, CanAdd, TypeOK, Tag
    <3> QED  BY <3>1 DEF NewContributions, Contribution
  <2>3. {c} \cap AddTo(state[r], c).contribs = {c}
    BY <1>0, <2>1 DEF AddTo, State
  <2> DEFINE s == AddTo(state[r], c)
  <2>4. s.tombs = state[r].tombs
    <3>1. c.tag \notin state[r].tombs
      BY <1>0, <2>2 DEF Sound
    <3> QED  BY <1>0, <3>1 DEF AddTo, State
  <2>5. Covering(s.contribs, s.tombs, seen[r] \cup {c})
    BY <1>0, <2>2, <2>3, <2>4, AddToCovering
  <2>6. snapshots' = snapshots
    BY <1>2 DEF Add
  <2> HIDE DEF s
  <2> QED  BY <1>1, <2>1, <2>5, <2>6 DEF s
<1>3. ASSUME NEW r \in Replica, AddBatch(r) PROVE CoverInv'
  <2>1. PICK c \in NewContributions(nextTag), d \in NewContributions(nextTag + 1),
             raises \in {FALSE, BatchMayRaise} :
          /\ state' = [state EXCEPT ![r] = Batch(state[r], c, d, raises)]
          /\ seen' = [seen EXCEPT ![r] =
                        seen[r] \cup Inserted(state[r], c, d, raises)]
    BY <1>3 DEF AddBatch
  <2>2. /\ c \in Contribution /\ c.tag = nextTag
        /\ d \in Contribution /\ d.tag = nextTag + 1
    <3>1. nextTag \in Tag /\ nextTag + 1 \in Tag
      BY <1>0, <1>3, ConstantsAssumption
      DEF ConstantsAssumption, AddBatch, CanAdd, TypeOK, Tag
    <3> QED  BY <3>1 DEF NewContributions, Contribution
  <2>3. raises \in BOOLEAN
    BY ConstantsAssumption DEF ConstantsAssumption
  <2> DEFINE s == Batch(state[r], c, d, raises)
             S == seen[r] \cup Inserted(state[r], c, d, raises)
  <2>4. s.tombs = state[r].tombs
    <3>1. c.tag \notin state[r].tombs /\ d.tag \notin state[r].tombs
      <4>1. state[r].tombs \subseteq Nat
        BY <1>0 DEF State, Tag
      <4> QED  BY <1>0, <2>2, <4>1 DEF Sound
    <3> QED  BY <1>0, <3>1 DEF Batch, AddTo, State
  <2>5. Covering(s.contribs, state[r].tombs, S)
    BY <1>0, <2>2, <2>3, BatchCovering
  <2>6. snapshots' = snapshots
    BY <1>3 DEF AddBatch
  <2>7. state' = [state EXCEPT ![r] = s] /\ seen' = [seen EXCEPT ![r] = S]
    BY <2>1
  <2> HIDE DEF s, S
  <2> QED  BY <1>1, <2>4, <2>5, <2>6, <2>7
<1>4. ASSUME NEW r \in Replica, NEW id \in Id, Remove(r, id) PROVE CoverInv'
  <2>1. PICK c \in state[r].contribs :
          state' = [state EXCEPT ![r] = RemoveFrom(state[r], c)]
    BY <1>4 DEF Remove
  <2> DEFINE s == RemoveFrom(state[r], c)
  <2>2. Covering(s.contribs, s.tombs, seen[r])
    BY <1>0, RemoveCovering
  <2>3. seen' = [seen EXCEPT ![r] = seen[r]] /\ snapshots' = snapshots
    BY <1>0, <1>4 DEF Remove
  <2>4. state' = [state EXCEPT ![r] = s]
    BY <2>1
  <2> HIDE DEF s
  <2> QED  BY <1>1, <2>2, <2>3, <2>4
<1>5. ASSUME NEW r \in Replica, Read(r) PROVE CoverInv'
  BY <1>0, <1>5 DEF Read, CoverInv
<1>6. ASSUME NEW r \in Replica, TakeSnapshot(r) PROVE CoverInv'
  <2>1. /\ snapshots' = snapshots \cup {[body |-> state[r], seen |-> seen[r]]}
        /\ UNCHANGED <<state, seen>>
    BY <1>6 DEF TakeSnapshot
  <2> QED  BY <1>0, <2>1 DEF CoverInv
<1>7. ASSUME NEW r \in Replica, NEW m \in Sources, Merge(r, m) PROVE CoverInv'
  <2> DEFINE s == Merged(state[r], m.body)
             S == seen[r] \cup m.seen
  <2>1. Covering(s.contribs, s.tombs, S)
    <3>1. /\ m.body \in State
          /\ Sound(m.body.contribs, m.body.tombs, m.seen, nextTag)
          /\ Covering(m.body.contribs, m.body.tombs, m.seen)
      BY <1>0, SourcesSound, SourcesCovering
    <3> QED  BY <1>0, <3>1, MergedCovering
  <2>2. /\ state' = [state EXCEPT ![r] = s] /\ seen' = [seen EXCEPT ![r] = S]
        /\ snapshots' = snapshots
    BY <1>7 DEF Merge
  <2> HIDE DEF s, S
  <2> QED  BY <1>1, <2>1, <2>2
<1>8. ASSUME NEW r \in Replica, NEW m \in Sources, NEW n \in Sources,
             MergeMany(r, m, n)
      PROVE  CoverInv'
  <2> DEFINE s == MergedMany(state[r], m.body, n.body)
             S == seen[r] \cup m.seen \cup n.seen
  <2>1. Covering(s.contribs, s.tombs, S)
    <3>1. \A x \in {m, n} :
            /\ x.body \in State
            /\ Sound(x.body.contribs, x.body.tombs, x.seen, nextTag)
            /\ Covering(x.body.contribs, x.body.tombs, x.seen)
      BY <1>0, SourcesSound, SourcesCovering
    <3> QED  BY <1>0, <3>1, MergedManyCovering
  <2>2. /\ state' = [state EXCEPT ![r] = s] /\ seen' = [seen EXCEPT ![r] = S]
        /\ snapshots' = snapshots
    BY <1>8 DEF MergeMany
  <2> HIDE DEF s, S
  <2> QED  BY <1>1, <2>1, <2>2
<1>9. ASSUME UNCHANGED vars PROVE CoverInv'
  BY <1>0, <1>9 DEF vars, CoverInv
<1> QED  BY <1>2, <1>3, <1>4, <1>5, <1>6, <1>7, <1>8, <1>9 DEF Next

LEMMA SpecCover ==
    ASSUME Policy # "last_write_wins"
    PROVE  Spec => []CoverInv
<1>1. Init => CoverInv
  BY InitCover
<1>2. CoverInv /\ [Next]_vars => CoverInv'
  BY NextCover
<1> QED  BY <1>1, <1>2, PTL DEF Spec

(* Whatever was accepted or received, by add, batch, merge or merge_many,   *)
(* in any order and any number of times, is held, removed, or covered by    *)
(* one that is.  LAST_WRITE_WINS is the exception: its add() replaces a     *)
(* contribution whose timestamp is later.                                   *)
THEOREM NothingIsLost ==
    ASSUME Policy # "last_write_wins"
    PROVE  Spec => []NothingLost
<1>1. CoverInv => NothingLost
  BY DEF CoverInv, Covering, NothingLost
<1> QED  BY <1>1, SpecCover, PTL

-----------------------------------------------------------------------------
(* Convergence *)

LEMMA SameHeardSameShown ==
    ASSUME Policy = "highest_version", CoverInv,
           NEW r \in Replica, NEW q \in Replica,
           seen[r] = seen[q], state[r].tombs = state[q].tombs,
           NoRemovedWinner(seen[r], state[r].tombs),
           NEW c \in Active(r)
    PROVE  \E d \in Active(q) :
             c.id = d.id /\ c.version = d.version /\ c.content = d.content
<1> DEFINE S == seen[r]
           T == state[r].tombs
<1>1. /\ S \subseteq Contribution /\ c \in S /\ c \in state[r].contribs
      /\ c.tag \notin T
      /\ \A a, b \in state[r].contribs : a.id = b.id => a = b
  BY DEF CoverInv, SoundInv, Sound, Active, Alive
<1>2. PICK d \in S : Covers(d, c) /\ (d \in state[q].contribs \/ d.tag \in T)
  BY <1>1 DEF CoverInv, Covering
<1>3. d.tag \notin T
  BY <1>1, <1>2 DEF NoRemovedWinner
<1>4. PICK e \in S : Covers(e, d) /\ (e \in state[r].contribs \/ e.tag \in T)
  BY DEF CoverInv, Covering
<1>5. e.tag \notin T
  BY <1>3, <1>4 DEF NoRemovedWinner
<1>6. e = c
  BY <1>1, <1>2, <1>4, <1>5 DEF Covers
<1>7. d \in Active(q)
  BY <1>2, <1>3 DEF Active, Alive
<1> QED  BY <1>1, <1>2, <1>4, <1>6, <1>7, CoversAntisymmetric

(* Replicas that heard of the same contributions and the same removes, by   *)
(* whatever merges, show the same models, unless a removed contribution     *)
(* superseded one that nobody removed.                                      *)
THEOREM ReplicasConverge ==
    ASSUME Policy = "highest_version"
    PROVE  Spec => []Convergence
<1>1. ASSUME CoverInv PROVE Convergence
  <2> SUFFICES ASSUME NEW r \in Replica, NEW q \in Replica,
                      seen[r] = seen[q], state[r].tombs = state[q].tombs,
                      NoRemovedWinner(seen[r], state[r].tombs)
               PROVE  Visibly(state[r]).models = Visibly(state[q]).models
    BY DEF Convergence
  <2> DEFINE shown(c) == <<c.id, c.version, c.content>>
  <2>1. \A c \in Active(r) : \E d \in Active(q) : shown(c) = shown(d)
    BY <1>1, SameHeardSameShown
  <2>2. \A d \in Active(q) : \E c \in Active(r) : shown(d) = shown(c)
    BY <1>1, SameHeardSameShown
  <2>3. /\ Visibly(state[r]).models = {shown(c) : c \in Active(r)}
        /\ Visibly(state[q]).models = {shown(d) : d \in Active(q)}
    BY DEF Visibly, Active
  <2> HIDE DEF shown
  <2> QED  BY <2>1, <2>2, <2>3
<1>2. Policy # "last_write_wins"
  OBVIOUS
<1>3. Spec => []CoverInv
  BY <1>2, SpecCover
<1>4. CoverInv => Convergence
  BY <1>1
<1> QED  BY <1>3, <1>4, PTL

-----------------------------------------------------------------------------
(* Removes *)

GoneInv ==
    \A r \in Replica :
        /\ gone[r] \subseteq seen[r]
        /\ \A c \in gone[r] :
             \E d \in seen[r] : Covers(d, c) /\ d.tag \in state[r].tombs

LEMMA NextGone ==
    ASSUME CoverInv, GoneInv, [Next]_vars
    PROVE  GoneInv'
<1>1. ASSUME NEW r \in Replica, NEW c \in gone[r], Next
      PROVE  c \in seen'[r] /\ \E d \in seen'[r] : Covers(d, c) /\ d.tag \in state'[r].tombs
  <2>1. state[r].tombs \subseteq state'[r].tombs /\ seen[r] \subseteq seen'[r]
    BY <1>1, StepsGrow DEF CoverInv
  <2> QED  BY <1>1, <2>1 DEF GoneInv
<1>2. ASSUME NEW q \in Replica, NEW id \in Id, Remove(q, id),
             NEW r \in Replica, NEW c \in gone'[r], c \notin gone[r]
      PROVE  c \in seen'[r] /\ \E d \in seen'[r] : Covers(d, c) /\ d.tag \in state'[r].tombs
  <2>0. /\ state \in [Replica -> State] /\ gone \in [Replica -> SUBSET Contribution]
        /\ \A a, b \in state[r].contribs : a.id = b.id => a = b
    BY DEF CoverInv, SoundInv, TypeOK
  <2>1. r = q /\ c \in seen[r] /\ c.id = id /\ seen' = seen
    BY <1>2, <2>0 DEF Remove
  <2>2. PICK x \in state[r].contribs :
          x.id = id /\ state' = [state EXCEPT ![r] = RemoveFrom(state[r], x)]
    BY <1>2, <2>1 DEF Remove
  <2>3. state'[r].tombs = state[r].tombs \cup {x.tag}
    BY <2>0, <2>2 DEF RemoveFrom, State
  <2>4. PICK d \in seen[r] :
          Covers(d, c) /\ (d \in state[r].contribs \/ d.tag \in state[r].tombs)
    BY <2>1 DEF CoverInv, Covering
  <2>5. d \in state[r].contribs => d = x
    BY <2>0, <2>1, <2>2, <2>4 DEF Covers
  <2> QED  BY <2>1, <2>3, <2>4, <2>5
<1>3. ASSUME Next, \A q \in Replica, id \in Id : ~Remove(q, id)
      PROVE  gone' = gone
  BY <1>3 DEF Next, Add, AddBatch, Read, TakeSnapshot, Merge, MergeMany
<1>4. CASE Next
  <2>1. ASSUME NEW r \in Replica, NEW c \in gone'[r]
        PROVE  c \in seen'[r] /\ \E d \in seen'[r] : Covers(d, c) /\ d.tag \in state'[r].tombs
    BY <1>1, <1>2, <1>3, <1>4, <2>1
  <2> QED  BY <2>1 DEF GoneInv
<1>5. CASE UNCHANGED vars
  BY <1>5 DEF vars, GoneInv
<1> QED  BY <1>4, <1>5

(* What a replica had seen of a model id when it removed the model id comes *)
(* back, if at all, only after one that covered it was removed as well.     *)
THEOREM RemovedStaysOut ==
    ASSUME Policy # "last_write_wins"
    PROVE  Spec => []RemoveKeepsOut
<1>1. Init => GoneInv
  BY DEF Init, GoneInv
<1>2. CoverInv /\ GoneInv /\ [Next]_vars => GoneInv'
  BY NextGone
<1>3. GoneInv => RemoveKeepsOut
  BY DEF GoneInv, RemoveKeepsOut, Active, Alive
<1> QED  BY <1>1, <1>2, <1>3, SpecCover, PTL DEF Spec

-----------------------------------------------------------------------------
(***************************************************************************)
(* Merges in any order and grouping.  K is a best choice from the pool P    *)
(* when it has one contribution of each model id that covers all of that id *)
(* in P.  Whatever the order, a merge makes a best choice from what is      *)
(* alive in the states that went in, and two best choices look the same.    *)
(***************************************************************************)
Best(K, P) ==
    /\ K \subseteq P
    /\ \A c, d \in K : c.id = d.id => c = d
    /\ \A c \in P : \E d \in K : Covers(d, c)

Shown(K) == {<<c.id, c.version, c.content>> : c \in K}

LEMMA BestLookSame ==
    ASSUME Policy = "highest_version", NEW P \in SUBSET Contribution,
           NEW K, NEW L, Best(K, P), Best(L, P)
    PROVE  Shown(K) = Shown(L)
<1>1. ASSUME NEW A, NEW B, Best(A, P), Best(B, P), NEW c \in A
      PROVE  \E d \in B : c.id = d.id /\ c.version = d.version /\ c.content = d.content
  <2>1. PICK d \in B : Covers(d, c)
    BY <1>1 DEF Best
  <2>2. PICK e \in A : Covers(e, d)
    BY <1>1 DEF Best
  <2>3. e = c
    BY <1>1, <2>1, <2>2 DEF Best, Covers
  <2>4. c \in Contribution /\ d \in Contribution
    BY <1>1 DEF Best
  <2> QED  BY <2>1, <2>2, <2>3, <2>4, CoversAntisymmetric
<1>2. \A c \in K : \E d \in L : c.id = d.id /\ c.version = d.version /\ c.content = d.content
  BY <1>1
<1>3. \A c \in L : \E d \in K : c.id = d.id /\ c.version = d.version /\ c.content = d.content
  BY <1>1
<1> QED  BY <1>2, <1>3 DEF Shown

LEMMA BestOfItself ==
    ASSUME NEW K \in SUBSET Contribution, \A c, d \in K : c.id = d.id => c = d
    PROVE  Best(K, K)
BY CoversReflexive DEF Best

LEMMA UnionIsBest ==
    ASSUME Policy = "highest_version",
           NEW A, NEW B, NEW P \in SUBSET Contribution, NEW Q \in SUBSET Contribution,
           Best(A, P), Best(B, Q)
    PROVE  Best(UnionOf(A, B), P \cup Q)
<1>1. /\ A \subseteq Contribution /\ B \subseteq Contribution
      /\ \A c, d \in A : c.id = d.id => c = d
      /\ \A c, d \in B : c.id = d.id => c = d
  BY DEF Best
<1>2. ASSUME NEW d \in A
      PROVE  \E e \in UnionOf(A, B) : Covers(e, d)
  <2>1. CASE \A e \in B : e.id = d.id => ~Replaces(e, d)
    BY <1>1, <2>1, CoversReflexive DEF UnionOf
  <2>2. CASE \E e \in B : e.id = d.id /\ Replaces(e, d)
    <3>1. PICK e \in B : e.id = d.id /\ Replaces(e, d)
      BY <2>2
    <3>2. e \in UnionOf(A, B)
      BY <1>1, <3>1 DEF UnionOf
    <3>3. d \in Contribution /\ e \in Contribution
      BY <1>1
    <3> QED  BY <3>1, <3>2, <3>3, ContributionFields DEF Covers, Replaces
  <2> QED  BY <2>1, <2>2
<1>3. ASSUME NEW d \in B
      PROVE  \E e \in UnionOf(A, B) : Covers(e, d)
  <2>1. CASE \A e \in A : e.id = d.id => Replaces(d, e)
    BY <1>1, <2>1, CoversReflexive DEF UnionOf
  <2>2. CASE \E e \in A : e.id = d.id /\ ~Replaces(d, e)
    <3>1. PICK e \in A : e.id = d.id /\ ~Replaces(d, e)
      BY <2>2
    <3>2. e \in UnionOf(A, B)
      BY <1>1, <3>1 DEF UnionOf
    <3> QED  BY <3>1, <3>2 DEF Covers
  <2> QED  BY <2>1, <2>2
<1>4. ASSUME NEW c \in P \cup Q
      PROVE  \E e \in UnionOf(A, B) : Covers(e, c)
  <2>1. PICK d \in A \cup B : Covers(d, c)
    BY DEF Best
  <2>2. PICK e \in UnionOf(A, B) : Covers(e, d)
    BY <1>2, <1>3
  <2>3. c \in Contribution /\ d \in Contribution /\ e \in Contribution
    BY <1>1 DEF UnionOf
  <2>4. Policy # "last_write_wins"
    OBVIOUS
  <2> QED  BY <2>1, <2>2, <2>3, <2>4, CoversTransitive
<1>5. UnionOf(A, B) \subseteq P \cup Q
  BY DEF UnionOf, Best
<1>6. ASSUME NEW c \in UnionOf(A, B), NEW d \in UnionOf(A, B), c.id = d.id
      PROVE  c = d
  BY <1>1, <1>6 DEF UnionOf
<1> QED  BY <1>4, <1>5, <1>6 DEF Best

(* Tombstones leave a best choice what it is unless they hit a contribution *)
(* of it and spare one that it covers.                                      *)
LEMMA AliveIsBest ==
    ASSUME NEW K, NEW P, NEW T, NEW U, Best(K, Alive(P, T)), T \subseteq U,
           NoRemovedWinner(P, U)
    PROVE  Best(Alive(K, U), Alive(P, U))
BY DEF Best, Alive, NoRemovedWinner

(* A state without contributions that it has a tombstone for *)
Clean(s) ==
    /\ s.contribs \subseteq Contribution
    /\ \A c, d \in s.contribs : c.id = d.id => c = d
    /\ \A c \in s.contribs : c.tag \notin s.tombs

LEMMA CleanIsBest ==
    ASSUME NEW s, Clean(s), NEW T
    PROVE  /\ Best(Alive(s.contribs, T), Alive(s.contribs, T))
           /\ Alive(s.contribs, T) \in SUBSET Contribution
<1>1. /\ Alive(s.contribs, T) \in SUBSET Contribution
      /\ \A c, d \in Alive(s.contribs, T) : c.id = d.id => c = d
  BY DEF Clean, Alive
<1> QED  BY <1>1, BestOfItself

(* What a merge shows is a best choice of what is alive in the two states.  *)
LEMMA MergedIsBest ==
    ASSUME Policy = "highest_version", NEW s, NEW o, Clean(s), Clean(o)
    PROVE  /\ Best(Merged(s, o).contribs,
                   Alive(s.contribs \cup o.contribs, s.tombs \cup o.tombs))
           /\ Merged(s, o).tombs = s.tombs \cup o.tombs
           /\ Clean(Merged(s, o))
           /\ Visibly(Merged(s, o)).models = Shown(Merged(s, o).contribs)
<1> DEFINE T == s.tombs \cup o.tombs
           A == Alive(s.contribs, T)
           B == Alive(o.contribs, T)
           M == Merged(s, o)
<1>1. M.contribs = UnionOf(A, B) /\ M.tombs = T
  BY DEF Merged
<1>2. Best(UnionOf(A, B), A \cup B)
  BY CleanIsBest, UnionIsBest
<1>3. A \cup B = Alive(s.contribs \cup o.contribs, T) /\ A \cup B \subseteq Contribution
  BY DEF Alive, Clean
<1>4. \A c \in M.contribs : c.tag \notin T
  BY <1>1, <1>2, <1>3 DEF Best, Alive
<1>5. Clean(M)
  <2>1. /\ UnionOf(A, B) \subseteq Contribution
        /\ \A c, d \in UnionOf(A, B) : c.id = d.id => c = d
    BY <1>2, <1>3 DEF Best
  <2> HIDE DEF A, B, M
  <2> QED  BY <1>1, <1>4, <2>1 DEF Clean
<1>6. Alive(M.contribs, M.tombs) = M.contribs
  BY <1>1, <1>4 DEF Alive
<1>7. Visibly(M).models = Shown(M.contribs)
  BY <1>6 DEF Visibly, Shown
<1> HIDE DEF T, A, B, M
<1> QED  BY <1>1, <1>2, <1>3, <1>5, <1>7 DEF T, M

LEMMA MergedManyIsBest ==
    ASSUME Policy = "highest_version", NEW s, NEW o, NEW p, Clean(s), Clean(o), Clean(p)
    PROVE  /\ Best(MergedMany(s, o, p).contribs,
                   Alive(s.contribs \cup o.contribs \cup p.contribs,
                         s.tombs \cup o.tombs \cup p.tombs))
           /\ Visibly(MergedMany(s, o, p)).models = Shown(MergedMany(s, o, p).contribs)
<1> DEFINE T == s.tombs \cup o.tombs \cup p.tombs
           A == Alive(s.contribs, T)
           B == Alive(o.contribs, T)
           C == Alive(p.contribs, T)
           M == MergedMany(s, o, p)
<1>1. M.contribs = UnionOf(UnionOf(A, B), C) /\ M.tombs = T
  BY DEF MergedMany
<1>2. /\ Best(A, A) /\ Best(B, B) /\ Best(C, C)
      /\ A \in SUBSET Contribution /\ B \in SUBSET Contribution /\ C \in SUBSET Contribution
  BY CleanIsBest
<1>3. A \cup B \cup C = Alive(s.contribs \cup o.contribs \cup p.contribs, T)
  BY DEF Alive
<1> HIDE DEF A, B, C, M
<1>4. Best(UnionOf(A, B), A \cup B) /\ A \cup B \in SUBSET Contribution
  BY <1>2, UnionIsBest
<1>5. Best(UnionOf(UnionOf(A, B), C), A \cup B \cup C)
  BY <1>2, <1>4, UnionIsBest
<1>6. \A c \in M.contribs : c.tag \notin T
  BY <1>1, <1>3, <1>5 DEF Best, Alive
<1>7. Alive(M.contribs, M.tombs) = M.contribs
  BY <1>1, <1>6 DEF Alive
<1>8. Visibly(M).models = Shown(M.contribs)
  BY <1>7 DEF Visibly, Shown
<1> QED  BY <1>1, <1>3, <1>5, <1>8 DEF T, M

-----------------------------------------------------------------------------
(* The base model: where all replicas that have one were built for the same *)
OneBaseOf(b) == \A r \in Replica : InitialBase[r] \in {b, NoBase}

Based(s, b) == s.base \in {b, NoBase}

BaseInv(b) ==
    /\ state \in [Replica -> State]
    /\ \A s \in States : Based(s, b)

LEMMA NextBase ==
    ASSUME NEW b, BaseInv(b), SoundInv', [Next]_vars
    PROVE  BaseInv(b)'
<1>0. /\ state \in [Replica -> State] /\ state' \in [Replica -> State]
      /\ \A r \in Replica : state[r].base \in {b, NoBase}
      /\ \A m \in snapshots : m.body.base \in {b, NoBase}
      /\ \A m \in Sources : m.body.base \in {b, NoBase}
  BY DEF BaseInv, Based, States, Sources, SoundInv, TypeOK
<1> DEFINE Kept == /\ \A q \in Replica : state'[q].base \in {b, NoBase}
                   /\ \A m \in snapshots' : m.body.base \in {b, NoBase}
<1>1. ASSUME NEW r \in Replica, NEW s, s.base \in {b, NoBase},
             state' = [state EXCEPT ![r] = s], snapshots' = snapshots
      PROVE  Kept
  BY <1>0, <1>1
<1>2. ASSUME NEW s \in State, NEW c PROVE AddTo(s, c).base = s.base
  BY DEF AddTo, State
<1>3. ASSUME NEW r \in Replica, Add(r) PROVE Kept
  <2>1. PICK c \in NewContributions(nextTag) :
          state' = [state EXCEPT ![r] = AddTo(state[r], c)] /\ snapshots' = snapshots
    BY <1>3 DEF Add
  <2> QED  BY <1>0, <1>1, <1>2, <2>1
<1>4. ASSUME NEW r \in Replica, AddBatch(r) PROVE Kept
  <2>1. PICK c \in NewContributions(nextTag), d \in NewContributions(nextTag + 1),
             raises \in {FALSE, BatchMayRaise} :
          state' = [state EXCEPT ![r] = Batch(state[r], c, d, raises)]
            /\ snapshots' = snapshots
    BY <1>4 DEF AddBatch
  <2>2. Batch(state[r], c, d, raises).base = state[r].base
    BY <1>0 DEF Batch, AddTo, State
  <2> QED  BY <1>0, <1>1, <2>1, <2>2
<1>5. ASSUME NEW r \in Replica, NEW id \in Id, Remove(r, id) PROVE Kept
  <2>1. PICK c \in state[r].contribs :
          state' = [state EXCEPT ![r] = RemoveFrom(state[r], c)] /\ snapshots' = snapshots
    BY <1>5 DEF Remove
  <2>2. RemoveFrom(state[r], c).base = state[r].base
    BY <1>0 DEF RemoveFrom, State
  <2> QED  BY <1>0, <1>1, <2>1, <2>2
<1>6. ASSUME NEW r \in Replica, NEW m \in Sources, Merge(r, m) PROVE Kept
  <2>1. /\ state' = [state EXCEPT ![r] = Merged(state[r], m.body)]
        /\ snapshots' = snapshots
    BY <1>6 DEF Merge
  <2>2. Merged(state[r], m.body).base \in {b, NoBase}
    BY <1>0 DEF Merged
  <2> QED  BY <1>0, <1>1, <2>1, <2>2
<1>7. ASSUME NEW r \in Replica, NEW m \in Sources, NEW n \in Sources, MergeMany(r, m, n)
      PROVE  Kept
  <2>1. /\ state' = [state EXCEPT ![r] = MergedMany(state[r], m.body, n.body)]
        /\ snapshots' = snapshots
    BY <1>7 DEF MergeMany
  <2>2. MergedMany(state[r], m.body, n.body).base \in {b, NoBase}
    BY <1>0 DEF MergedMany
  <2> QED  BY <1>0, <1>1, <2>1, <2>2
<1>8. ASSUME NEW r \in Replica, Read(r) PROVE Kept
  BY <1>0, <1>8 DEF Read
<1>9. ASSUME NEW r \in Replica, TakeSnapshot(r) PROVE Kept
  <2>1. /\ state' = state
        /\ snapshots' = snapshots \cup {[body |-> state[r], seen |-> seen[r]]}
    BY <1>9 DEF TakeSnapshot
  <2>2. \A m \in snapshots' : m.body.base \in {b, NoBase}
    BY <1>0, <2>1
  <2> QED  BY <1>0, <2>1, <2>2
<1>10. ASSUME UNCHANGED vars PROVE Kept
  BY <1>0, <1>10 DEF vars
<1>11. Kept
  BY <1>3, <1>4, <1>5, <1>6, <1>7, <1>8, <1>9, <1>10 DEF Next
<1> QED  BY <1>0, <1>11 DEF BaseInv, Based, States

LEMMA SpecBase ==
    ASSUME NEW CONSTANT b, OneBaseOf(b)
    PROVE  Spec => [](SoundInv /\ BaseInv(b))
<1>1. Init => BaseInv(b)
  BY ConstantsAssumption DEF ConstantsAssumption, Init, BaseInv, Based, OneBaseOf, States, State
<1>2. BaseInv(b) /\ SoundInv /\ SoundInv' /\ [Next]_vars => BaseInv(b)'
  BY NextBase
<1> QED  BY <1>1, <1>2, SpecSound, PTL DEF Spec

-----------------------------------------------------------------------------
LEMMA StatesClean ==
    ASSUME SoundInv, NEW s \in States
    PROVE  Clean(s)
BY DEF SoundInv, States, Sound, Clean

LEMMA VisiblyEqual ==
    ASSUME NEW s, NEW o, Visibly(s).models = Visibly(o).models, s.base = o.base
    PROVE  Visibly(s) = Visibly(o)
BY DEF Visibly

LEMMA Commuting ==
    ASSUME Policy = "highest_version", NEW CONSTANT b, NEW s, NEW o, Clean(s), Clean(o),
           Based(s, b), Based(o, b)
    PROVE  /\ Visibly(Merged(s, o)) = Visibly(Merged(o, s))
           /\ Visibly(Merged(s, s)) = Visibly(s)
           /\ Visibly(Merged(Merged(s, o), o)) = Visibly(Merged(s, o))
<1> DEFINE P == Alive(s.contribs \cup o.contribs, s.tombs \cup o.tombs)
<1>0. P \in SUBSET Contribution
  BY DEF Alive, Clean
<1>1. Visibly(Merged(s, o)) = Visibly(Merged(o, s))
  <2>1. Best(Merged(s, o).contribs, P)
    BY MergedIsBest
  <2>2. Best(Merged(o, s).contribs, P)
    <3>1. P = Alive(o.contribs \cup s.contribs, o.tombs \cup s.tombs)
      BY DEF Alive
    <3> HIDE DEF P
    <3> QED  BY <3>1, MergedIsBest
  <2>3. Visibly(Merged(s, o)).models = Visibly(Merged(o, s)).models
    BY <1>0, <2>1, <2>2, MergedIsBest, BestLookSame
  <2>4. Merged(s, o).base = Merged(o, s).base
    BY DEF Merged, Based
  <2> QED  BY <2>3, <2>4, VisiblyEqual
<1>2. Visibly(Merged(s, s)) = Visibly(s)
  <2> DEFINE A == Alive(s.contribs, s.tombs)
  <2>1. Best(Merged(s, s).contribs, A)
    <3>1. A = Alive(s.contribs \cup s.contribs, s.tombs \cup s.tombs)
      BY DEF Alive
    <3> HIDE DEF A
    <3> QED  BY <3>1, MergedIsBest
  <2>2. Best(A, A) /\ A \in SUBSET Contribution
    BY CleanIsBest
  <2>3. Visibly(s).models = Shown(A)
    BY DEF Visibly, Shown
  <2>4. Visibly(Merged(s, s)).models = Visibly(s).models
    <3> HIDE DEF A
    <3> QED  BY <2>1, <2>2, <2>3, MergedIsBest, BestLookSame
  <2>5. Merged(s, s).base = s.base
    BY DEF Merged
  <2> QED  BY <2>4, <2>5, VisiblyEqual
<1>3. Visibly(Merged(Merged(s, o), o)) = Visibly(Merged(s, o))
  <2> DEFINE M == Merged(s, o)
             B == Alive(o.contribs, s.tombs \cup o.tombs)
  <2>1. Best(M.contribs, P) /\ Clean(M) /\ M.tombs = s.tombs \cup o.tombs
    BY MergedIsBest
  <2>2. Alive(M.contribs, M.tombs) = M.contribs
    BY <2>1 DEF Clean, Alive
  <2>3. Best(B, B) /\ B \in SUBSET Contribution
    BY CleanIsBest
  <2>4. Merged(M, o).contribs = UnionOf(M.contribs, B)
    <3>1. M.tombs \cup o.tombs = s.tombs \cup o.tombs
      BY <2>1
    <3> HIDE DEF M
    <3> QED  BY <2>1, <2>2, <3>1 DEF Merged
  <2>5. P \cup B = P
    BY DEF Alive
  <2>6. Best(Merged(M, o).contribs, P)
    <3> HIDE DEF M, P, B
    <3> QED  BY <1>0, <2>1, <2>3, <2>4, <2>5, UnionIsBest
  <2>7. Visibly(Merged(M, o)).models = Shown(Merged(M, o).contribs)
    BY <2>1, MergedIsBest
  <2>8. Visibly(M).models = Shown(M.contribs)
    BY MergedIsBest
  <2>9. Visibly(Merged(M, o)).models = Visibly(M).models
    <3> HIDE DEF M, P, B
    <3> QED  BY <1>0, <2>1, <2>6, <2>7, <2>8, BestLookSame
  <2>10. Merged(M, o).base = M.base
    BY DEF Merged
  <2> QED  BY <2>9, <2>10, VisiblyEqual
<1> QED  BY <1>1, <1>2, <1>3

LEMMA ChainIsBest ==
    ASSUME Policy = "highest_version", NEW s, NEW o, NEW p,
           Clean(s), Clean(o), Clean(p),
           NoRemovedWinner(s.contribs \cup o.contribs \cup p.contribs,
                           s.tombs \cup o.tombs \cup p.tombs)
    PROVE  /\ Best(Merged(Merged(s, o), p).contribs,
                   Alive(s.contribs \cup o.contribs \cup p.contribs,
                         s.tombs \cup o.tombs \cup p.tombs))
           /\ Visibly(Merged(Merged(s, o), p)).models
                = Shown(Merged(Merged(s, o), p).contribs)
<1> DEFINE U == s.tombs \cup o.tombs \cup p.tombs
           M == Merged(s, o)
           P == s.contribs \cup o.contribs
           C == Alive(p.contribs, U)
<1>1. /\ Best(M.contribs, Alive(P, s.tombs \cup o.tombs)) /\ Clean(M)
      /\ M.tombs = s.tombs \cup o.tombs
  BY MergedIsBest
<1>2. NoRemovedWinner(P, U)
  BY DEF NoRemovedWinner
<1>3. Best(Alive(M.contribs, U), Alive(P, U))
  <2>1. s.tombs \cup o.tombs \subseteq U
    OBVIOUS
  <2> HIDE DEF U, M, P
  <2> QED  BY <1>1, <1>2, <2>1, AliveIsBest
<1>4. Merged(M, p).contribs = UnionOf(Alive(M.contribs, U), C)
  <2> HIDE DEF M
  <2> QED  BY <1>1 DEF Merged
<1>5. Best(C, C) /\ C \in SUBSET Contribution
  BY CleanIsBest
<1>6. Alive(P, U) \in SUBSET Contribution
  BY DEF Alive, Clean
<1>7. Alive(P, U) \cup C = Alive(P \cup p.contribs, U)
  BY DEF Alive
<1>8. Visibly(Merged(M, p)).models = Shown(Merged(M, p).contribs)
  BY <1>1, MergedIsBest
<1>9. Best(Merged(M, p).contribs, Alive(P \cup p.contribs, U))
  <2> HIDE DEF U, M, P, C
  <2>1. Best(UnionOf(Alive(M.contribs, U), C), Alive(P, U) \cup C)
    BY <1>3, <1>5, <1>6, UnionIsBest
  <2> QED  BY <1>4, <1>7, <2>1
<1> QED  BY <1>8, <1>9

LEMMA Grouping ==
    ASSUME Policy = "highest_version", NEW CONSTANT b, NEW s, NEW o, NEW p,
           Clean(s), Clean(o), Clean(p),
           Based(s, b), Based(o, b), Based(p, b),
           NoRemovedWinner(s.contribs \cup o.contribs \cup p.contribs,
                           s.tombs \cup o.tombs \cup p.tombs)
    PROVE  /\ Visibly(Merged(s, Merged(o, p))) = Visibly(Merged(Merged(s, o), p))
           /\ Visibly(MergedMany(s, o, p)) = Visibly(Merged(Merged(s, o), p))
<1> DEFINE K == s.contribs \cup o.contribs \cup p.contribs
           U == s.tombs \cup o.tombs \cup p.tombs
           chain == Merged(Merged(s, o), p)
           right == Merged(s, Merged(o, p))
           turned == Merged(Merged(o, p), s)
           many == MergedMany(s, o, p)
<1>0. Alive(K, U) \in SUBSET Contribution
  BY DEF Alive, Clean
<1>1. Best(chain.contribs, Alive(K, U)) /\ Visibly(chain).models = Shown(chain.contribs)
  BY ChainIsBest
<1>2. Best(turned.contribs, Alive(K, U)) /\ Visibly(turned).models = Shown(turned.contribs)
  <2>1. /\ K = o.contribs \cup p.contribs \cup s.contribs
        /\ U = o.tombs \cup p.tombs \cup s.tombs
    OBVIOUS
  <2>2. NoRemovedWinner(K, U)
    OBVIOUS
  <2> HIDE DEF K, U
  <2> QED  BY <2>1, <2>2, ChainIsBest
<1>3. Visibly(right) = Visibly(turned)
  <2>1. Clean(Merged(o, p)) /\ Based(Merged(o, p), b)
    BY MergedIsBest DEF Merged, Based
  <2> QED  BY <2>1, Commuting
<1>4. Best(many.contribs, Alive(K, U)) /\ Visibly(many).models = Shown(many.contribs)
  BY MergedManyIsBest
<1>5. turned.base = chain.base /\ many.base = chain.base
  BY DEF Merged, MergedMany, Based
<1> HIDE DEF K, U, chain, right, turned, many
<1>6. Visibly(turned).models = Visibly(chain).models
  BY <1>0, <1>1, <1>2, BestLookSame
<1>7. Visibly(many).models = Visibly(chain).models
  BY <1>0, <1>1, <1>4, BestLookSame
<1>8. Visibly(turned) = Visibly(chain) /\ Visibly(many) = Visibly(chain)
  BY <1>5, <1>6, <1>7, VisiblyEqual
<1> QED  BY <1>3, <1>8 DEF chain, right, turned, many

(* Replicas that are built for one base model, or for none, may exchange    *)
(* states in any order, repeatedly, in pairs or all at once: under          *)
(* HIGHEST_VERSION what they show is the same, unless a removed             *)
(* contribution superseded one that nobody removed.                         *)
THEOREM MergesAreOrderFree ==
    ASSUME Policy = "highest_version", NEW CONSTANT b, OneBaseOf(b)
    PROVE  Spec => []OrderFree
<1>1. ASSUME SoundInv, BaseInv(b) PROVE OrderFree
  <2>1. \A s \in States : Clean(s) /\ Based(s, b)
    BY <1>1, StatesClean DEF BaseInv, Based
  <2>2. MergeCommutes
    <3> SUFFICES ASSUME NEW s \in States, NEW o \in States
                 PROVE  /\ Visibly(Merged(s, o)) = Visibly(Merged(o, s))
                        /\ Visibly(Merged(s, s)) = Visibly(s)
                        /\ Visibly(Merged(Merged(s, o), o)) = Visibly(Merged(s, o))
      BY DEF MergeCommutes
    <3>1. /\ Clean(s) /\ Based(s, b)
          /\ Clean(o) /\ Based(o, b)
      BY <2>1
    <3> QED  BY <3>1, Commuting
  <2>3. MergeGroups
    <3> SUFFICES ASSUME NEW s \in States, NEW o \in States, NEW p \in States,
                        NoRemovedWinner(s.contribs \cup o.contribs \cup p.contribs,
                                        s.tombs \cup o.tombs \cup p.tombs)
                 PROVE  /\ Visibly(Merged(s, Merged(o, p))) = Visibly(Merged(Merged(s, o), p))
                        /\ Visibly(MergedMany(s, o, p)) = Visibly(Merged(Merged(s, o), p))
      BY DEF MergeGroups
    <3>1. /\ Clean(s) /\ Based(s, b)
          /\ Clean(o) /\ Based(o, b)
          /\ Clean(p) /\ Based(p, b)
      BY <2>1
    <3>2. NoRemovedWinner(s.contribs \cup o.contribs \cup p.contribs,
                          s.tombs \cup o.tombs \cup p.tombs)
      OBVIOUS
    <3> QED  BY <3>1, <3>2, Grouping
  <2> QED  BY <2>2, <2>3 DEF OrderFree
<1>2. SoundInv /\ BaseInv(b) => OrderFree
  BY <1>1
<1> QED  BY <1>2, SpecBase, PTL

=============================================================================
