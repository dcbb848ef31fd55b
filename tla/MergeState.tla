----------------------------- MODULE MergeState -----------------------------
(***************************************************************************)
(* Replicas of CRDTMergeState (crdt_merge/model/crdt_state.py): a set of   *)
(* model contributions under an OR-Set of tags, merged in place.           *)
(*                                                                         *)
(* A replica is a record of its contributions (at most one per model id),  *)
(* its tombstones and its base model.  Replicas exchange snapshots, the    *)
(* to_dict form of the whole replica.  The transport is the caller's: a    *)
(* snapshot may be merged late, twice, in any order, or never.             *)
(*                                                                         *)
(* seen and gone are history variables: the contributions that a replica   *)
(* has accepted or received, and those it had seen of a model id when the  *)
(* model id was removed there.                                             *)
(***************************************************************************)
EXTENDS Integers, FiniteSets

CONSTANTS
    Replica,
    Id,            \* model ids
    Version,       \* the versions users pass to add()
    Content,       \* tensor and weight, integers in the order of merkle_hash
    Time,          \* time.time() at the adding process
    Base,          \* base models
    NoBase,        \* base=None
    InitialBase,   \* [Replica -> Base \cup {NoBase}]: base= at construction
    Policy,        \* conflict_resolution
    BatchMayRaise, \* TRUE: add_batch() meets items that raise
    MaxAdds,       \* bound: accepted add operations
    MaxSnapshots   \* bound: snapshots taken

ASSUME ConstantsAssumption ==
    /\ Version \subseteq Nat
    /\ Content \subseteq Int
    /\ Time \subseteq Int
    /\ InitialBase \in [Replica -> Base \cup {NoBase}]
    /\ Policy \in {"highest_version", "last_write_wins", "first_write_wins"}
    /\ BatchMayRaise \in BOOLEAN
    /\ MaxAdds \in Nat
    /\ MaxSnapshots \in Nat

VARIABLES
    state,      \* state[r]: _contributions, _tombstones and base of r
    cache,      \* cache[r]: {} when invalid, {S} when _active_cache is S
    nextTag,    \* the next uuid
    snapshots,  \* to_dict() forms that were sent
    seen,
    gone

vars == <<state, cache, nextTag, snapshots, seen, gone>>

Tag == 1 .. MaxAdds

Contribution ==
    [id: Id, version: Version, content: Content, time: Time, tag: Tag]

State == [contribs: SUBSET Contribution, tombs: SUBSET Tag,
          base: Base \cup {NoBase}]

(* The state keeps its type, a replica has one contribution per model id,   *)
(* and there is one cache.                                                  *)
TypeOK ==
    /\ state \in [Replica -> State]
    /\ \A r \in Replica : \A c, d \in state[r].contribs : c.id = d.id => c = d
    /\ cache \in [Replica -> SUBSET SUBSET Contribution]
    /\ \A r \in Replica : \A a, b \in cache[r] : a = b
    /\ nextTag \in 1 .. MaxAdds + 1
    /\ snapshots \subseteq [body: State, seen: SUBSET Contribution]
    /\ seen \in [Replica -> SUBSET Contribution]
    /\ gone \in [Replica -> SUBSET Contribution]

Init ==
    /\ state = [r \in Replica |-> [contribs |-> {}, tombs |-> {},
                                   base |-> InitialBase[r]]]
    /\ cache = [r \in Replica |-> {}]
    /\ nextTag = 1
    /\ snapshots = {}
    /\ seen = [r \in Replica |-> {}]
    /\ gone = [r \in Replica |-> {}]

-----------------------------------------------------------------------------
(* Conflict resolution *)

(* Ties between equal versions keep what is there. *)
ReplacesNoTiebreak(new, old) ==
    \/ Policy = "highest_version" /\ new.version > old.version
    \/ Policy = "last_write_wins" /\ new.time > old.time

(* The comparison of hashes is not confined to equal versions. *)
ReplacesEither(new, old) ==
    \/ /\ Policy = "highest_version"
       /\ new.version > old.version \/ new.content < old.content
    \/ Policy = "last_write_wins" /\ new.time > old.time

(* A merge lets the contribution new of the other side replace old. *)
Replaces(new, old) ==
    \/ /\ Policy = "highest_version"
       /\ \/ new.version > old.version
          \/ new.version = old.version /\ new.content < old.content
    \/ Policy = "last_write_wins" /\ new.time > old.time

(* An older version replaces a newer one. *)
OverwritesAnyVersion(new, old) == Policy # "first_write_wins"

(* A local add replaces what the replica holds of the same model id. *)
Overwrites(new, old) ==
    \/ Policy = "highest_version" /\ new.version > old.version
    \/ Policy = "last_write_wins"

Accepts(s, c) == \A d \in s.contribs : d.id = c.id => Overwrites(c, d)

(* The contribution that the model id had is kept beside the new one. *)
AddToBeside(s, c) ==
    IF Accepts(s, c) THEN [s EXCEPT !.contribs = @ \cup {c}, !.tombs = @ \ {c.tag}]
    ELSE s

(* The effect of add() on replica state s *)
AddTo(s, c) ==
    IF Accepts(s, c)
    THEN [s EXCEPT !.contribs = {d \in @ : d.id # c.id} \cup {c},
                   !.tombs = @ \ {c.tag}]
    ELSE s

(* The contribution goes without a tombstone. *)
RemoveFromUntracked(s, c) == [s EXCEPT !.contribs = @ \ {c}]

(* The effect of remove() on replica state s, which holds c *)
RemoveFrom(s, c) ==
    [s EXCEPT !.contribs = @ \ {c}, !.tombs = @ \cup {c.tag}]

Alive(contribs, tombs) == {c \in contribs : c.tag \notin tombs}

(* The contributions of theirs join mine, one per model id. *)
UnionOf(mine, theirs) ==
    {c \in mine : \A d \in theirs : d.id = c.id => ~Replaces(d, c)}
        \cup {d \in theirs : \A c \in mine : c.id = d.id => Replaces(d, c)}

(* Contributions that the other side has removed stay. *)
MergedKeepsRemoved(s, o) ==
    [contribs |-> UnionOf(s.contribs, Alive(o.contribs, s.tombs \cup o.tombs)),
     tombs |-> s.tombs \cup o.tombs,
     base |-> IF s.base = NoBase THEN o.base ELSE s.base]

(* CRDTMergeState.merge *)
Merged(s, o) ==
    LET tombs == s.tombs \cup o.tombs
    IN  [contribs |-> UnionOf(Alive(s.contribs, tombs), Alive(o.contribs, tombs)),
         tombs |-> tombs,
         base |-> IF s.base = NoBase THEN o.base ELSE s.base]

(* The loop over the contributions leaves the first state out. *)
MergedManyButFirst(s, o, p) ==
    LET tombs == s.tombs \cup o.tombs \cup p.tombs
    IN  [contribs |-> UnionOf(Alive(o.contribs, tombs), Alive(p.contribs, tombs)),
         tombs |-> tombs,
         base |-> s.base]

(* CRDTMergeState.merge_many, of three states *)
MergedMany(s, o, p) ==
    LET tombs == s.tombs \cup o.tombs \cup p.tombs
    IN  [contribs |-> UnionOf(UnionOf(Alive(s.contribs, tombs),
                                      Alive(o.contribs, tombs)),
                              Alive(p.contribs, tombs)),
         tombs |-> tombs,
         base |-> CASE s.base # NoBase -> s.base
                    [] s.base = NoBase /\ o.base # NoBase -> o.base
                    [] OTHER -> p.base]

-----------------------------------------------------------------------------
(* Operations of a replica *)

(* What users add: the tag is the next uuid, or the one after. *)
NewContributions(tag) ==
    [id: Id, version: Version, content: Content, time: Time, tag: {tag}]

CanAdd(k) == nextTag + k <= MaxAdds + 1

Add(r) ==
    /\ CanAdd(1)
    /\ \E c \in NewContributions(nextTag) :
         /\ Accepts(state[r], c)
         /\ state' = [state EXCEPT ![r] = AddTo(@, c)]
         /\ seen' = [seen EXCEPT ![r] = @ \cup {c}]
    /\ cache' = [cache EXCEPT ![r] = {}]
    /\ nextTag' = nextTag + 1
    /\ UNCHANGED <<snapshots, gone>>

(* add_batch drops the cache after its loop, if an item was inserted and    *)
(* none raised.                                                             *)
BatchCache(r, s, c, d, raises) ==
    IF raises \/ ~(Accepts(s, c) \/ Accepts(AddTo(s, c), d))
    THEN cache[r] ELSE {}

(* The effect of add_batch() of c and d on replica state s.  With raises    *)
(* the item after c raises instead: another type, a short tuple, or a       *)
(* tensor of another shape.                                                 *)
Batch(s, c, d, raises) ==
    IF raises THEN AddTo(s, c) ELSE AddTo(AddTo(s, c), d)

(* Those of c and d that the batch inserts, if only for a while *)
Inserted(s, c, d, raises) ==
    ({c} \cap AddTo(s, c).contribs) \cup ({d} \cap Batch(s, c, d, raises).contribs)

AddBatch(r) ==
    /\ CanAdd(2)
    /\ \E c \in NewContributions(nextTag), d \in NewContributions(nextTag + 1),
          raises \in {FALSE, BatchMayRaise} :
         /\ state' = [state EXCEPT ![r] = Batch(@, c, d, raises)]
         /\ seen' = [seen EXCEPT ![r] = @ \cup Inserted(state[r], c, d, raises)]
         /\ cache' = [cache EXCEPT ![r] = BatchCache(r, state[r], c, d, raises)]
    /\ nextTag' = nextTag + 2
    /\ UNCHANGED <<snapshots, gone>>

(* remove() leaves the cache as it is. *)
RemoveStaleCache(r, id) ==
    /\ \E c \in state[r].contribs :
         /\ c.id = id
         /\ state' = [state EXCEPT ![r] = RemoveFrom(@, c)]
    /\ gone' = [gone EXCEPT ![r] = @ \cup {c \in seen[r] : c.id = id}]
    /\ UNCHANGED <<cache, nextTag, snapshots, seen>>

Remove(r, id) ==
    /\ \E c \in state[r].contribs :
         /\ c.id = id
         /\ state' = [state EXCEPT ![r] = RemoveFrom(@, c)]
    /\ gone' = [gone EXCEPT ![r] = @ \cup {c \in seen[r] : c.id = id}]
    /\ cache' = [cache EXCEPT ![r] = {}]
    /\ UNCHANGED <<nextTag, snapshots, seen>>

Active(r) == Alive(state[r].contribs, state[r].tombs)

(* model_ids, size, state_hash, resolve, ... through _active_contributions *)
Read(r) ==
    /\ cache[r] = {}
    /\ cache' = [cache EXCEPT ![r] = {Active(r)}]
    /\ UNCHANGED <<state, nextTag, snapshots, seen, gone>>

(* What a reader of r gets *)
Visible(r) == IF cache[r] = {} THEN Active(r) ELSE UNION cache[r]

TakeSnapshot(r) ==
    /\ Cardinality(snapshots) < MaxSnapshots
    /\ snapshots' = snapshots \cup {[body |-> state[r], seen |-> seen[r]]}
    /\ UNCHANGED <<state, cache, nextTag, seen, gone>>

(* What can be merged: a live replica, or a snapshot of one *)
Sources ==
    snapshots \cup {[body |-> state[q], seen |-> seen[q]] : q \in Replica}

Merge(r, m) ==
    /\ state' = [state EXCEPT ![r] = Merged(@, m.body)]
    /\ seen' = [seen EXCEPT ![r] = @ \cup m.seen]
    /\ cache' = [cache EXCEPT ![r] = {}]
    /\ UNCHANGED <<nextTag, snapshots, gone>>

(* r = merge_many([r, m, n]) *)
MergeMany(r, m, n) ==
    /\ state' = [state EXCEPT ![r] = MergedMany(@, m.body, n.body)]
    /\ seen' = [seen EXCEPT ![r] = @ \cup m.seen \cup n.seen]
    /\ cache' = [cache EXCEPT ![r] = {}]
    /\ UNCHANGED <<nextTag, snapshots, gone>>

Next ==
    \E r \in Replica :
        \/ Add(r)
        \/ AddBatch(r)
        \/ \E id \in Id : Remove(r, id)
        \/ Read(r)
        \/ TakeSnapshot(r)
        \/ \E m \in Sources : Merge(r, m)
        \/ \E m, n \in Sources : MergeMany(r, m, n)

Spec == Init /\ [][Next]_vars

-----------------------------------------------------------------------------
(* Properties *)

(* What __eq__ and state_hash compare, and the base that resolve() uses *)
Visibly(s) ==
    [models |-> {<<c.id, c.version, c.content>> : c \in Alive(s.contribs, s.tombs)},
     base |-> s.base]

States == {state[r] : r \in Replica} \cup {m.body : m \in snapshots}

(* No replica holds a contribution that it has a tombstone for, so what is  *)
(* serialised, compared and resolved is the same set.                       *)
NoTombstonedContribution ==
    \A s \in States : \A c \in s.contribs : c.tag \notin s.tombs

(* A tombstone is never forgotten: whatever is merged, in any order.        *)
TombstonesGrow ==
    [][\A r \in Replica : state[r].tombs \subseteq state'[r].tombs]_vars

(* What a valid cache shows is what the replica holds, after any sequence   *)
(* of adds, batches, removes and merges.                                    *)
CacheCoherent == \A r \in Replica : Visible(r) = Active(r)

(* d is at least as good as c under the same model id. *)
Covers(d, c) == d.id = c.id /\ ~Replaces(c, d)

(* Nothing that was ever accepted or received is lost without a reason: it  *)
(* is held, or it was removed, or one that covers it is held or was.        *)
NothingLost ==
    \A r \in Replica : \A c \in seen[r] :
        \E d \in seen[r] :
            Covers(d, c) /\ (d \in state[r].contribs \/ d.tag \in state[r].tombs)

(* No contribution in S that is removed covers one that is not. *)
NoRemovedWinner(S, tombs) ==
    \A c, d \in S : Covers(d, c) /\ d.tag \in tombs => c.tag \in tombs

(* Replicas that received the same contributions and know the same          *)
(* tombstones show the same models, unless a removed contribution           *)
(* supersedes one that nobody removed.                                      *)
Convergence ==
    \A r, q \in Replica :
        /\ seen[r] = seen[q]
        /\ state[r].tombs = state[q].tombs
        /\ NoRemovedWinner(seen[r], state[r].tombs)
        => Visibly(state[r]).models = Visibly(state[q]).models

(* "Commutativity and idempotency" of merge on the states that exist        *)
MergeCommutes ==
    \A s, o \in States :
        /\ Visibly(Merged(s, o)) = Visibly(Merged(o, s))
        /\ Visibly(Merged(s, s)) = Visibly(s)
        /\ Visibly(Merged(Merged(s, o), o)) = Visibly(Merged(s, o))

(* "Associativity" of merge, and merge_many "identical to a chain" of       *)
(* merges, on the states that exist where no removed contribution           *)
(* supersedes one that nobody removed.                                      *)
MergeGroups ==
    \A s, o, p \in States :
        NoRemovedWinner(s.contribs \cup o.contribs \cup p.contribs,
                        s.tombs \cup o.tombs \cup p.tombs) =>
            LET chain == Visibly(Merged(Merged(s, o), p))
            IN  /\ Visibly(Merged(s, Merged(o, p))) = chain
                /\ Visibly(MergedMany(s, o, p)) = chain

(* Replicas may exchange states in any order and grouping, repeatedly, or   *)
(* all at once.                                                             *)
OrderFree == MergeCommutes /\ MergeGroups

(* Once a model id was removed at a replica, what comes back under it is an *)
(* add that the replica had not seen, or a version that a removed one had   *)
(* superseded.                                                              *)
RemoveKeepsOut ==
    \A r \in Replica : \A c \in Active(r) \cap gone[r] :
        \E d \in seen[r] : d # c /\ Covers(d, c) /\ d.tag \in state[r].tombs

(* "A newer add() with the same model_id will override the remove": an      *)
(* older one, seen before the remove, does not.                             *)
RemoveSticks ==
    \A r \in Replica : Active(r) \cap gone[r] = {}

=============================================================================
