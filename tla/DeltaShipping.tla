--------------------------- MODULE DeltaShipping ---------------------------
(***************************************************************************)
(* A DeltaStore of crdt_merge/delta.py that ships its deltas to a receiver *)
(* with apply_delta, through intermediaries that may compose them.  The    *)
(* receiver starts with the records of the first ingest, for which the     *)
(* store returns no delta.  Deltas arrive in order; the last one may       *)
(* arrive again before the next (nothing in the code looks at versions).   *)
(*                                                                         *)
(* Records are functions from keys to contents.  A delta names removed     *)
(* keys by str(key), and its receiver pops that text and int() of it: of   *)
(* the name of a float neither is there, and that of the text "01" takes   *)
(* the integer 1 too.                                                      *)
(*                                                                         *)
(* Deltas are composed with the name of the key column, so by str(key).    *)
(* Without it compose_deltas tells records apart by their contents, and    *)
(* what it makes is not modelled: a record that is added and then modified *)
(* is in such a composition twice, and apply_delta keeps the older one.    *)
(***************************************************************************)
EXTENDS Dicts, Integers, SequencesExt

CONSTANTS
    RecordKey,    \* keys of records
    Content,      \* what else a record holds, told apart by _record_hash
    Str,          \* [RecordKey -> names], str() of a key
    Pops,         \* [names -> SUBSET RecordKey], the keys equal to a name or to int() of it
    MaxRecords,   \* bound: records of an ingest
    MaxVersion    \* bound: versions of the store

VARIABLES
    current,   \* _current of the store
    version,   \* _version of the store
    wire,      \* deltas on their way, the oldest first
    last,      \* the delta that was applied last
    receiver,  \* the receiver's records
    emptied,   \* history: the store was empty after its first ingest
    seen       \* history: all keys that the store has held

deltaVars == <<current, version, wire, last, receiver, emptied, seen>>

Records ==
    UNION {[keys -> Content] : keys \in {ks \in SUBSET RecordKey : Cardinality(ks) <= MaxRecords}}

NoDelta == [added |-> EmptyDict, modified |-> EmptyDict, removed |-> {}, version |-> 0]


DeltaInit ==
    /\ current = EmptyDict /\ version = 0
    /\ wire = <<>> /\ last = NoDelta
    /\ receiver = EmptyDict
    /\ emptied = FALSE /\ seen = {}

Sub(records, keys) == [k \in keys |-> records[k]]

(* compute_delta, and the same in DeltaStore.ingest *)
ComputeDelta(old, new, n) ==
    LET stays == DOMAIN new \cap DOMAIN old
    IN [added |-> Sub(new, DOMAIN new \ DOMAIN old),
        modified |-> Sub(new, {k \in stays : new[k] # old[k]}),
        removed |-> {Str[k] : k \in DOMAIN old \ DOMAIN new},
        version |-> n]

(* Over writes under, with the keys of both *)
Over(over, under) ==
    [k \in DOMAIN over \cup DOMAIN under |->
        IF k \in DOMAIN over THEN over[k] ELSE under[k]]

Without(records, names) == Sub(records, {k \in DOMAIN records : Str[k] \notin names})

Names(records) == {Str[k] : k \in DOMAIN records}

(* What is gone when names are removed *)
Popped(names) == UNION {Pops[name] : name \in names}

(* Removals, then modifications, then additions; no schema *)
ApplyDelta(records, delta) ==
    Over(delta.added,
         Over(delta.modified, Sub(records, DOMAIN records \ Popped(delta.removed))))

(* A composition tells records apart by the names of their keys. *)
Replace(over, under) == Over(over, Without(under, Names(over)))

(* A record that was added stays added when a later delta removes it. *)
AbsorbKeepsAdded(net, delta) ==
    LET removed == net.removed \cup delta.removed
        back == {k \in DOMAIN delta.modified :
                    Str[k] \in removed \cup Names(net.added)}
        added == Over(delta.added, Sub(delta.modified, back))
    IN [added |-> Replace(added, net.added),
        modified |-> Without(Replace(Sub(delta.modified, DOMAIN delta.modified \ back),
                                     Without(net.modified, delta.removed)),
                             Names(delta.added)),
        removed |-> removed \ Names(added),
        version |-> IF delta.version >= net.version THEN delta.version ELSE net.version]

(* One round of compose_deltas(..., key=key): what the delta removes leaves *)
(* the net effect; what it modifies is added if it was added or removed     *)
(* before; what it adds is no longer removed or modified.                   *)
Absorb(net, delta) ==
    LET removed == net.removed \cup delta.removed
        kept == Without(net.added, delta.removed)
        back == {k \in DOMAIN delta.modified : Str[k] \in removed \cup Names(kept)}
        added == Over(delta.added, Sub(delta.modified, back))
    IN [added |-> Replace(added, kept),
        modified |-> Without(Replace(Sub(delta.modified, DOMAIN delta.modified \ back),
                                     Without(net.modified, delta.removed)),
                             Names(delta.added)),
        removed |-> removed \ Names(added),
        version |-> IF delta.version >= net.version THEN delta.version ELSE net.version]

ComposeDeltas(deltas) == FoldLeft(Absorb, NoDelta, deltas)

-----------------------------------------------------------------------------
(* ingest(): a store without records returns no delta.  That is its first   *)
(* ingest, after which the receiver gets the records themselves, or one     *)
(* after it was emptied.                                                    *)
FirstIngest(records) ==
    /\ current = EmptyDict
    /\ current' = records
    /\ receiver' = IF emptied THEN receiver ELSE records
    /\ emptied' = (emptied \/ records = EmptyDict)
    /\ seen' = seen \cup DOMAIN records
    /\ UNCHANGED <<version, wire, last>>

Ingest(records) ==
    /\ current # EmptyDict
    /\ version < MaxVersion
    /\ current' = records
    /\ version' = version + 1
    /\ wire' = Append(wire, ComputeDelta(current, records, version + 1))
    /\ emptied' = (emptied \/ records = EmptyDict)
    /\ seen' = seen \cup DOMAIN records
    /\ UNCHANGED <<last, receiver>>

(* An intermediary sends two deltas that follow each other as one.          *)
Compose ==
    /\ \E i \in 1 .. Len(wire) - 1 :
         wire' = SubSeq(wire, 1, i - 1) \o <<ComposeDeltas(<<wire[i], wire[i + 1]>>)>>
                   \o SubSeq(wire, i + 2, Len(wire))
    /\ UNCHANGED <<current, version, last, receiver, emptied, seen>>

Apply ==
    /\ wire # <<>>
    /\ receiver' = ApplyDelta(receiver, Head(wire))
    /\ last' = Head(wire)
    /\ wire' = Tail(wire)
    /\ UNCHANGED <<current, version, emptied, seen>>

ApplyAgain ==
    /\ last # NoDelta
    /\ receiver' = ApplyDelta(receiver, last)
    /\ UNCHANGED <<current, version, wire, last, emptied, seen>>

DeltaNext ==
    \/ \E records \in Records : FirstIngest(records) \/ Ingest(records)
    \/ Compose \/ Apply \/ ApplyAgain

DeltaSpec == DeltaInit /\ [][DeltaNext]_deltaVars

-----------------------------------------------------------------------------
(* Properties *)

(* The name of some key takes another, or leaves that key. *)
Mistaken(keys) == \E k, l \in keys : (l \in Pops[Str[k]]) # (l = k)

(* The receiver ends up with the records of the store once it has applied   *)
(* what is on its way, composed by key or not, the last one twice or once.  *)
(* It does not after the store was emptied, whose next ingest returns no    *)
(* delta, or with keys, of any two times, of which the name of one takes    *)
(* another or leaves its own: the text 1 beside the number, or a float.     *)
ReceiverInStep ==
    ~emptied /\ ~Mistaken(seen) => FoldLeft(ApplyDelta, receiver, wire) = current

=============================================================================
