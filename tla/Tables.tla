------------------------------- MODULE Tables -------------------------------
(***************************************************************************)
(* Tables of rows as operators: merge() of crdt_merge/dataframe.py without *)
(* a schema, for prefer = "latest".  A table is a sequence of rows, a row  *)
(* has a key and a dict of its other columns.  Keys are texts.  Values     *)
(* that Python holds equal (1 and 1.0) are one value here; different ones  *)
(* may have the same str(), as 1 and "1" do.  No timestamp is NaN, and no  *)
(* text is that of None.                                                   *)
(***************************************************************************)
EXTENDS Dicts, Listing, SequencesExt, FiniteSetsExt

CONSTANTS
    Spelling,   \* values of the key column, integers in the order of strings
    NFC,        \* [Spelling -> Spelling]: the normal form of a text
    NoKey,      \* None in the key column
    Value,      \* values of the other columns
    None,       \* None in another column
    Text,       \* [Value -> Int]: the place of str() in the order of strings
    Norm,       \* [Value -> Value]: the NFC of a text, minus infinity for NaN
    Moment      \* [Value -> Int]: _parse_timestamp(), 0 where it finds no time

ASSUME TablesAssumption ==
    /\ Spelling \subseteq Int /\ NoKey \notin Spelling
    /\ NFC \in [Spelling -> Spelling]
    /\ \A k \in Spelling : NFC[NFC[k]] = NFC[k]
    /\ None \notin Value
    /\ Text \in [Value -> Int] /\ Norm \in [Value -> Value] /\ Moment \in [Value -> Int]

TimeColumn == "_ts"

(* A list of rows, each with a text or None in the key column *)
IsTable(rows) ==
    /\ rows \in Seq(ToSet(rows))
    /\ \A r \in ToSet(rows) :
         /\ r.key \in Spelling \cup {NoKey}
         /\ \A c \in DOMAIN r.cells : r.cells[c] \in Value \cup {None}

Columns(rows) == UNION {DOMAIN r.cells : r \in ToSet(rows)}

Unkeyed(rows) == At(rows, {i \in DOMAIN rows : rows[i].key = NoKey})

KeysOf(rows) == {NFC[r.key] : r \in {s \in ToSet(rows) : s.key # NoKey}}

(* The index keeps the last row of a key. *)
Row(rows, k) == rows[Max({i \in DOMAIN rows : rows[i].key # NoKey /\ NFC[rows[i].key] = k})]

(* Timestamps are looked at if the caller names their column, or if the     *)
(* first rows of both tables have it.                                       *)
IsTimed(a, b, named) ==
    \/ named
    \/ a # <<>> /\ b # <<>> /\ \A r \in {a[1], b[1]} : TimeColumn \in DOMAIN r.cells

Stamp(row, timed) ==
    IF timed /\ LookUp(row.cells, TimeColumn, None) # None
    THEN Moment[row.cells[TimeColumn]] ELSE 0

(* LWWRegister.merge with str(value) as node, and LWW.resolve: the later    *)
(* value, or the one with the greater text                                  *)
Latest(v, w, atV, atW) ==
    IF atV > atW \/ (atV = atW /\ Text[v] >= Text[w]) THEN v ELSE w

(* Without timestamps the texts of the normal forms decide.                 *)
MergeCell(v, w, timed, atV, atW) ==
    IF v = None THEN w ELSE IF w = None THEN v
    ELSE IF Norm[v] = Norm[w] THEN v
    ELSE IF timed THEN Latest(v, w, atV, atW)
    ELSE IF Text[Norm[v]] >= Text[Norm[w]] THEN v ELSE w

MergeRows(r, s, columns, timed) ==
    [key |-> r.key,
     cells |-> [c \in columns |->
                 MergeCell(LookUp(r.cells, c, None), LookUp(s.cells, c, None), timed,
                           Stamp(r, timed), Stamp(s, timed))]]

(* What _row_hash hashes *)
Printed(row) ==
    [key |-> row.key,
     cells |-> [c \in DOMAIN row.cells |->
                 IF row.cells[c] = None THEN None ELSE Text[row.cells[c]]]]

(* _dedup_records: of rows with the same texts the first stays. *)
Dedup(rows) ==
    At(rows, {i \in DOMAIN rows : \A j \in 1 .. i - 1 : Printed(rows[j]) # Printed(rows[i])})

(* merge(): rows of both by key, rows of one as they are, then those        *)
(* without a key                                                            *)
MergeTables(a, b, named) ==
    LET columns == Columns(a) \cup Columns(b)
        merged(k) ==
            IF k \notin KeysOf(b) THEN Row(a, k)
            ELSE IF k \notin KeysOf(a) THEN Row(b, k)
            ELSE MergeRows(Row(a, k), Row(b, k), columns, IsTimed(a, b, named))
        order == InOrder(KeysOf(a) \cup KeysOf(b))
    IN Dedup([i \in DOMAIN order |-> merged(order[i])] \o Unkeyed(a) \o Unkeyed(b))

(* What row.get() says of the columns, None or missing being the same       *)
Shown(row) ==
    [key |-> row.key, cells |-> Restrict(row.cells, {c \in DOMAIN row.cells : row.cells[c] # None})]

=============================================================================
