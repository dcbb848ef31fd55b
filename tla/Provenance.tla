----------------------------- MODULE Provenance -----------------------------
(***************************************************************************)
(* merge_with_provenance of crdt_merge/provenance.py, which keeps for each *)
(* cell where its value is from, and UnmergeEngine of                      *)
(* crdt_merge/unmerge.py, which takes one of the two sources out again.    *)
(* Both look at keys and values as they are written, and timestamps go     *)
(* through float(): merge_with_provenance raises at one that is no number. *)
(* A call that raises leaves nothing behind.                               *)
(***************************************************************************)
EXTENDS Tables

CONSTANTS
    TableA, TableB,   \* tables to merge
    NaN,              \* values that are not equal to themselves
    Number,           \* what float() makes of the values that it takes
    Both              \* the tuple of both values, in the log of a conflict

ASSUME ProvenanceAssumption ==
    /\ \A t \in TableA \cup TableB : IsTable(t)
    /\ NaN \subseteq Value /\ Both \notin Value \cup {None}
    /\ DOMAIN Number \subseteq Value /\ Number \in [DOMAIN Number -> Int]

Side == {"a", "b"}

VARIABLES
    given,    \* [a, b, named]: the tables, and whether timestamp_col is given
    joined,   \* {} or the result of the merge, [rows, log]
    cleaned   \* results of unmerge by the side that was removed

provenanceVars == <<given, joined, cleaned>>

Single(side, row) == [key |-> row.key, origin |-> side, decisions |-> EmptyDict]

(* Ties of timestamps, and tables without them, go to the first table. *)
DecideTieFirst(v, w, atV, atW) ==
    IF v = None /\ w # None THEN [source |-> "b_only", value |-> w, lost |-> None]
    ELSE IF w = None /\ v # None THEN [source |-> "a_only", value |-> v, lost |-> None]
    ELSE IF v = w /\ v \notin NaN THEN [source |-> "both_equal", value |-> v, lost |-> None]
    ELSE IF atV >= atW THEN [source |-> "conflict_resolved", value |-> v, lost |-> w]
    ELSE [source |-> "conflict_resolved", value |-> w, lost |-> v]

(* One column of two rows with the same key: the value, what it is from,    *)
(* and the value that lost.  A NaN that wins is taken for a value of        *)
(* neither, and the tuple of both for what lost.                            *)
Decide(v, w, atV, atW) ==
    IF v = None /\ w # None THEN [source |-> "b_only", value |-> w, lost |-> None]
    ELSE IF w = None /\ v # None THEN [source |-> "a_only", value |-> v, lost |-> None]
    ELSE IF v = w /\ v \notin NaN THEN [source |-> "both_equal", value |-> v, lost |-> None]
    ELSE LET won == Latest(v, w, atV, atW)
         IN [source |-> "conflict_resolved", value |-> won,
             lost |-> IF won \in NaN THEN Both ELSE IF won = v THEN w ELSE v]

(* float(row.get(timestamp_col, 0)) *)
Float(row, named) ==
    IF named /\ TimeColumn \in DOMAIN row.cells THEN Number[row.cells[TimeColumn]] ELSE 0

IsFloat(row) == TimeColumn \in DOMAIN row.cells => row.cells[TimeColumn] \in DOMAIN Number

DecideRows(r, s, columns, named) ==
    [key |-> r.key, origin |-> "merged",
     decisions |-> [c \in columns |->
                     Decide(LookUp(r.cells, c, None), LookUp(s.cells, c, None),
                            Float(r, named), Float(s, named))]]

RowOf(record) ==
    [key |-> record.key,
     cells |-> [c \in DOMAIN record.decisions |-> record.decisions[c].value]]

LastWith(key, t) == t[Max({i \in DOMAIN t : t[i].key = key})]

(* The rows of the first table that take the row of their key out of the    *)
(* index of the second                                                      *)
Meeting(a, b) ==
    {i \in DOMAIN a :
        /\ a[i].key # NoKey /\ \E s \in ToSet(b) : s.key = a[i].key
        /\ \A j \in 1 .. i - 1 : a[j].key # a[i].key}

Raises(a, b, named) ==
    named /\ \E i \in Meeting(a, b) : ~IsFloat(a[i]) \/ ~IsFloat(LastWith(a[i].key, b))

(* The remaining rows of the second table come last.  The first two rows    *)
(* that meet say which columns merged rows have.                            *)
MergeWithProvenance(a, b, named) ==
    LET meets == Meeting(a, b)
        met == {a[i].key : i \in meets}
        pair(i) == {a[i], LastWith(a[i].key, b)}
        columns == UNION {DOMAIN r.cells :
                     r \in UNION {pair(i) : i \in {j \in meets : \A l \in meets : j <= l}}}
        first == [i \in DOMAIN a |->
                    IF i \in meets
                    THEN DecideRows(a[i], LastWith(a[i].key, b), columns, named)
                    ELSE Single("a", a[i])]
        places == {j \in DOMAIN b : b[j].key \notin met
                                      /\ \A l \in 1 .. j - 1 : b[l].key # b[j].key}
        rest == [n \in 1 .. Cardinality(places) |-> LastWith(At(b, places)[n].key, b)]
    IN [rows |-> [i \in DOMAIN a |-> IF i \in meets THEN RowOf(first[i]) ELSE a[i]] \o rest,
        log |-> first \o [n \in DOMAIN rest |-> Single("b", rest[n])]]

(* Cells that only the removed source had stay. *)
ReconstructAll(record, side) == RowOf(record)

(* _reconstruct_merged_row: of two values the one of b is taken for the     *)
(* winner.                                                                  *)
Reconstruct(record, side) ==
    LET stays == {c \in DOMAIN record.decisions :
                    record.decisions[c].source # (IF side = "a" THEN "a_only" ELSE "b_only")}
        conflict(d) == d.source = "conflict_resolved"
    IN [key |-> record.key,
        cells |-> [c \in stays |->
                    LET d == record.decisions[c]
                    IN IF conflict(d) /\ side = "b" THEN d.lost ELSE d.value]]

(* unmerge(): the last record of a key speaks for all rows of it. *)
Unmerge(result, side) ==
    LET record(r) == LastWith(r.key, result.log)
        rows == At(result.rows,
                   {i \in DOMAIN result.rows : record(result.rows[i]).origin # side})
    IN [i \in DOMAIN rows |->
          IF record(rows[i]).origin = "merged" THEN Reconstruct(record(rows[i]), side)
          ELSE rows[i]]

(* verify_unmerge(): no row that only the removed source had, and no value  *)
(* that it is taken to have won or lost with, in the first row of the key   *)
VerifyUnmerge(rows, side, log) ==
    \A record \in ToSet(log) :
        LET found == {i \in DOMAIN rows : rows[i].key = record.key}
        IN found # {} =>
             /\ record.origin # side
             /\ \A c \in DOMAIN record.decisions :
                  LET d == record.decisions[c]
                      removed == IF side = "b" THEN d.value ELSE d.lost
                  IN d.source = "conflict_resolved" /\ removed \notin NaN
                       => LookUp(rows[Min(found)].cells, c, None) # removed

ProvenanceInit ==
    /\ given \in [a : TableA, b : TableB, named : BOOLEAN]
    /\ joined = {} /\ cleaned = EmptyDict

MergeSources ==
    /\ joined = {} /\ ~Raises(given.a, given.b, given.named)
    /\ joined' = {MergeWithProvenance(given.a, given.b, given.named)}
    /\ UNCHANGED <<given, cleaned>>

RemoveSource(side) ==
    \E result \in joined :
        /\ side \notin DOMAIN cleaned
        /\ cleaned' = Put(cleaned, side, Unmerge(result, side))
        /\ UNCHANGED <<given, joined>>

ProvenanceNext == MergeSources \/ \E side \in Side : RemoveSource(side)

ProvenanceSpec == ProvenanceInit /\ [][ProvenanceNext]_provenanceVars

-----------------------------------------------------------------------------
(* Properties *)

AllShown(t) == {Shown(r) : r \in ToSet(t)}

(* Every row has a key, and no two of a table the same. *)
IsKeyed(t) ==
    /\ \A r \in ToSet(t) : r.key # NoKey /\ NFC[r.key] = r.key
    /\ \A i, j \in DOMAIN t : t[i].key = t[j].key => i = j

IsUniform(t) == \A i, j \in DOMAIN t : DOMAIN t[i].cells = DOMAIN t[j].cells

Clean == \A t \in {given.a, given.b} : IsKeyed(t) /\ IsUniform(t)

(* float() and _parse_timestamp() agree on what they both take. *)
SameTimes(rows) ==
    \A r \in rows :
        TimeColumn \in DOMAIN r.cells /\ IsFloat(r)
            => Number[r.cells[TimeColumn]] = Moment[r.cells[TimeColumn]]

(* Normal forms are in the order of the texts. *)
SameOrder(rows) ==
    \A v, w \in {x \in Value : \E r \in rows : \E c \in DOMAIN r.cells : r.cells[c] = x} :
        Norm[v] # Norm[w] => (Text[v] >= Text[w] <=> Text[Norm[v]] >= Text[Norm[w]])

(* What a row shows, up to normal forms *)
Form(row) ==
    [key |-> row.key,
     cells |-> [c \in {d \in DOMAIN row.cells : row.cells[d] # None} |-> Norm[row.cells[c]]]]

Forms(t) == {Form(r) : r \in ToSet(t)}

(* "The same merge as crdt_merge.merge()": the two come to the same rows,   *)
(* up to the normal forms of values, although one compares normal forms and *)
(* the other what is written.  Keys identify rows, and rows of a table have *)
(* the same columns.  With a named timestamp column that holds where both   *)
(* read the same times; without timestamps where normal forms are in the    *)
(* order of the texts.  A timestamp that is no number gives no result.      *)
ProvenanceIsMerge ==
    \A result \in joined :
        /\ Clean
        /\ LET all == ToSet(given.a) \cup ToSet(given.b)
           IN IF given.named THEN SameTimes(all)
              ELSE ~IsTimed(given.a, given.b, FALSE) /\ SameOrder(all)
        => Forms(result.rows) = Forms(MergeTables(given.a, given.b, given.named))

KeptBy(side) == IF side = "a" THEN given.b ELSE given.a

(* A conflict that the first source won, or a NaN *)
Misread(record) ==
    \E r \in ToSet(given.a), c \in DOMAIN record.decisions :
        /\ r.key = record.key /\ record.decisions[c].source = "conflict_resolved"
        /\ record.decisions[c].value \in {LookUp(r.cells, c, None)} \cup NaN

(* What is left without one source is the other, row by row, and verifies,  *)
(* as long as the second source won all conflicts, with values that are     *)
(* equal to themselves.                                                     *)
UnmergeRestores ==
    \A side \in DOMAIN cleaned, result \in joined :
        Clean /\ (\A record \in ToSet(result.log) : ~Misread(record)) =>
            /\ AllShown(cleaned[side]) = AllShown(KeptBy(side))
            /\ VerifyUnmerge(cleaned[side], side, result.log)

(* What is left is what it would have been had the source never             *)
(* participated in the merge.                                               *)
UnmergeForgets ==
    \A side \in DOMAIN cleaned :
        Clean => AllShown(cleaned[side]) = AllShown(KeptBy(side))

=============================================================================
