---------------------------- MODULE ParallelMerge ----------------------------
(***************************************************************************)
(* parallel_merge of crdt_merge/parallel.py: the keys of two tables are    *)
(* cut into chunks, a pool of threads merges the rows of each, and the     *)
(* results are appended in the order in which the threads finish.  Tables  *)
(* are large enough for it; a strategy may raise in any thread.            *)
(***************************************************************************)
EXTENDS Tables

CONSTANTS
    LeftTable, RightTable,   \* tables to merge
    ChunkSize                \* chunk_size, in keys

ASSUME ParallelAssumption ==
    /\ ChunkSize \in Nat \ {0}
    /\ \A t \in LeftTable \cup RightTable : IsTable(t)

VARIABLES
    pair,      \* [a, b, named]: the tables, and whether timestamp_col is given
    pool,      \* chunks whose thread has not finished
    rows,      \* merged_records
    errors     \* chunks whose merge raised

parallelVars == <<pair, pool, rows, errors>>

(* Rows at one place go together. *)
ChunksByPlace(a, b) ==
    LET n == IF Len(a) > Len(b) THEN Len(a) ELSE Len(b)
        part(t, i) == SubSeq(t, i, IF i + ChunkSize - 1 > Len(t) THEN Len(t) ELSE i + ChunkSize - 1)
    IN {<<part(a, i), part(b, i)>> : i \in {j \in 1 .. n : j % ChunkSize = 1 % ChunkSize}}

(* _compute_chunks: the keys as they are written, in the order of their     *)
(* strings, where "None" is the last one; rows of one key go together.      *)
Chunks(a, b) ==
    LET spelled == {r.key : r \in ToSet(a) \cup ToSet(b)}
        order == InOrder(spelled \ {NoKey}) \o (IF NoKey \in spelled THEN <<NoKey>> ELSE <<>>)
        number(k) == (CHOOSE i \in DOMAIN order : order[i] = k) - 1
        part(t, n) == At(t, {i \in DOMAIN t : number(t[i].key) \div ChunkSize = n})
    IN {<<part(a, n), part(b, n)>> : n \in {number(k) \div ChunkSize : k \in spelled}}

ParallelInit ==
    /\ pair \in [a : LeftTable, b : RightTable, named : BOOLEAN]
    /\ pool = Chunks(pair.a, pair.b)
    /\ rows = <<>> /\ errors = {}

FinishChunk ==
    \E chunk \in pool :
        /\ pool' = pool \ {chunk}
        /\ rows' = rows \o MergeTables(chunk[1], chunk[2], pair.named)
        /\ UNCHANGED <<pair, errors>>

RaiseInChunk ==
    \E chunk \in pool :
        /\ pool' = pool \ {chunk}
        /\ errors' = errors \cup {chunk}
        /\ UNCHANGED <<pair, rows>>

ParallelNext == FinishChunk \/ RaiseInChunk

ParallelSpec == ParallelInit /\ [][ParallelNext]_parallelVars

-----------------------------------------------------------------------------
(* Properties *)

(* Key-aligned chunks need no merge of their results: whatever the order in *)
(* which the threads finish, the rows are those of the sequential merge,    *)
(* each as often.  Keys are in normal form, which the chunks do not look    *)
(* at, and timestamps are in a named column, or in all rows or none.        *)
ParallelAsSequential ==
    LET both == pair.a \o pair.b
        timed == {r \in ToSet(both) : TimeColumn \in DOMAIN r.cells}
        bag(t) == [r \in {Shown(x) : x \in ToSet(t)} |->
                     Cardinality({i \in DOMAIN t : Shown(t[i]) = r})]
    IN /\ pool = {} /\ errors = {}
       /\ \A r \in ToSet(both) : r.key # NoKey => NFC[r.key] = r.key
       /\ pair.named \/ timed \in {{}, ToSet(both)}
       => bag(rows) = bag(MergeTables(pair.a, pair.b, pair.named))

=============================================================================
