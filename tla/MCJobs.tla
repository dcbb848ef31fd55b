------------------------------- MODULE MCJobs -------------------------------
(* Small instances of StreamMerge, DeltaShipping, Pipeline, ParallelMerge   *)
(* and Provenance for TLC.  The five share nothing: the others start where  *)
(* a stream of two empty sources has come to its end.                       *)
EXTENDS StreamMerge, DeltaShipping, Pipeline, ParallelMerge, Provenance

AllSources(column, n) ==
    UNION {[1 .. m -> {[key |-> k, cols |-> {"key", column}] : k \in 1 .. 2}] : m \in 0 .. n}

(* Up to three rows of two keys, and a source whose second row has a column *)
(* of its own                                                               *)
SomeA ==
    AllSources("x", 3)
      \cup {<<[key |-> 1, cols |-> {"key", "x"}], [key |-> 2, cols |-> {"key", "x", "z"}]>>}

SomeB == AllSources("y", 3)

NoSource == {<<>>}

(* The number 1, and 2 as a text; the text 01 names the number 1 as well. *)
SomeNames == [one |-> "1", padded |-> "01", two |-> "2"]

SomePops == ("1" :> {"one"}) @@ ("01" :> {"padded", "one"}) @@ ("2" :> {"two"})

Ref(s) == [ref |-> TRUE, of |-> s]

Model(m) == [ref |-> FALSE, of |-> m]

Stage(name, models, base) ==
    [name |-> name, how |-> "merge", models |-> models, base |-> base]

(* Stages that are listed before those that they need, one with a base, and *)
(* one that is a copy                                                       *)
Backwards ==
    <<Stage("s", <<Ref("t"), Ref("u")>>, <<Ref("t")>>),
      Stage("t", <<Model("m"), Model("n")>>, <<>>),
      Stage("u", <<Ref("t")>>, <<Model("m")>>)>>

(* The same names for other stages, one without models *)
Edited ==
    <<Stage("t", <<Model("n"), Model("m")>>, <<Model("n")>>),
      Stage("s", <<>>, <<>>)>>

(* A stage that has the name of the checkpoint's own entry *)
Misnamed ==
    <<Stage("t", <<Model("m"), Model("n")>>, <<>>),
      Stage("failed_at", <<Model("n"), Ref("t")>>, <<>>)>>

(* A cycle through a base, a cycle of one, a name twice, a name that is not *)
(* there, no name                                                           *)
Unfit ==
    {<<Stage("s", <<Ref("t"), Model("m")>>, <<>>), Stage("t", <<Model("m")>>, <<Ref("s")>>)>>,
     <<Stage("s", <<Ref("s")>>, <<>>)>>,
     <<Stage("s", <<>>, <<>>), Stage("s", <<>>, <<>>)>>,
     <<Stage("s", <<Ref("v")>>, <<>>)>>,
     <<Stage("", <<Model("m")>>, <<>>)>>}

SomePipelines == {Backwards, Edited, Misnamed} \cup Unfit

(* The text 3 has the normal form 1. *)
SomeNFC == [k \in Spelling |-> IF k = 3 THEN 1 ELSE k]

(* The values: 1 and 2 are numbers, 3 is the text of 1, 4 is NaN and 5      *)
(* minus infinity, 6 is e with an accent in two characters, 8 the same in   *)
(* one, and the text f is 7; 9 is a date, and 10 a Decimal.                 *)
SomeTexts == <<2, 3, 2, 8, 1, 6, 7, 9, 4, 5>>

SomeNorm == [v \in Value |-> IF v = 4 THEN 5 ELSE IF v = 6 THEN 8 ELSE v]

SomeMoments == <<1, 2, 1, 0, -1, 0, 0, 0, 3, 0>>

SomeNumbers == [v \in {1, 2, 3, 5, 10} |-> IF v = 10 THEN 3 ELSE SomeMoments[v]]

Plain(v) == [x \in {"v"} |-> v]

Timed(v, t) == [x \in {"v", "_ts"} |-> IF x = "v" THEN v ELSE t]

SomeCells == {Plain(1), Plain(2), Timed(2, 1), Timed(1, 2)}

(* Rows that the conversions tell apart, each in a table of its own         *)
OddTables ==
    {<<[key |-> 1, cells |-> c]>> :
       c \in {Plain(v) : v \in {1, 3, 4, 6, 7, 8}}
            \cup {Timed(v, t) : v \in {3, 6, 8}, t \in {1, 9, 10, None}}}
      \cup {<<[key |-> NoKey, cells |-> Plain(v)]>> : v \in {1, 3}}

SomeRows ==
    [key : {1, 2}, cells : SomeCells] \cup [key : {3, NoKey}, cells : {[x \in {"v"} |-> 1]}]

LongTables == UNION {[1 .. n -> SomeRows] : n \in 0 .. 2}

SomeTables == LongTables \cup OddTables

ShortTables ==
    UNION {[1 .. n -> SomeRows] : n \in 0 .. 1}
      \cup {<<[key |-> 1, cells |-> c], [key |-> 2, cells |-> d]>> : c, d \in SomeCells}
      \cup OddTables

NoTables == [a |-> <<>>, b |-> <<>>, named |-> FALSE]

(* A stream of rows is beside empty tables, and an odd table beside another *)
MCInit ==
    /\ ParallelInit
    /\ \/ pair.a \in OddTables /\ pair.b \in OddTables
       \/ pair.a \in LongTables /\ pair.b \notin OddTables \ LongTables
    /\ given = pair /\ ProvenanceInit
    /\ \/ pair = NoTables
       \/ srcA = <<>> /\ srcB = <<>> /\ mode = "hash"
    /\ StreamInit /\ DeltaInit /\ Init

tableVars == <<parallelVars, provenanceVars>>

jobVars == <<deltaVars, vars>>

MCStream == StreamNext /\ UNCHANGED <<jobVars, tableVars>>

NoStream == srcA = <<>> /\ srcB = <<>> /\ consumer = "done"

(* Once a name is mistaken nothing is said of the receiver any more.        *)
MCDelta ==
    /\ ~Mistaken(seen)
    /\ pair = NoTables /\ NoStream /\ mode = "hash" /\ DeltaNext
    /\ UNCHANGED <<streamVars, vars, tableVars>>

MCPipeline ==
    /\ pair = NoTables /\ NoStream /\ mode = "sorted" /\ Next
    /\ UNCHANGED <<streamVars, deltaVars, tableVars>>

MCParallel ==
    /\ pair # NoTables /\ NoStream /\ ProvenanceInit /\ ParallelNext
    /\ UNCHANGED <<streamVars, jobVars, provenanceVars>>

MCProvenance ==
    /\ pair # NoTables /\ NoStream /\ ParallelInit /\ ProvenanceNext
    /\ UNCHANGED <<streamVars, jobVars, parallelVars>>

MCNext == MCStream \/ MCDelta \/ MCPipeline \/ MCParallel \/ MCProvenance

MCSpec ==
    /\ MCInit /\ [][MCNext]_<<streamVars, jobVars, tableVars>>
    /\ WF_streamVars(Produce /\ UNCHANGED <<jobVars, tableVars>>)
    /\ WF_streamVars(Consume /\ UNCHANGED <<jobVars, tableVars>>)

=============================================================================
