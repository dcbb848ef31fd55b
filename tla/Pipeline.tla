------------------------------ MODULE Pipeline ------------------------------
(***************************************************************************)
(* MergePipeline and PipelineCheckpoint of crdt_merge/model/pipeline.py: a *)
(* process validates a list of stages, sorts them, merges one after the    *)
(* other and saves what it has after each; it may fail or crash anywhere,  *)
(* and a later process goes on from the file.                              *)
(*                                                                         *)
(* A model is a term: who made it from which models on which base.         *)
(* Provenance per layer and to_dict/from_dict of a pipeline are left out.  *)
(***************************************************************************)
EXTENDS Dicts, Listing, Integers, Sequences, Functions

CONSTANTS
    Pipelines,     \* sequences of stages [name, how, models, base]
    MaxCrashes,    \* bound: crashes
    MaxRuns        \* bound: calls of execute()

(* An input is a given model, or "$name" of a stage. *)
Input == [ref : BOOLEAN, of : STRING]

Stages == [name : STRING, how : STRING, models : Seq(Input), base : Seq(Input)]

ASSUME PipelineAssumption ==
    /\ Pipelines \subseteq Seq(Stages)
    /\ \A p \in Pipelines : \A n \in DOMAIN p : Len(p[n].base) <= 1
    /\ MaxCrashes \in Nat /\ MaxRuns \in Nat

VARIABLES
    file,       \* the checkpoint file: "none", "broken", or "whole" with data
    pc,         \* "down", "ready", "detect", "sort", "stages", "save", "write" (in _save)
    completed,  \* _completed of the process
    pipeline,   \* the stages that execute() works on
    kept,       \* whether the pipeline has the checkpoint
    stack,      \* calls of dfs, the last one at the end
    todo,       \* the order of _topological_sort, then what is not done of it
    results,    \* stage_results
    outcome,    \* of the last execute(): "none", "done", "failed", "invalid", "unresolved"
    crashes, runs,
    saved,      \* history: stages with a result in a whole file
    again,      \* history: stages that were merged after they were saved
    lost,       \* history: a crash left a broken file, or a rollback left one
    users       \* history: pipelines that used the checkpoint since it was empty

files == <<file, saved, lost>>
work == <<pipeline, kept, stack, todo, results>>
counts == <<crashes, runs>>
vars == <<file, pc, completed, work, outcome, counts, saved, again, lost, users>>

NoFile == [state |-> "none", data |-> EmptyDict]

Broken == [state |-> "broken", data |-> EmptyDict]

Init ==
    /\ file = NoFile /\ pc = "down" /\ completed = EmptyDict
    /\ pipeline = <<>> /\ kept = TRUE
    /\ stack = <<>> /\ todo = <<>> /\ results = EmptyDict
    /\ outcome = "none" /\ crashes = 0 /\ runs = 0
    /\ saved = {} /\ again = {} /\ lost = FALSE /\ users = {}

-----------------------------------------------------------------------------
(* Models *)

Given(m) == [by |-> m, of |-> <<>>, base |-> <<>>]

NoModel == Given("")

(* No model makes an empty one, one is copied, more are merged. *)
Merged(how, models, base) ==
    IF models = <<>> THEN NoModel
    ELSE IF Len(models) = 1 THEN models[1]
    ELSE [by |-> how, of |-> models, base |-> base]

(* The dict of mark_failed *)
Error == Given("error")

-----------------------------------------------------------------------------
(* validate() and _topological_sort() *)

NamesOf(p) == [n \in DOMAIN p |-> p[n].name]

StageOf(p, name) == p[CHOOSE n \in DOMAIN p : p[n].name = name]

Dependencies(s) ==
    LET inputs == s.models \o s.base
        refs == At(inputs, {n \in DOMAIN inputs : inputs[n].ref})
    IN [n \in DOMAIN refs |-> refs[n].of]

(* What validate() asks before it looks for cycles *)
IsWellNamed(p) ==
    LET names == Range(NamesOf(p))
    IN /\ "" \notin names
       /\ \A m, n \in DOMAIN p : p[m].name = p[n].name => m = n
       /\ \A n \in DOMAIN p : Range(Dependencies(p[n])) \subseteq names

(* A call of dfs: its name, and the names that it has not looked at.  The   *)
(* loop over all stages is below the calls and has no name.                 *)
Frame(p, name) ==
    [name |-> name,
     rest |-> IF name = "" THEN NamesOf(p) ELSE Dependencies(StageOf(p, name))]

(* A stage is put into the order before what it depends on. *)
FinishedFirst(order, name) == <<name>> \o order

(* order.append(name) at the end of dfs *)
Finished(order, name) == Append(order, name)

-----------------------------------------------------------------------------
(* The process *)

(* A run that failed once is not taken up again. *)
LoadConsistent ==
    IF file.state = "whole" /\ "failed_at" \notin DOMAIN file.data
    THEN file.data ELSE EmptyDict

(* _load: a file that is not JSON is as none. *)
Load == IF file.state = "whole" THEN file.data ELSE EmptyDict

Start ==
    /\ pc = "down"
    /\ pc' = "ready"
    /\ completed' = Load
    /\ UNCHANGED <<files, work, outcome, counts, again, users>>

Execute(p, withCheckpoint) ==
    /\ pc = "ready" /\ runs < MaxRuns
    /\ runs' = runs + 1
    /\ pipeline' = p /\ kept' = withCheckpoint
    /\ results' = EmptyDict /\ todo' = <<>>
    /\ IF IsWellNamed(p)
       THEN pc' = "detect" /\ stack' = <<Frame(p, "")>> /\ outcome' = "none"
       ELSE pc' = pc /\ stack' = <<>> /\ outcome' = "invalid"
    /\ UNCHANGED <<files, completed, crashes, again, users>>

(* _detect_cycles and then _topological_sort call dfs for all stages.  The  *)
(* names that it returned from are todo; the order of the first is dropped. *)
Rest == stack[Len(stack)].rest

Path == {stack[n].name : n \in DOMAIN stack}

(* The next name: in dfs's path, the first reports a cycle and the second   *)
(* raises; else, dfs is called or returns at once.                          *)
Descend ==
    /\ pc \in {"detect", "sort"} /\ Rest # <<>>
    /\ LET name == Head(Rest)
           passed == [stack EXCEPT ![Len(stack)].rest = Tail(Rest)]
       IN IF name \in Path
          THEN pc' = "ready" /\ outcome' = "invalid" /\ stack' = <<>> /\ todo' = <<>>
          ELSE /\ stack' = IF name \in Range(todo) THEN passed
                            ELSE Append(passed, Frame(pipeline, name))
               /\ UNCHANGED <<pc, todo, outcome>>
    /\ UNCHANGED <<files, completed, pipeline, kept, results, counts, again, users>>

(* The end of dfs *)
Backtrack ==
    /\ pc \in {"detect", "sort"} /\ Rest = <<>> /\ Len(stack) > 1
    /\ stack' = SubSeq(stack, 1, Len(stack) - 1)
    /\ todo' = Finished(todo, stack[Len(stack)].name)
    /\ UNCHANGED <<files, pc, completed, pipeline, kept, results, outcome, counts, again, users>>

SortStages ==
    /\ pc = "detect" /\ Rest = <<>> /\ Len(stack) = 1
    /\ pc' = "sort" /\ stack' = <<Frame(pipeline, "")>> /\ todo' = <<>>
    /\ UNCHANGED <<files, completed, pipeline, kept, results, outcome, counts, again, users>>

BeginStages ==
    /\ pc = "sort" /\ Rest = <<>> /\ Len(stack) = 1
    /\ pc' = "stages" /\ stack' = <<>>
    /\ users' = IF kept THEN users \cup {pipeline} ELSE users
    /\ UNCHANGED <<files, completed, pipeline, kept, todo, results, outcome, counts, again>>

(* A stage of the checkpoint is known by its name. *)
IsDone(name) == kept /\ name \in DOMAIN completed

SkipStage ==
    /\ pc = "stages" /\ todo # <<>>
    /\ IsDone(Head(todo))
    /\ results' = Put(results, Head(todo), completed[Head(todo)])
    /\ todo' = Tail(todo)
    /\ UNCHANGED <<files, pc, completed, pipeline, kept, stack, outcome, counts, again, users>>

Resolve(inputs) ==
    [n \in DOMAIN inputs |->
        IF inputs[n].ref THEN results[inputs[n].of] ELSE Given(inputs[n].of)]

IsResolved(inputs) ==
    \A n \in DOMAIN inputs : inputs[n].ref => inputs[n].of \in DOMAIN results

(* The merge of a stage, and mark_done up to its _save.  A base that is not  *)
(* there is no base; a model that is not there raises, and nothing is       *)
(* marked.                                                                  *)
MergeStage ==
    /\ pc = "stages" /\ todo # <<>> /\ ~IsDone(Head(todo))
    /\ LET name == Head(todo)
           stage == StageOf(pipeline, name)
           base == IF IsResolved(stage.base) THEN Resolve(stage.base) ELSE <<>>
           result == Merged(stage.how, Resolve(stage.models), base)
       IN IF IsResolved(stage.models)
          THEN /\ results' = Put(results, name, result)
               /\ completed' = IF kept THEN Put(completed, name, result) ELSE completed
               /\ again' = IF kept /\ name \in saved THEN again \cup {name} ELSE again
               /\ todo' = Tail(todo)
               /\ pc' = IF kept THEN "save" ELSE "stages"
               /\ outcome' = outcome
          ELSE /\ pc' = "ready" /\ outcome' = "unresolved"
               /\ UNCHANGED <<results, completed, again, todo>>
    /\ UNCHANGED <<files, pipeline, kept, stack, counts, users>>

(* The merge of more than one model raises: mark_failed up to its _save.    *)
(* The exception is raised again after it.                                  *)
FailStage ==
    /\ pc = "stages" /\ todo # <<>> /\ ~IsDone(Head(todo))
    /\ LET models == StageOf(pipeline, Head(todo)).models
       IN IsResolved(models) /\ Len(models) > 1
    /\ completed' = IF kept THEN Put(completed, "failed_at", Error) ELSE completed
    /\ pc' = IF kept THEN "save" ELSE "ready"
    /\ outcome' = "failed"
    /\ UNCHANGED <<files, work, counts, again, users>>

(* _save: the file is empty once it is open. *)
OpenFile ==
    /\ pc = "save"
    /\ file' = Broken
    /\ pc' = "write"
    /\ UNCHANGED <<completed, work, outcome, counts, saved, again, lost, users>>

(* What was written when json.dump raises stays in the file. *)
WriteFile ==
    /\ pc = "write"
    /\ \/ /\ file' = [state |-> "whole", data |-> completed]
          /\ saved' = saved \cup (DOMAIN completed \ {"failed_at"})
       \/ UNCHANGED <<file, saved>>
    /\ pc' = IF outcome = "failed" THEN "ready" ELSE "stages"
    /\ UNCHANGED <<completed, work, outcome, counts, again, lost, users>>

Return ==
    /\ pc = "stages" /\ todo = <<>>
    /\ pc' = "ready" /\ outcome' = "done"
    /\ UNCHANGED <<files, completed, work, counts, again, users>>

(* rollback() and clear(): the file stays if it cannot be removed. *)
Rollback ==
    /\ pc = "ready"
    /\ completed' = EmptyDict
    /\ \/ file' = NoFile /\ saved' = {} /\ again' = {} /\ users' = {}
       \/ UNCHANGED <<file, saved, again, users>>
    /\ lost' = (file' # NoFile)
    /\ UNCHANGED <<pc, work, outcome, counts>>

Crash ==
    /\ pc # "down" /\ crashes < MaxCrashes
    /\ crashes' = crashes + 1
    /\ pc' = "down" /\ completed' = EmptyDict
    /\ stack' = <<>> /\ todo' = <<>> /\ results' = EmptyDict /\ outcome' = "none"
    /\ lost' = (lost \/ file.state = "broken")
    /\ UNCHANGED <<file, pipeline, kept, runs, saved, again, users>>

Next ==
    \/ Start \/ Descend \/ Backtrack \/ SortStages \/ BeginStages
    \/ SkipStage \/ MergeStage \/ FailStage
    \/ OpenFile \/ WriteFile \/ Return \/ Rollback \/ Crash
    \/ \E p \in Pipelines, withCheckpoint \in BOOLEAN : Execute(p, withCheckpoint)

Spec == Init /\ [][Next]_vars

-----------------------------------------------------------------------------
(* Properties *)

(* The stages can be ranked such that each depends on lower ones alone. *)
IsAcyclic(p) ==
    \E rank \in [Range(NamesOf(p)) -> DOMAIN p] :
        \A n \in DOMAIN p : \A dep \in Range(Dependencies(p[n])) :
            dep \in DOMAIN rank /\ rank[dep] < rank[p[n].name]

ResultsOf(p) ==
    LET result[name \in Range(NamesOf(p))] ==
          LET s == StageOf(p, name)
              of(inputs) == [n \in DOMAIN inputs |->
                                IF inputs[n].ref THEN result[inputs[n].of]
                                ELSE Given(inputs[n].of)]
          IN Merged(s.how, of(s.models), of(s.base))
    IN result

(* However often the process failed or crashed before, inside a save or     *)
(* between two, execute() returns the models that the stages define, each   *)
(* merged after what it depends on, whatever the order in which they are    *)
(* written; it refuses the lists that define none.  A checkpoint that two   *)
(* pipelines use, or a stage that is named failed_at, is another matter.    *)
ResultsAsDefined ==
    LET p == pipeline
        names == Range(NamesOf(p))
        defined == /\ "" \notin names
                   /\ \A m, n \in DOMAIN p : p[m].name = p[n].name => m = n
                   /\ IsAcyclic(p)
    IN /\ outcome = "invalid" => ~defined
       /\ outcome # "unresolved"
       /\ outcome = "done" => defined
       /\ (outcome = "done" /\ (kept => users = {p} /\ "failed_at" \notin names)) =>
            results = ResultsOf(p)

(* A later process goes on from the last stage that was saved, after an     *)
(* error or a crash: no stage that is in a whole file is merged again.      *)
(* That is so until a crash meets the file while it is written, or after it *)
(* could not be written to its end, or a rollback could not remove it.      *)
SavedIsNotRepeated == again = {} \/ lost

=============================================================================
