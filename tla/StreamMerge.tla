---------------------------- MODULE StreamMerge ----------------------------
(***************************************************************************)
(* merge_stream and merge_sorted_stream of crdt_merge/streaming.py.  The   *)
(* first has a producer thread that reads source_a into a bounded queue,   *)
(* and a generator that looks its rows up in an index of source_b; the     *)
(* second joins two sorted sources without a thread.  Both yield batches.  *)
(*                                                                         *)
(* Rows are named by their positions in the sources.  A row of the output  *)
(* is a pair of positions, 0 for none, and the columns in which it has a   *)
(* value; what strategies make of two values of a column is left out.      *)
(***************************************************************************)
EXTENDS Integers, SequencesExt, FiniteSetsExt

CONSTANTS
    SourceA, SourceB,   \* sequences of rows [key, cols], cols not empty
    BatchSize, BufferSize,
    CanRaise,           \* TRUE: reading source_a may raise in the thread
    CanStop             \* TRUE: the caller may close the generator

ASSUME StreamAssumption ==
    /\ BatchSize \in Nat \ {0} /\ BufferSize \in Nat \ {0}
    /\ CanRaise \in BOOLEAN /\ CanStop \in BOOLEAN

(* Keys are integers, for any values that the code can compare. *)
ASSUME SourceAssumption ==
    \A src \in SourceA \cup SourceB :
        /\ Len(src) \in Nat /\ DOMAIN src = 1 .. Len(src)
        /\ \A i \in DOMAIN src : src[i].key \in Int

VARIABLES
    mode,       \* "hash" for merge_stream, "sorted" for merge_sorted_stream
    srcA, srcB,
    producer,   \* "running", "ended" with the end marker queued, "dead"
    put,        \* rows of srcA that were put into the queue
    next,       \* rows of srcA that the generator has taken
    left,       \* positions of srcB that are still to be matched or output
    cached,     \* cached_cols, {} for None
    consumer,   \* "reading", "draining", "done", "raised", "closed"
    batch,      \* output_batch
    out         \* batches that were yielded

streamVars == <<mode, srcA, srcB, producer, put, next, left, cached, consumer, batch, out>>

(* The index keeps the last row of a key. *)
Indexed(src) ==
    {j \in DOMAIN src : \A i \in DOMAIN src : src[i].key = src[j].key => i <= j}

StreamInit ==
    /\ mode \in {"hash", "sorted"}
    /\ srcA \in SourceA /\ srcB \in SourceB
    /\ producer = "running"
    /\ put = 0 /\ next = 0
    /\ left = IF mode = "hash" THEN Indexed(srcB) ELSE DOMAIN srcB
    /\ cached = {}
    /\ consumer = "reading"
    /\ batch = <<>> /\ out = <<>>

-----------------------------------------------------------------------------
(* The producer thread, _fill_buffer *)

producerVars == <<producer, put>>
consumerVars == <<next, left, cached, consumer, batch, out>>
sources == <<mode, srcA, srcB>>

(* The queue holds the rows that were put and not taken. *)
HasRoom == put - next < BufferSize

PutRow ==
    /\ mode = "hash" /\ producer = "running"
    /\ put < Len(srcA) /\ HasRoom
    /\ put' = put + 1
    /\ UNCHANGED <<sources, producer, consumerVars>>

(* put_nowait() of the end marker, which a full queue would refuse *)
PutEndNoWait ==
    /\ mode = "hash" /\ producer = "running"
    /\ put = Len(srcA)
    /\ producer' = IF HasRoom THEN "ended" ELSE "unmarked"
    /\ UNCHANGED <<sources, put, consumerVars>>

PutEnd ==
    /\ mode = "hash" /\ producer = "running"
    /\ put = Len(srcA) /\ HasRoom
    /\ producer' = "ended"
    /\ UNCHANGED <<sources, put, consumerVars>>

(* The thread ends without a marker, and nobody hears of it. *)
SourceRaises ==
    /\ CanRaise /\ mode = "hash" /\ producer = "running"
    /\ producer' = "dead"
    /\ UNCHANGED <<sources, put, consumerVars>>

-----------------------------------------------------------------------------
(* The generators *)

Yield(item) ==
    LET filled == Append(batch, item)
    IN IF Len(filled) >= BatchSize
       THEN out' = Append(out, filled) /\ batch' = <<>>
       ELSE out' = out /\ batch' = filled

(* The columns grow when a pair of rows has more of them than before. *)
CacheColumns(cols) ==
    IF cached = {} THEN cols
    ELSE IF Cardinality(cols) > Cardinality(cached) THEN cached \cup cols
    ELSE cached

Alone(i) == [a |-> i, b |-> 0, cols |-> srcA[i].cols]

AloneB(j) == [a |-> 0, b |-> j, cols |-> srcB[j].cols]

(* One row from the queue: merged with the row of the index, which leaves   *)
(* it, or output as it is.                                                  *)
TakeRow ==
    /\ mode = "hash" /\ consumer = "reading"
    /\ next < put
    /\ next' = next + 1
    /\ LET i == next + 1
           matches == {j \in left : srcB[j].key = srcA[i].key}
           cols == srcA[i].cols \cup UNION {srcB[j].cols : j \in matches}
       IN /\ left' = left \ matches
          /\ cached' = IF matches = {} THEN cached ELSE CacheColumns(cols)
          /\ Yield(IF matches = {} THEN Alone(i)
                   ELSE [a |-> i, b |-> Max(matches), cols |-> cols \cap cached'])
    /\ UNCHANGED <<sources, producerVars, consumer>>

(* The end marker is the last element of the queue. *)
TakeEnd ==
    /\ mode = "hash" /\ consumer = "reading"
    /\ next = put /\ producer = "ended"
    /\ consumer' = "draining"
    /\ UNCHANGED <<sources, producerVars, next, left, cached, batch, out>>

(* A dict keeps a key where its first row was put. *)
Place(j) == Min({i \in DOMAIN srcB : srcB[i].key = srcB[j].key})

DrainRow ==
    /\ consumer = "draining"
    /\ \E j \in left :
         /\ \A l \in left : Place(j) <= Place(l)
         /\ Yield(AloneB(j))
         /\ left' = left \ {j}
    /\ UNCHANGED <<sources, producerVars, next, cached, consumer>>

(* The end without a look at the batch that is not full *)
FinishFullOnly ==
    /\ \/ consumer = "draining" /\ left = {}
       \/ mode = "sorted" /\ consumer = "reading" /\ left = {} /\ next = Len(srcA)
    /\ consumer' = "done"
    /\ batch' = <<>>
    /\ UNCHANGED <<sources, producerVars, next, left, cached, out>>

(* The last batch may be smaller. *)
Finish ==
    /\ \/ consumer = "draining" /\ left = {}
       \/ mode = "sorted" /\ consumer = "reading" /\ left = {} /\ next = Len(srcA)
    /\ consumer' = "done"
    /\ out' = IF batch = <<>> THEN out ELSE Append(out, batch)
    /\ batch' = <<>>
    /\ UNCHANGED <<sources, producerVars, next, left, cached>>

(* The order is looked at while both sources have rows. *)
OutOfOrderWhileBoth ==
    /\ next < Len(srcA) /\ left # {}
    /\ \/ next > 0 /\ srcA[next + 1].key < srcA[next].key
       \/ Min(left) > 1 /\ srcB[Min(left)].key < srcB[Min(left) - 1].key

(* A row at the head of a source is below the one before it. *)
OutOfOrder ==
    \/ next < Len(srcA) /\ next > 0 /\ srcA[next + 1].key < srcA[next].key
    \/ left # {} /\ Min(left) > 1 /\ srcB[Min(left)].key < srcB[Min(left) - 1].key

RaiseUnsorted ==
    /\ mode = "sorted" /\ consumer = "reading"
    /\ OutOfOrder
    /\ consumer' = "raised"
    /\ UNCHANGED <<sources, producerVars, next, left, cached, batch, out>>

(* One round of the merge join, or of the loop over what is left of one     *)
(* source                                                                   *)
JoinRow ==
    /\ mode = "sorted" /\ consumer = "reading"
    /\ ~OutOfOrder
    /\ LET i == next + 1
           j == Min(left)
           hasA == next < Len(srcA)
           hasB == left # {}
           takeA == hasA /\ (hasB => srcA[i].key <= srcB[j].key)
           takeB == hasB /\ (hasA => srcB[j].key <= srcA[i].key)
       IN /\ hasA \/ hasB
          /\ Yield(IF takeA /\ takeB
                   THEN [a |-> i, b |-> j, cols |-> srcA[i].cols \cup srcB[j].cols]
                   ELSE IF takeA THEN Alone(i) ELSE AloneB(j))
          /\ next' = IF takeA THEN i ELSE next
          /\ left' = IF takeB THEN left \ {j} ELSE left
    /\ UNCHANGED <<sources, producerVars, cached, consumer>>

(* The caller drops the generator where it yielded a batch.  The producer   *)
(* is not told.                                                             *)
Close ==
    /\ CanStop /\ consumer \in {"reading", "draining"}
    /\ batch = <<>> /\ out # <<>>
    /\ consumer' = "closed"
    /\ UNCHANGED <<sources, producerVars, next, left, cached, batch, out>>

Produce == PutRow \/ PutEnd

Consume == TakeRow \/ TakeEnd \/ DrainRow \/ Finish \/ RaiseUnsorted \/ JoinRow

StreamNext == Produce \/ SourceRaises \/ Consume \/ Close

(* The thread is scheduled, and the caller asks for the next batch.         *)
StreamSpec ==
    /\ StreamInit /\ [][StreamNext]_streamVars
    /\ WF_streamVars(Produce) /\ WF_streamVars(Consume)

-----------------------------------------------------------------------------
(* Properties *)

Batches == Append(out, batch)

(* A row of the output has the number of its batch and one in the batch.    *)
Places == UNION {{<<n, k>> : k \in DOMAIN Batches[n]} : n \in DOMAIN Batches}

Item(place) == Batches[place[1]][place[2]]

Times(i, side) == Cardinality({place \in Places : Item(place)[side] = i})

IsOrdered(src) == \A i \in 1 .. Len(src) - 1 : src[i].key <= src[i + 1].key

Unique(src) == \A i, j \in DOMAIN src : src[i].key = src[j].key => i = j

Uniform(src) == \A i, j \in DOMAIN src : src[i].cols = src[j].cols

(* Whatever the thread and the generator do in between, and wherever the    *)
(* batches are cut, the rows taken so far are output exactly once, rows of  *)
(* one key together: the first of source_a with the last of source_b.  Only *)
(* the last batch is smaller.  Merged rows have the columns of both if all  *)
(* rows of a source have the same.                                          *)
RowsConserved ==
    LET candidates == IF mode = "hash" THEN Indexed(srcB) ELSE DOMAIN srcB
    IN (mode = "sorted" => IsOrdered(srcA) /\ IsOrdered(srcB) /\ Unique(srcB)) =>
         /\ \A i \in DOMAIN srcA : Times(i, "a") = IF i <= next THEN 1 ELSE 0
         /\ \A j \in DOMAIN srcB :
              Times(j, "b") = IF j \in candidates \ left THEN 1 ELSE 0
         /\ \A place \in Places :
              LET item == Item(place)
              IN IF item.a # 0 /\ item.b # 0
                 THEN LET row == srcA[item.a]
                      IN /\ row.key = srcB[item.b].key
                         /\ \A i \in 1 .. item.a - 1 : srcA[i].key # row.key
                         /\ Uniform(srcA) /\ Uniform(srcB)
                              => item.cols = row.cols \cup srcB[item.b].cols
                 ELSE item.b # 0
                        => \A i \in DOMAIN srcA : srcA[i].key # srcB[item.b].key
         /\ \A n \in DOMAIN out :
              Len(out[n]) = BatchSize \/ (n = Len(out) /\ consumer = "done")

(* The join of sorted sources finishes exactly on sorted sources: a row     *)
(* below the one before it is met before the end, in whatever loop.         *)
FailsOnUnsorted ==
    mode = "sorted" =>
        /\ consumer = "done" => IsOrdered(srcA) /\ IsOrdered(srcB)
        /\ consumer = "raised" => ~IsOrdered(srcA) \/ ~IsOrdered(srcB)

(* The generator comes to its end unless the caller drops it or source_a    *)
(* raises, however small the queue is.  A source that raises leaves it      *)
(* waiting for ever.                                                        *)
StreamEnds ==
    <>(consumer \in {"done", "raised", "closed"} \/ producer = "dead")

=============================================================================
