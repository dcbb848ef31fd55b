----------------------------- MODULE JobProofs -----------------------------
(***************************************************************************)
(* Proofs about StreamMerge, for any sources, batches and queues, about    *)
(* DeltaShipping, for any records and names of keys, and about Pipeline,   *)
(* for any stages, failures and crashes.                                   *)
(***************************************************************************)
EXTENDS StreamMerge, DeltaShipping, Pipeline, FiniteSetTheorems, TLAPS

LastOf(S) == Max(S)

Sending == INSTANCE Folding WITH Op <- ApplyDelta, Ch <- LastOf

-----------------------------------------------------------------------------
(* Batches *)

Column ==
    UNION {UNION {src[i].cols : i \in DOMAIN src} : src \in SourceA \cup SourceB}

OutputRow == [a : Nat, b : Nat, cols : SUBSET Column]

NewPlace == <<Len(out) + 1, Len(batch) + 1>>

Batching ==
    /\ out \in Seq(Seq(OutputRow)) /\ batch \in Seq(OutputRow)
    /\ Len(batch) < BatchSize
    /\ \A n \in DOMAIN out :
         Len(out[n]) = BatchSize \/ (n = Len(out) /\ consumer = "done")
    /\ consumer = "done" => batch = <<>>

LEMMA PlaceOf ==
    ASSUME Batching
    PROVE  /\ \A place \in Places :
                \/ \E n \in DOMAIN out : \E k \in DOMAIN out[n] :
                     place = <<n, k>> /\ Item(place) = out[n][k]
                \/ \E k \in DOMAIN batch :
                     place = <<Len(out) + 1, k>> /\ Item(place) = batch[k]
           /\ \A n \in DOMAIN out : \A k \in DOMAIN out[n] :
                <<n, k>> \in Places /\ Item(<<n, k>>) = out[n][k]
           /\ \A k \in DOMAIN batch :
                <<Len(out) + 1, k>> \in Places /\ Item(<<Len(out) + 1, k>>) = batch[k]
<1>1. out \in Seq(Seq(OutputRow)) /\ batch \in Seq(OutputRow)
  BY DEF Batching
<1>2. /\ DOMAIN Batches = DOMAIN out \cup {Len(out) + 1}
      /\ \A n \in DOMAIN out : Batches[n] = out[n]
      /\ Batches[Len(out) + 1] = batch
  BY <1>1 DEF Batches
<1> QED BY <1>2 DEF Places, Item

LEMMA Yielded ==
    ASSUME Batching, BatchSize \in Nat \ {0}, NEW item \in OutputRow, Yield(item),
           consumer # "done"
    PROVE  /\ out' \in Seq(Seq(OutputRow)) /\ batch' \in Seq(OutputRow)
           /\ Len(batch') < BatchSize
           /\ \A n \in DOMAIN out' : Len(out'[n]) = BatchSize
           /\ Places' = Places \cup {NewPlace}
           /\ NewPlace \notin Places
           /\ \A place : place = NewPlace => Item(place)' = item
           /\ \A place \in Places : Item(place)' = Item(place)
<1> DEFINE filled == Append(batch, item)
<1>1. out \in Seq(Seq(OutputRow)) /\ batch \in Seq(OutputRow) /\ Len(batch) \in Nat
  BY DEF Batching
<1>2. /\ filled \in Seq(OutputRow) /\ Len(filled) = Len(batch) + 1
      /\ DOMAIN filled = DOMAIN batch \cup {Len(batch) + 1}
      /\ filled[Len(batch) + 1] = item
      /\ \A k \in DOMAIN batch : filled[k] = batch[k]
      /\ Len(batch) + 1 \notin DOMAIN batch
  BY <1>1
<1>3. \A n \in DOMAIN out : Len(out[n]) = BatchSize
  BY DEF Batching
<1>4. Len(out) + 1 \notin DOMAIN out
  BY <1>1
<1> HIDE DEF filled
<1>5. NewPlace \notin Places
  BY <1>2, <1>4, PlaceOf DEF NewPlace
<1>6. CASE Len(filled) >= BatchSize
  <2>1. out' = Append(out, filled) /\ batch' = <<>>
    BY <1>6 DEF Yield, filled
  <2>2. /\ out' \in Seq(Seq(OutputRow)) /\ batch' \in Seq(OutputRow) /\ Len(batch') = 0
        /\ Len(out') = Len(out) + 1 /\ DOMAIN out' = DOMAIN out \cup {Len(out) + 1}
        /\ \A n \in DOMAIN out : out'[n] = out[n]
        /\ out'[Len(out) + 1] = filled
    BY <1>1, <1>2, <2>1
  <2>3. Len(filled) = BatchSize
    BY <1>1, <1>2, <1>6 DEF Batching
  <2>4. \A n \in DOMAIN out' : Len(out'[n]) = BatchSize
    BY <1>3, <2>2, <2>3
  <2>5. /\ DOMAIN Batches' = DOMAIN out \cup {Len(out) + 1, Len(out) + 2}
        /\ \A n \in DOMAIN out : Batches'[n] = out[n]
        /\ Batches'[Len(out) + 1] = filled
        /\ DOMAIN Batches'[Len(out) + 2] = {}
    BY <1>1, <2>1, <2>2 DEF Batches
  <2>6. /\ DOMAIN Batches = DOMAIN out \cup {Len(out) + 1}
        /\ \A n \in DOMAIN out : Batches[n] = out[n]
        /\ Batches[Len(out) + 1] = batch
    BY <1>1 DEF Batches
  <2>7. Places' = Places \cup {NewPlace}
    BY <1>2, <2>5, <2>6 DEF Places, NewPlace
  <2>8. \A place : place = NewPlace => Item(place)' = item
    BY <1>2, <2>5 DEF Item, NewPlace
  <2>9. \A place \in Places : Item(place)' = Item(place)
    BY <1>2, <2>5, <2>6 DEF Places, Item
  <2> QED BY <1>5, <2>2, <2>4, <2>7, <2>8, <2>9
<1>7. CASE ~ (Len(filled) >= BatchSize)
  <2>1. out' = out /\ batch' = filled
    BY <1>7 DEF Yield, filled
  <2>2. Len(batch') < BatchSize
    BY <1>1, <1>2, <1>7, <2>1
  <2>3. /\ DOMAIN Batches' = DOMAIN out \cup {Len(out) + 1}
        /\ \A n \in DOMAIN out : Batches'[n] = out[n]
        /\ Batches'[Len(out) + 1] = filled
    BY <1>1, <1>2, <2>1 DEF Batches
  <2>4. /\ DOMAIN Batches = DOMAIN out \cup {Len(out) + 1}
        /\ \A n \in DOMAIN out : Batches[n] = out[n]
        /\ Batches[Len(out) + 1] = batch
    BY <1>1 DEF Batches
  <2>5. Places' = Places \cup {NewPlace}
    BY <1>2, <2>3, <2>4 DEF Places, NewPlace
  <2>6. \A place : place = NewPlace => Item(place)' = item
    BY <1>2, <2>3 DEF Item, NewPlace
  <2>7. \A place \in Places : Item(place)' = Item(place)
    BY <1>2, <2>3, <2>4 DEF Places, Item
  <2> QED BY <1>1, <1>2, <1>3, <1>5, <2>1, <2>2, <2>5, <2>6, <2>7
<1> QED BY <1>6, <1>7

-----------------------------------------------------------------------------
(* Which rows are output *)

Candidates == IF mode = "hash" THEN Indexed(srcB) ELSE DOMAIN srcB

Taken == Candidates \ left

Joinable == mode = "sorted" => IsOrdered(srcA) /\ IsOrdered(srcB) /\ Unique(srcB)

Output == [place \in Places |-> Item(place)]

(* The first m rows of one source and the rows D of the other are there     *)
(* once.                                                                    *)
Once(O, m, D) ==
    /\ \A p \in DOMAIN O : O[p].a \in 0 .. m /\ O[p].b \in D \cup {0}
    /\ \A p, q \in DOMAIN O : O[p].a = O[q].a /\ O[p].a # 0 => p = q
    /\ \A p, q \in DOMAIN O : O[p].b = O[q].b /\ O[p].b # 0 => p = q
    /\ \A i \in 1 .. m : \E p \in DOMAIN O : O[p].a = i
    /\ \A j \in D : \E p \in DOMAIN O : O[p].b = j

(* A row of the output is one of source_a with one of source_b that have a  *)
(* key that no earlier row of source_a has, or one alone.                   *)
Fits(item, A, B) ==
    IF item.a # 0 /\ item.b # 0
    THEN /\ A[item.a].key = B[item.b].key
         /\ \A i \in 1 .. item.a - 1 : A[i].key # A[item.a].key
         /\ Uniform(A) /\ Uniform(B)
              => item.cols = A[item.a].cols \cup B[item.b].cols
    ELSE item.b # 0 => \A i \in DOMAIN A : A[i].key # B[item.b].key

StreamTypes ==
    /\ mode \in {"hash", "sorted"} /\ srcA \in SourceA /\ srcB \in SourceB
    /\ put \in 0 .. Len(srcA) /\ next \in 0 .. Len(srcA)
    /\ mode = "hash" => next <= put
    /\ left \subseteq Candidates
    /\ mode = "sorted" => \A j \in left : \A l \in DOMAIN srcB : j <= l => l \in left
    /\ producer = "ended" => put = Len(srcA)
    /\ consumer = "draining" => mode = "hash" /\ next = Len(srcA)
    /\ consumer = "done" => next = Len(srcA) /\ left = {}
    /\ Batching

Joined ==
    /\ Once(Output, next, Taken)
    /\ \A place \in Places : Fits(Item(place), srcA, srcB)
    /\ \A i \in 1 .. next : \A j \in left : srcA[i].key # srcB[j].key
    /\ Uniform(srcA) /\ Uniform(srcB) /\ cached # {}
         => \E i \in DOMAIN srcA, j \in DOMAIN srcB : cached = srcA[i].cols \cup srcB[j].cols

(* What merge_sorted_stream has seen of its sources is in order.            *)
Checked ==
    mode = "sorted" =>
        /\ \A i \in 1 .. next - 1 : srcA[i].key <= srcA[i + 1].key
        /\ \A j \in Taken : j > 1 => srcB[j - 1].key <= srcB[j].key
        /\ consumer = "raised" => ~ IsOrdered(srcA) \/ ~ IsOrdered(srcB)

StreamInv == StreamTypes /\ Checked /\ (Joinable => Joined)

LEMMA MinIsLeast ==
    ASSUME NEW S, S \subseteq Nat, S # {}
    PROVE  Min(S) \in S /\ \A x \in S : Min(S) <= x
<1>1. PICK m \in S : \A x \in Nat : x < m => x \notin S
  BY Sending!Least
<1>2. m \in Nat /\ \A x \in S : m <= x
  BY <1>1
<1> QED BY <1>2 DEF Min

LEMMA SourceFields ==
    ASSUME StreamTypes
    PROVE  /\ Len(srcA) \in Nat /\ DOMAIN srcA = 1 .. Len(srcA)
           /\ \A i \in DOMAIN srcA : srcA[i].key \in Int
           /\ Len(srcB) \in Nat /\ DOMAIN srcB = 1 .. Len(srcB)
           /\ \A j \in DOMAIN srcB : srcB[j].key \in Int
           /\ \A i \in DOMAIN srcA : srcA[i].cols \in SUBSET Column
           /\ \A j \in DOMAIN srcB : srcB[j].cols \in SUBSET Column
           /\ Candidates \subseteq DOMAIN srcB
<1>1. srcA \in SourceA \cup SourceB /\ srcB \in SourceA \cup SourceB
  BY DEF StreamTypes
<1>2. \A src \in SourceA \cup SourceB : \A i \in DOMAIN src : src[i].cols \in SUBSET Column
  BY DEF Column
<1>3. Candidates \subseteq DOMAIN srcB
  BY DEF Candidates, Indexed
<1> QED BY <1>1, <1>2, <1>3, SourceAssumption

LEMMA OrderedAll ==
    ASSUME NEW src, Len(src) \in Nat, DOMAIN src = 1 .. Len(src),
           \A i \in DOMAIN src : src[i].key \in Int, IsOrdered(src)
    PROVE  \A i, j \in DOMAIN src : i <= j => src[i].key <= src[j].key
<1> SUFFICES ASSUME NEW i \in DOMAIN src
             PROVE  \A j \in DOMAIN src : i <= j => src[i].key <= src[j].key
  OBVIOUS
<1> DEFINE Bad == {j \in Nat : j \in DOMAIN src /\ i <= j /\ ~ (src[i].key <= src[j].key)}
<1>1. ASSUME NEW j \in Bad, \A m \in Nat : m < j => m \notin Bad
      PROVE  FALSE
  <2>1. j \in Nat /\ j \in DOMAIN src /\ i \in Nat /\ i <= j /\ ~ (src[i].key <= src[j].key)
    OBVIOUS
  <2>2. i < j
    BY <2>1
  <2>3. j - 1 \in Nat /\ j - 1 < j /\ j - 1 \in DOMAIN src /\ i <= j - 1
    BY <2>1, <2>2
  <2>4. src[i].key <= src[j - 1].key
    <3>1. j - 1 \notin Bad
      <4> HIDE DEF Bad
      <4> QED BY <1>1, <2>3
    <3> QED BY <2>3, <3>1
  <2>5. src[j - 1].key <= src[j].key
    <3>1. j - 1 \in 1 .. Len(src) - 1 /\ (j - 1) + 1 = j
      BY <2>1, <2>3
    <3> QED BY <3>1 DEF IsOrdered
  <2>6. src[i].key \in Int /\ src[j - 1].key \in Int /\ src[j].key \in Int
    BY <2>1, <2>3
  <2> QED BY <2>1, <2>4, <2>5, <2>6
<1>2. Bad = {}
  <2>1. Bad \subseteq Nat
    OBVIOUS
  <2> HIDE DEF Bad
  <2>2. Bad # {} => \E j \in Bad : \A m \in Nat : m < j => m \notin Bad
    BY <2>1, Sending!Least
  <2> QED BY <2>2, <1>1
<1> QED BY <1>2

(* One more row of output, at x *)
OneMore(O, N, x, m, n, D, E) ==
    /\ x \notin DOMAIN O /\ DOMAIN N = DOMAIN O \cup {x}
    /\ \A p \in DOMAIN O : N[p] = O[p]
    /\ \/ N[x].a = 0 /\ n = m
       \/ N[x].a = m + 1 /\ n = m + 1
    /\ \/ N[x].b = 0 /\ E = D
       \/ N[x].b \in Nat \ D /\ N[x].b # 0 /\ E = D \cup {N[x].b}

LEMMA OnceMore ==
    ASSUME NEW O, NEW m \in Nat, NEW D, D \subseteq Nat \ {0}, Once(O, m, D),
           NEW N, NEW x, NEW n, NEW E, OneMore(O, N, x, m, n, D, E)
    PROVE  Once(N, n, E)
<1> USE DEF OneMore
<1>1. \A p \in DOMAIN N : N[p].a \in 0 .. n /\ N[p].b \in E \cup {0}
  BY DEF Once
<1>2. ASSUME NEW p \in DOMAIN N, NEW q \in DOMAIN N, N[p].a = N[q].a, N[p].a # 0
      PROVE  p = q
  BY <1>2 DEF Once
<1>3. ASSUME NEW p \in DOMAIN N, NEW q \in DOMAIN N, N[p].b = N[q].b, N[p].b # 0
      PROVE  p = q
  BY <1>3 DEF Once
<1>4. \A i \in 1 .. n : \E p \in DOMAIN N : N[p].a = i
  BY DEF Once
<1>5. ASSUME NEW j \in E
      PROVE  \E p \in DOMAIN N : N[p].b = j
  <2>1. CASE j \in D
    <3>1. PICK p \in DOMAIN O : O[p].b = j
      BY <2>1 DEF Once
    <3> QED BY <3>1
  <2>2. CASE j \notin D
    <3>1. j = N[x].b /\ x \in DOMAIN N
      BY <2>2
    <3> QED BY <3>1
  <2> QED BY <2>1, <2>2
<1> QED BY <1>1, <1>2, <1>3, <1>4, <1>5 DEF Once

LEMMA Grown ==
    ASSUME StreamTypes, Joined, NEW item \in OutputRow, Yield(item), consumer # "done",
           UNCHANGED sources,
           \/ item.a = 0 /\ next' = next
           \/ item.a = next + 1 /\ next' = next + 1,
           \/ item.b = 0 /\ left' = left
           \/ item.b \in left /\ left' = left \ {item.b},
           Fits(item, srcA, srcB)
    PROVE  Once(Output, next, Taken)' /\ \A place \in Places' : Fits(Item(place)', srcA, srcB)
<1>1. /\ Places' = Places \cup {NewPlace} /\ NewPlace \notin Places
      /\ \A place : place = NewPlace => Item(place)' = item
      /\ \A place \in Places : Item(place)' = Item(place)
  BY Yielded, StreamAssumption DEF StreamTypes
<1>2. Candidates' = Candidates /\ Candidates \subseteq Nat \ {0} /\ left \subseteq Candidates
  <2>1. Candidates \subseteq DOMAIN srcB /\ DOMAIN srcB \subseteq Nat \ {0}
    BY SourceFields
  <2> QED BY <2>1 DEF sources, Candidates, StreamTypes
<1>3. Taken \subseteq Nat \ {0} /\ next \in Nat
  BY <1>2 DEF Taken, StreamTypes
<1>4. \/ item.b = 0 /\ Taken' = Taken
      \/ item.b \in Nat \ Taken /\ item.b # 0 /\ Taken' = Taken \cup {item.b}
  BY <1>2 DEF Taken
<1>5. /\ DOMAIN Output' = DOMAIN Output \cup {NewPlace} /\ NewPlace \notin DOMAIN Output
      /\ \A p \in DOMAIN Output : Output'[p] = Output[p]
      /\ Output'[NewPlace] = item
  BY <1>1 DEF Output
<1>6. Once(Output, next, Taken)
  BY DEF Joined
<1>7. Once(Output', next', Taken')
  <2> DEFINE O == Output
             N == Output'
             n == next'
             m == next
             D == Taken
             E == Taken'
             x == NewPlace
  <2> HIDE DEF O, N, n, m, D, E, x
  <2>1. /\ D \subseteq Nat \ {0} /\ m \in Nat /\ Once(O, m, D)
    BY <1>3, <1>6 DEF O, m, D
  <2>2. OneMore(O, N, x, m, n, D, E)
    BY <1>4, <1>5 DEF O, N, x, n, m, D, E, OneMore
  <2>3. Once(N, n, E)
    BY <2>1, <2>2, OnceMore
  <2> QED BY <2>3 DEF N, n, E
<1>8. \A place \in Places' : Fits(Item(place)', srcA, srcB)
  BY <1>1 DEF Joined
<1> QED BY <1>7, <1>8

-----------------------------------------------------------------------------
(* The steps of the stream *)

LEMMA StreamStarts == StreamInit => StreamInv
<1> SUFFICES ASSUME StreamInit
             PROVE  StreamInv
  OBVIOUS
<1>1. left = Candidates /\ Taken = {}
  BY DEF StreamInit, Candidates, Taken
<1>2. Batching
  BY StreamAssumption DEF StreamInit, Batching
<1>3. /\ Len(srcA) \in Nat
      /\ mode = "sorted" => left = DOMAIN srcB
  BY SourceAssumption DEF StreamInit
<1>4. StreamTypes
  BY <1>1, <1>2, <1>3 DEF StreamInit, StreamTypes
<1>5. Places = {}
  BY <1>2, PlaceOf DEF StreamInit
<1>6. Joined
  <2>1. DOMAIN Output = {}
    BY <1>5 DEF Output
  <2>2. Once(Output, next, Taken)
    BY <1>1, <2>1 DEF Once, StreamInit
  <2> QED BY <1>5, <2>2 DEF Joined, StreamInit
<1>7. Checked
  BY <1>1 DEF Checked, StreamInit
<1> QED BY <1>4, <1>6, <1>7 DEF StreamInv

jobs == <<sources, next, left, cached, batch, out>>

LEMMA JoinedSame ==
    ASSUME UNCHANGED jobs, Joinable => Joined
    PROVE  (Joinable => Joined)'
BY DEF jobs, sources, Joinable, Joined, Output, Places, Item, Batches, Taken, Candidates

LEMMA BatchingSame ==
    ASSUME Batching, UNCHANGED <<batch, out>>, consumer # "done", consumer' # "done"
    PROVE  Batching'
BY DEF Batching

LEMMA ProduceStep ==
    ASSUME StreamInv, Produce \/ SourceRaises
    PROVE  StreamInv'
<1>1. UNCHANGED jobs /\ UNCHANGED consumer
  BY DEF Produce, PutRow, PutEnd, SourceRaises, jobs, consumerVars
<1>2. Candidates' = Candidates
  BY <1>1 DEF jobs, sources, Candidates
<1>3. Batching'
  BY <1>1 DEF jobs, StreamInv, StreamTypes, Batching
<1>4. /\ put' \in 0 .. Len(srcA) /\ (mode = "hash" => next <= put')
      /\ producer' = "ended" => put' = Len(srcA)
  <2>1. next \in Nat /\ put \in Nat /\ put <= Len(srcA) /\ Len(srcA) \in Nat
    BY SourceFields DEF StreamInv, StreamTypes
  <2>2. CASE PutRow
    BY <2>1, <2>2 DEF PutRow, StreamInv, StreamTypes
  <2>3. CASE PutEnd \/ SourceRaises
    BY <2>1, <2>3 DEF PutEnd, SourceRaises, StreamInv, StreamTypes
  <2> QED BY <2>2, <2>3 DEF Produce
<1>5. StreamTypes'
  BY <1>1, <1>2, <1>3, <1>4 DEF jobs, sources, StreamInv, StreamTypes
<1>6. Checked'
  BY <1>1, <1>2 DEF jobs, sources, StreamInv, Checked, Taken
<1> QED BY <1>1, <1>5, <1>6, JoinedSame DEF StreamInv

LEMMA QuietConsumer ==
    ASSUME StreamInv, TakeEnd \/ RaiseUnsorted \/ Close
    PROVE  StreamInv'
<1>1. UNCHANGED jobs /\ UNCHANGED producerVars
  BY DEF TakeEnd, RaiseUnsorted, Close, jobs
<1>2. consumer # "done" /\ consumer' # "done"
  BY DEF TakeEnd, RaiseUnsorted, Close
<1>3. Batching'
  BY <1>1, <1>2, BatchingSame DEF jobs, StreamInv, StreamTypes
<1>4. Candidates' = Candidates
  BY <1>1 DEF jobs, sources, Candidates
<1>5. consumer' = "draining" => mode = "hash" /\ next = Len(srcA)
  BY DEF TakeEnd, RaiseUnsorted, Close, StreamInv, StreamTypes
<1>6. StreamTypes'
  BY <1>1, <1>2, <1>3, <1>4, <1>5 DEF jobs, sources, producerVars, StreamInv, StreamTypes
<1>7. mode = "sorted" /\ consumer' = "raised" => ~ IsOrdered(srcA) \/ ~ IsOrdered(srcB)
  <2>1. CASE RaiseUnsorted
    <3>1. /\ next \in Nat /\ Len(srcA) \in Nat /\ DOMAIN srcA = 1 .. Len(srcA)
          /\ Len(srcB) \in Nat /\ DOMAIN srcB = 1 .. Len(srcB)
          /\ \A i \in DOMAIN srcA : srcA[i].key \in Int
          /\ \A j \in DOMAIN srcB : srcB[j].key \in Int
          /\ left \subseteq DOMAIN srcB
      BY SourceFields DEF StreamInv, StreamTypes
    <3>2. CASE next < Len(srcA) /\ next > 0 /\ srcA[next + 1].key < srcA[next].key
      <4>1. next \in 1 .. Len(srcA) - 1 /\ ~ (srcA[next].key <= srcA[next + 1].key)
        BY <3>1, <3>2
      <4> QED BY <4>1 DEF IsOrdered
    <3>3. CASE left # {} /\ Min(left) > 1 /\ srcB[Min(left)].key < srcB[Min(left) - 1].key
      <4>1. Min(left) \in left
        BY <3>1, <3>3, MinIsLeast
      <4>2. Min(left) - 1 \in 1 .. Len(srcB) - 1 /\ (Min(left) - 1) + 1 = Min(left)
        BY <3>1, <3>3, <4>1
      <4>3. ~ (srcB[Min(left) - 1].key <= srcB[Min(left)].key)
        BY <3>1, <3>3, <4>1, <4>2
      <4> QED BY <4>2, <4>3 DEF IsOrdered
    <3> QED BY <2>1, <3>2, <3>3 DEF RaiseUnsorted, OutOfOrder
  <2>2. CASE ~ RaiseUnsorted
    BY <2>2 DEF TakeEnd, Close
  <2> QED BY <2>1, <2>2
<1>8. Checked'
  BY <1>1, <1>4, <1>7 DEF jobs, sources, StreamInv, Checked, Taken
<1> QED BY <1>1, <1>6, <1>8, JoinedSame DEF StreamInv

LEMMA FinishStep ==
    ASSUME StreamInv, Finish
    PROVE  StreamInv'
<1>1. /\ UNCHANGED <<sources, producerVars, next, left, cached>>
      /\ consumer # "done" /\ consumer' = "done" /\ batch' = <<>>
      /\ out' = IF batch = <<>> THEN out ELSE Append(out, batch)
      /\ next = Len(srcA) /\ left = {}
  BY DEF Finish, StreamInv, StreamTypes
<1>2. /\ out \in Seq(Seq(OutputRow)) /\ batch \in Seq(OutputRow)
      /\ \A n \in DOMAIN out : Len(out[n]) = BatchSize
      /\ BatchSize > 0
  BY <1>1, StreamAssumption DEF StreamInv, StreamTypes, Batching
<1>3. Batching'
  <2>1. CASE batch = <<>>
    BY <1>1, <1>2, <2>1 DEF Batching
  <2>2. CASE batch # <<>>
    <3>1. out' = Append(out, batch)
      BY <1>1, <2>2
    <3>2. /\ out' \in Seq(Seq(OutputRow)) /\ Len(out') = Len(out) + 1
          /\ \A n \in DOMAIN out' : n = Len(out') \/ (n \in DOMAIN out /\ out'[n] = out[n])
      BY <1>2, <3>1
    <3> QED BY <1>1, <1>2, <3>2 DEF Batching
  <2> QED BY <2>1, <2>2
<1>4. Places' = Places /\ \A place \in Places : Item(place)' = Item(place)
  <2>1. /\ DOMAIN Batches = DOMAIN out \cup {Len(out) + 1}
        /\ \A n \in DOMAIN out : Batches[n] = out[n]
        /\ Batches[Len(out) + 1] = batch
    BY <1>2 DEF Batches
  <2>2. CASE batch = <<>>
    BY <1>1, <2>2 DEF Places, Item, Batches
  <2>3. CASE batch # <<>>
    <3>1. /\ DOMAIN Batches' = DOMAIN out \cup {Len(out) + 1, Len(out) + 2}
          /\ \A n \in DOMAIN out : Batches'[n] = out[n]
          /\ Batches'[Len(out) + 1] = batch
          /\ DOMAIN Batches'[Len(out) + 2] = {}
      <4>1. out' = Append(out, batch) /\ batch' = <<>>
        BY <1>1, <2>3
      <4>2. /\ out' \in Seq(Seq(OutputRow)) /\ Len(out') = Len(out) + 1
            /\ DOMAIN out' = DOMAIN out \cup {Len(out) + 1}
            /\ \A n \in DOMAIN out : out'[n] = out[n]
            /\ out'[Len(out) + 1] = batch
        BY <1>2, <4>1
      <4> QED BY <1>2, <4>1, <4>2 DEF Batches
    <3>2. Places' = Places
      BY <2>1, <3>1 DEF Places
    <3>3. \A place \in Places : Item(place)' = Item(place)
      BY <2>1, <3>1 DEF Places, Item
    <3> QED BY <3>2, <3>3
  <2> QED BY <2>2, <2>3
<1>5. Candidates' = Candidates /\ Taken' = Taken
  BY <1>1 DEF sources, Candidates, Taken
<1>6. StreamTypes'
  BY <1>1, <1>3, <1>5 DEF sources, producerVars, StreamInv, StreamTypes
<1>7. Checked'
  BY <1>1, <1>5 DEF sources, StreamInv, Checked
<1>8. (Joinable => Joined)'
  <2>1. Output' = Output
    BY <1>4 DEF Output
  <2> QED BY <1>1, <1>4, <1>5, <2>1 DEF sources, StreamInv, Joinable, Joined
<1> QED BY <1>6, <1>7, <1>8 DEF StreamInv

(* What is left of the invariant when a row of output is added *)
LEMMA RowAdded ==
    ASSUME StreamInv, NEW item \in OutputRow, Yield(item), consumer # "done",
           UNCHANGED <<sources, producerVars, consumer>>,
           \/ item.a = 0 /\ next' = next
           \/ item.a = next + 1 /\ next' = next + 1 /\ next < Len(srcA),
           \/ item.b = 0 /\ left' = left
           \/ item.b \in left /\ left' = left \ {item.b},
           mode = "hash" => next' <= put,
           consumer = "draining" => next' = next,
           mode = "sorted" => \A j \in left' : \A l \in DOMAIN srcB : j <= l => l \in left',
           Checked',
           Joinable => Fits(item, srcA, srcB),
           Joinable => \A i \in 1 .. next' : \A j \in left' : srcA[i].key # srcB[j].key,
           Joinable /\ Uniform(srcA) /\ Uniform(srcB) /\ cached' # {}
             => \E i \in DOMAIN srcA, j \in DOMAIN srcB :
                  cached' = srcA[i].cols \cup srcB[j].cols
    PROVE  StreamInv'
<1>1. StreamTypes
  BY DEF StreamInv
<1>2. /\ srcA' = srcA /\ srcB' = srcB /\ mode' = mode /\ consumer' = consumer
      /\ producer' = producer /\ put' = put /\ Candidates' = Candidates
  BY DEF sources, producerVars, Candidates
<1>3. Batching'
  <2>1. Batching /\ BatchSize \in Nat \ {0}
    BY <1>1, StreamAssumption DEF StreamTypes
  <2>2. /\ out' \in Seq(Seq(OutputRow)) /\ batch' \in Seq(OutputRow)
        /\ Len(batch') < BatchSize
        /\ \A n \in DOMAIN out' : Len(out'[n]) = BatchSize
    BY <2>1, Yielded
  <2> QED BY <1>2, <2>2 DEF Batching
<1>4. next' \in 0 .. Len(srcA) /\ left' \subseteq Candidates
  BY <1>1, SourceFields DEF StreamTypes
<1>5. StreamTypes'
  BY <1>1, <1>2, <1>3, <1>4 DEF StreamTypes
<1>6. ASSUME Joinable'
      PROVE  Joined'
  <2>1. Joinable /\ Joined
    BY <1>2, <1>6 DEF Joinable, StreamInv
  <2>2. \/ item.a = 0 /\ next' = next
        \/ item.a = next + 1 /\ next' = next + 1
    OBVIOUS
  <2>3. Fits(item, srcA, srcB) /\ UNCHANGED sources
    BY <2>1
  <2>4. Once(Output, next, Taken)' /\ \A place \in Places' : Fits(Item(place)', srcA, srcB)
    BY <1>1, <2>1, <2>2, <2>3, Grown
  <2> QED BY <1>2, <2>1, <2>4 DEF Joined
<1> QED BY <1>5, <1>6 DEF StreamInv

LEMMA AloneFits ==
    ASSUME StreamTypes
    PROVE  /\ \A i \in DOMAIN srcA :
                /\ Alone(i) \in OutputRow /\ Alone(i).a = i /\ Alone(i).b = 0
                /\ Fits(Alone(i), srcA, srcB)
           /\ \A j \in DOMAIN srcB :
                /\ AloneB(j) \in OutputRow /\ AloneB(j).a = 0 /\ AloneB(j).b = j
                /\ (\A i \in DOMAIN srcA : srcA[i].key # srcB[j].key)
                     => Fits(AloneB(j), srcA, srcB)
BY SourceFields DEF Alone, AloneB, OutputRow, Fits

LEMMA DrainRowStep ==
    ASSUME StreamInv, DrainRow
    PROVE  StreamInv'
<1>1. PICK j \in left : Yield(AloneB(j)) /\ left' = left \ {j}
  BY DEF DrainRow
<1>2. /\ consumer = "draining" /\ mode = "hash" /\ next = Len(srcA)
      /\ UNCHANGED <<sources, producerVars, next, cached, consumer>>
      /\ StreamTypes
  BY DEF DrainRow, StreamInv, StreamTypes
<1>3. j \in DOMAIN srcB /\ next \in Nat /\ DOMAIN srcA = 1 .. next
  BY <1>2, SourceFields DEF StreamTypes
<1>4. Joinable /\ Joined
  BY <1>2 DEF StreamInv, Joinable
<1>5. \A i \in DOMAIN srcA : srcA[i].key # srcB[j].key
  BY <1>3, <1>4 DEF Joined
<1>6. /\ AloneB(j) \in OutputRow /\ AloneB(j).a = 0 /\ AloneB(j).b = j
      /\ Fits(AloneB(j), srcA, srcB)
  BY <1>2, <1>3, <1>5, AloneFits
<1>7. Checked'
  BY <1>2 DEF sources, Checked
<1>8. \A i \in 1 .. next' : \A l \in left' : srcA[i].key # srcB[l].key
  BY <1>1, <1>2, <1>4 DEF Joined
<1>9. next' = next /\ next' <= put
  BY <1>2 DEF StreamTypes
<1>10. mode # "sorted" /\ consumer # "done"
  BY <1>2
<1>11. Uniform(srcA) /\ Uniform(srcB) /\ cached' # {}
         => \E i \in DOMAIN srcA, l \in DOMAIN srcB : cached' = srcA[i].cols \cup srcB[l].cols
  BY <1>2, <1>4 DEF Joined
<1> HIDE DEF AloneB
<1> QED BY <1>1, <1>2, <1>6, <1>7, <1>8, <1>9, <1>10, <1>11, RowAdded

LEMMA TakeRowStep ==
    ASSUME StreamInv, TakeRow
    PROVE  StreamInv'
<1> DEFINE i == next + 1
           matches == {j \in left : srcB[j].key = srcA[i].key}
           cols == srcA[i].cols \cup UNION {srcB[j].cols : j \in matches}
           item == IF matches = {} THEN Alone(i)
                   ELSE [a |-> i, b |-> Max(matches), cols |-> cols \cap cached']
<1>1. /\ mode = "hash" /\ consumer = "reading" /\ next < put /\ next' = next + 1
      /\ left' = left \ matches
      /\ cached' = IF matches = {} THEN cached ELSE CacheColumns(cols)
      /\ Yield(item)
      /\ UNCHANGED <<sources, producerVars, consumer>>
      /\ StreamTypes
  BY DEF TakeRow, StreamInv
<1>2. /\ next \in Nat /\ put \in Nat /\ next < Len(srcA) /\ next' <= put
      /\ i \in DOMAIN srcA /\ left \subseteq DOMAIN srcB /\ DOMAIN srcB \subseteq Nat \ {0}
  BY <1>1, SourceFields DEF StreamTypes
<1>3. Joinable /\ Joined
  BY <1>1 DEF StreamInv, Joinable
<1>4. \A j, l \in left : srcB[j].key = srcB[l].key => j = l
  <2>1. left \subseteq Indexed(srcB)
    BY <1>1 DEF StreamTypes, Candidates
  <2> QED BY <1>2, <2>1 DEF Indexed
<1>5. Checked'
  BY <1>1 DEF sources, Checked
<1>6. \A k \in 1 .. next' : \A l \in left' : srcA[k].key # srcB[l].key
  <2>1. ASSUME NEW k \in 1 .. next', NEW l \in left'
        PROVE  srcA[k].key # srcB[l].key
    <3>1. CASE k = i
      BY <1>1, <3>1
    <3>2. CASE k # i
      <4>1. k \in 1 .. next /\ l \in left
        BY <1>1, <1>2, <3>2
      <4> QED BY <1>3, <4>1 DEF Joined
    <3> QED BY <3>1, <3>2
  <2> QED BY <2>1
<1>7. consumer # "done" /\ mode # "sorted" /\ consumer # "draining"
  BY <1>1
<1>8. CASE matches = {}
  <2>1. /\ item = Alone(i) /\ left' = left /\ cached' = cached
    BY <1>1, <1>8
  <2>2. item \in OutputRow /\ item.a = i /\ item.b = 0 /\ Fits(item, srcA, srcB)
    <3> HIDE DEF item, i
    <3> QED BY <1>1, <1>2, <2>1, AloneFits
  <2>3. Uniform(srcA) /\ Uniform(srcB) /\ cached' # {}
          => \E k \in DOMAIN srcA, l \in DOMAIN srcB :
               cached' = srcA[k].cols \cup srcB[l].cols
    BY <1>3, <2>1 DEF Joined
  <2>4. item.a = next + 1
    BY <2>2
  <2> HIDE DEF item, i, matches
  <2> QED BY <1>1, <1>2, <1>5, <1>6, <1>7, <2>1, <2>2, <2>3, <2>4, RowAdded
<1>9. CASE matches # {}
  <2>1. PICK m \in left : matches = {m}
    BY <1>4, <1>9
  <2>2. Max(matches) = m
    <3> HIDE DEF matches
    <3> QED BY <1>2, <2>1 DEF Max
  <2>3. /\ cols = srcA[i].cols \cup srcB[m].cols
        /\ srcB[m].key = srcA[i].key
    BY <2>1
  <2>4. item = [a |-> i, b |-> m, cols |-> cols \cap cached'] /\ left' = left \ {m}
    BY <1>1, <1>9, <2>1, <2>2
  <2>5. cols \in SUBSET Column
    <3>1. srcA[i].cols \in SUBSET Column /\ srcB[m].cols \in SUBSET Column
      BY <1>1, <1>2, <2>1, SourceFields
    <3> HIDE DEF cols, i
    <3> QED BY <2>3, <3>1
  <2>6. /\ item \in OutputRow /\ item.a = i /\ item.b = m
        /\ item.a # 0 /\ item.b # 0 /\ item.cols = cols \cap cached'
    <3>1. i \in Nat /\ m \in Nat /\ i # 0 /\ m # 0
      BY <1>2, <2>1
    <3> HIDE DEF item, i, cols
    <3> QED BY <2>4, <2>5, <3>1 DEF OutputRow
  <2>7. \A k \in 1 .. i - 1 : srcA[k].key # srcA[i].key
    <3>1. \A k \in 1 .. next : srcA[k].key # srcB[m].key
      BY <1>3 DEF Joined
    <3> QED BY <1>2, <2>3, <3>1
  <2>8. Uniform(srcA) /\ Uniform(srcB) => cached' = cols
    <3> SUFFICES ASSUME Uniform(srcA), Uniform(srcB)
                 PROVE  cached' = cols
      OBVIOUS
    <3>1. cached' = CacheColumns(cols)
      BY <1>1, <1>9
    <3>2. cached # {} => cached = cols
      <4> SUFFICES ASSUME cached # {}
                   PROVE  cached = cols
        OBVIOUS
      <4>1. PICK k \in DOMAIN srcA, l \in DOMAIN srcB :
              cached = srcA[k].cols \cup srcB[l].cols
        BY <1>3 DEF Joined
      <4>2. srcA[k].cols = srcA[i].cols /\ srcB[l].cols = srcB[m].cols
        BY <1>2 DEF Uniform
      <4> HIDE DEF cols
      <4> QED BY <2>3, <4>1, <4>2
    <3> HIDE DEF cols
    <3> QED BY <3>1, <3>2 DEF CacheColumns
  <2>9. Fits(item, srcA, srcB)
    <3> HIDE DEF item, i, cols
    <3>1. Uniform(srcA) /\ Uniform(srcB) => item.cols = srcA[i].cols \cup srcB[m].cols
      BY <2>3, <2>6, <2>8
    <3> QED BY <2>3, <2>6, <2>7, <3>1 DEF Fits
  <2>10. Uniform(srcA) /\ Uniform(srcB) /\ cached' # {}
           => \E k \in DOMAIN srcA, l \in DOMAIN srcB :
                cached' = srcA[k].cols \cup srcB[l].cols
    <3> HIDE DEF cols
    <3> QED BY <1>2, <2>1, <2>3, <2>8
  <2>11. item.a = next + 1 /\ item.b \in left /\ left' = left \ {item.b}
    BY <2>4, <2>6
  <2> HIDE DEF item, i, matches, cols
  <2> QED BY <1>1, <1>2, <1>5, <1>6, <1>7, <2>6, <2>9, <2>10, <2>11, RowAdded
<1> QED BY <1>8, <1>9

LEMMA JoinRowStep ==
    ASSUME StreamInv, JoinRow
    PROVE  StreamInv'
<1> DEFINE i == next + 1
           j == Min(left)
           hasA == next < Len(srcA)
           hasB == left # {}
           takeA == hasA /\ (hasB => srcA[i].key <= srcB[j].key)
           takeB == hasB /\ (hasA => srcB[j].key <= srcA[i].key)
           both == [a |-> i, b |-> j, cols |-> srcA[i].cols \cup srcB[j].cols]
           item == IF takeA /\ takeB THEN both ELSE IF takeA THEN Alone(i) ELSE AloneB(j)
<1>1. /\ mode = "sorted" /\ consumer = "reading" /\ ~ OutOfOrder /\ (hasA \/ hasB)
      /\ Yield(item)
      /\ next' = IF takeA THEN i ELSE next
      /\ left' = IF takeB THEN left \ {j} ELSE left
      /\ UNCHANGED <<sources, producerVars, cached, consumer>>
      /\ StreamTypes /\ Checked
  BY DEF JoinRow, StreamInv
<1>2. /\ next \in Nat /\ Len(srcA) \in Nat /\ next <= Len(srcA)
      /\ DOMAIN srcA = 1 .. Len(srcA) /\ DOMAIN srcB = 1 .. Len(srcB) /\ Len(srcB) \in Nat
      /\ \A k \in DOMAIN srcA : srcA[k].key \in Int
      /\ \A k \in DOMAIN srcB : srcB[k].key \in Int
      /\ left \subseteq DOMAIN srcB /\ Candidates = DOMAIN srcB
      /\ \A k \in left : \A l \in DOMAIN srcB : k <= l => l \in left
  BY <1>1, SourceFields DEF StreamTypes, Candidates
<1>3. hasB => j \in left /\ \A k \in left : j <= k
  BY <1>2, MinIsLeast
<1>4. hasA => i \in DOMAIN srcA /\ srcA[i].key \in Int
  BY <1>2
<1>5. hasB => j \in DOMAIN srcB /\ srcB[j].key \in Int /\ j \in Nat /\ j # 0
  BY <1>2, <1>3
<1>6. /\ hasA /\ next > 0 => srcA[next].key <= srcA[next + 1].key
      /\ hasB /\ j > 1 => srcB[j - 1].key <= srcB[j].key
  <2>1. hasA /\ next > 0 => srcA[next].key <= srcA[next + 1].key
    <3>1. hasA /\ next > 0 => ~ (srcA[next + 1].key < srcA[next].key)
      BY <1>1 DEF OutOfOrder
    <3>2. hasA /\ next > 0 => srcA[next].key \in Int
      BY <1>2
    <3> QED BY <1>4, <3>1, <3>2
  <2>2. hasB /\ j > 1 => srcB[j - 1].key <= srcB[j].key
    <3>1. hasB /\ j > 1 => ~ (srcB[j].key < srcB[j - 1].key)
      BY <1>1 DEF OutOfOrder
    <3>2. hasB /\ j > 1 => srcB[j - 1].key \in Int
      BY <1>2, <1>5
    <3> QED BY <1>5, <3>1, <3>2
  <2> QED BY <2>1, <2>2
<1> HIDE DEF i, j
<1>7. Checked'
  <2>1. ASSUME NEW k \in 1 .. next' - 1
        PROVE  srcA[k].key <= srcA[k + 1].key
    <3>1. CASE k \in 1 .. next - 1
      BY <1>1, <3>1 DEF Checked
    <3>2. CASE k \notin 1 .. next - 1
      <4>1. takeA /\ k = next /\ next > 0
        BY <1>1, <1>2, <3>2 DEF i
      <4> QED BY <1>6, <4>1
    <3> QED BY <3>1, <3>2
  <2>2. ASSUME NEW k \in DOMAIN srcB \ left', k > 1
        PROVE  srcB[k - 1].key <= srcB[k].key
    <3>1. CASE k \in Taken
      BY <1>1, <2>2, <3>1 DEF Checked
    <3>2. CASE k \notin Taken
      <4>1. takeB /\ k = j
        BY <1>1, <1>2, <3>2 DEF Taken
      <4> QED BY <1>6, <2>2, <4>1
    <3> QED BY <3>1, <3>2
  <2>3. /\ srcA' = srcA /\ srcB' = srcB /\ consumer' # "raised"
        /\ Taken' = DOMAIN srcB \ left'
    BY <1>1, <1>2 DEF sources, Taken, Candidates
  <2> QED BY <2>1, <2>2, <2>3 DEF Checked
<1>8. \A k \in left' : \A l \in DOMAIN srcB : k <= l => l \in left'
  BY <1>1, <1>2, <1>3
<1>9. Joinable => /\ \A k, l \in DOMAIN srcA : k <= l => srcA[k].key <= srcA[l].key
                  /\ \A k, l \in DOMAIN srcB : k <= l => srcB[k].key <= srcB[l].key
                  /\ Unique(srcB) /\ Joined
  BY <1>1, <1>2, OrderedAll DEF Joinable, StreamInv
<1>10. consumer # "done" /\ consumer # "draining" /\ mode # "hash"
  BY <1>1
<1>11. Joinable /\ Uniform(srcA) /\ Uniform(srcB) /\ cached' # {}
         => \E k \in DOMAIN srcA, l \in DOMAIN srcB : cached' = srcA[k].cols \cup srcB[l].cols
  BY <1>1, <1>9 DEF Joined
<1>12. CASE takeA /\ takeB
  <2>1. /\ item = both /\ next' = i /\ left' = left \ {j} /\ hasA /\ hasB
        /\ srcA[i].key = srcB[j].key
    BY <1>1, <1>4, <1>5, <1>12
  <2>2. both \in OutputRow /\ both.a = i /\ both.b = j
    <3>1. srcA[i].cols \in SUBSET Column /\ srcB[j].cols \in SUBSET Column
      BY <1>1, <1>4, <1>5, <2>1, SourceFields
    <3>2. i \in Nat /\ j \in Nat
      BY <1>2, <1>5, <2>1 DEF i
    <3> QED BY <3>1, <3>2 DEF OutputRow
  <2>3. Joinable => \A k \in 1 .. next : srcA[k].key # srcB[j].key
    BY <1>3, <1>9, <2>1 DEF Joined
  <2>4. Joinable => Fits(both, srcA, srcB)
    <3>1. i - 1 = next /\ i # 0 /\ j # 0
      BY <1>2, <1>5, <2>1 DEF i
    <3> QED BY <2>1, <2>3, <3>1 DEF Fits
  <2>5. ASSUME Joinable, NEW k \in 1 .. next', NEW l \in left'
        PROVE  srcA[k].key # srcB[l].key
    <3>1. l \in left /\ l # j /\ l \in DOMAIN srcB
      BY <1>2, <2>1
    <3>2. CASE k = i
      <4>1. srcB[j].key # srcB[l].key
        BY <1>5, <1>9, <2>1, <2>5, <3>1 DEF Unique
      <4> QED BY <2>1, <3>2, <4>1
    <3>3. CASE k # i
      <4>1. k \in 1 .. next
        BY <1>2, <2>1, <3>3 DEF i
      <4> QED BY <1>9, <2>5, <3>1, <4>1 DEF Joined
    <3> QED BY <3>2, <3>3
  <2>6. both.a = next + 1 /\ next' = next + 1 /\ both.b \in left /\ left' = left \ {both.b}
    BY <1>3, <2>1, <2>2 DEF i
  <2>7. Yield(both)
    BY <1>1, <2>1
  <2> HIDE DEF both
  <2> QED BY <1>1, <1>7, <1>8, <1>10, <1>11, <2>1, <2>2, <2>4, <2>5, <2>6, <2>7, RowAdded
<1>13. CASE takeA /\ ~ takeB
  <2>1. /\ item = Alone(i) /\ next' = i /\ left' = left /\ hasA
        /\ hasB => srcA[i].key < srcB[j].key
    BY <1>1, <1>4, <1>5, <1>13
  <2>2. Alone(i) \in OutputRow /\ Alone(i).a = i /\ Alone(i).b = 0 /\ Fits(Alone(i), srcA, srcB)
    BY <1>1, <1>4, <2>1, AloneFits
  <2>3. ASSUME Joinable, NEW k \in 1 .. next', NEW l \in left'
        PROVE  srcA[k].key # srcB[l].key
    <3>1. l \in left /\ hasB /\ j <= l /\ l \in DOMAIN srcB
      BY <1>2, <1>3, <2>1
    <3>2. CASE k = i
      <4>1. srcB[j].key <= srcB[l].key
        BY <1>5, <1>9, <2>3, <3>1
      <4>2. srcB[l].key \in Int
        BY <1>2, <3>1
      <4> QED BY <1>4, <1>5, <2>1, <3>1, <3>2, <4>1, <4>2
    <3>3. CASE k # i
      <4>1. k \in 1 .. next
        BY <1>2, <2>1, <3>3 DEF i
      <4> QED BY <1>9, <2>3, <3>1, <4>1 DEF Joined
    <3> QED BY <3>2, <3>3
  <2>4. Alone(i).a = next + 1 /\ next' = next + 1 /\ Yield(Alone(i))
    BY <1>1, <2>1, <2>2 DEF i
  <2> QED BY <1>1, <1>7, <1>8, <1>10, <1>11, <2>1, <2>2, <2>3, <2>4, RowAdded
<1>14. CASE ~ takeA
  <2>1. /\ item = AloneB(j) /\ next' = next /\ left' = left \ {j} /\ hasB
        /\ hasA => srcB[j].key < srcA[i].key
    <3>1. takeB /\ (hasA => srcB[j].key < srcA[i].key)
      BY <1>1, <1>4, <1>5, <1>14
    <3> QED BY <1>1, <1>14, <3>1
  <2>2. Joinable => \A k \in DOMAIN srcA : srcA[k].key # srcB[j].key
    <3> SUFFICES ASSUME Joinable, NEW k \in DOMAIN srcA
                 PROVE  srcA[k].key # srcB[j].key
      OBVIOUS
    <3>1. CASE k \in 1 .. next
      BY <1>3, <1>9, <2>1, <3>1 DEF Joined
    <3>2. CASE k \notin 1 .. next
      <4>1. hasA /\ i <= k
        BY <1>2, <3>2 DEF i
      <4>2. srcA[i].key <= srcA[k].key /\ srcA[k].key \in Int
        BY <1>2, <1>4, <1>9, <4>1
      <4> QED BY <1>4, <1>5, <2>1, <4>1, <4>2
    <3> QED BY <3>1, <3>2
  <2>3. /\ AloneB(j) \in OutputRow /\ AloneB(j).a = 0 /\ AloneB(j).b = j
        /\ Joinable => Fits(AloneB(j), srcA, srcB)
    BY <1>1, <1>5, <2>1, <2>2, AloneFits
  <2>4. ASSUME Joinable, NEW k \in 1 .. next', NEW l \in left'
        PROVE  srcA[k].key # srcB[l].key
    BY <1>9, <2>1, <2>4 DEF Joined
  <2>5. AloneB(j).b \in left /\ left' = left \ {AloneB(j).b} /\ Yield(AloneB(j))
    BY <1>1, <1>3, <2>1, <2>3
  <2> QED BY <1>1, <1>7, <1>8, <1>10, <1>11, <2>1, <2>3, <2>4, <2>5, RowAdded
<1> QED BY <1>12, <1>13, <1>14

LEMMA StreamStep ==
    ASSUME StreamInv, StreamNext
    PROVE  StreamInv'
BY ProduceStep, TakeRowStep, QuietConsumer, DrainRowStep, FinishStep, JoinRowStep
   DEF StreamNext, Consume

LEMMA StreamInvHolds == StreamSpec => []StreamInv
<1>1. StreamInv /\ UNCHANGED streamVars => StreamInv'
  <2> SUFFICES ASSUME StreamInv, UNCHANGED streamVars
               PROVE  StreamInv'
    OBVIOUS
  <2>1. UNCHANGED jobs /\ UNCHANGED <<producer, put, consumer>>
    BY DEF streamVars, jobs, sources
  <2>2. Candidates' = Candidates /\ Taken' = Taken
    BY <2>1 DEF jobs, sources, Candidates, Taken
  <2>3. StreamTypes'
    BY <2>1, <2>2 DEF jobs, sources, StreamInv, StreamTypes, Batching
  <2>4. Checked'
    BY <2>1, <2>2 DEF jobs, sources, StreamInv, Checked
  <2> QED BY <2>1, <2>3, <2>4, JoinedSame DEF StreamInv
<1>2. StreamInv /\ [StreamNext]_streamVars => StreamInv'
  BY <1>1, StreamStep
<1> QED BY <1>2, StreamStarts, PTL DEF StreamSpec

LEMMA CountOne ==
    ASSUME NEW S, NEW x, x \in S, \A y \in S : y = x
    PROVE  Cardinality(S) = 1
<1>1. S = {x}
  OBVIOUS
<1> QED BY <1>1, FS_Singleton

(* Rows that were taken from the sources are in the output once, those with *)
(* the same key together, whatever the interleaving of thread and generator *)
(* and wherever the batches are cut, for any two sources (sorted ones, and  *)
(* the right one without repeated keys, for merge_sorted_stream).           *)
THEOREM StreamsConserveRows == StreamSpec => []RowsConserved
<1>1. StreamInv => RowsConserved
  <2> SUFFICES ASSUME StreamInv
               PROVE  RowsConserved
    OBVIOUS
  <2>1. Candidates \subseteq DOMAIN srcB /\ DOMAIN srcB = 1 .. Len(srcB) /\ DOMAIN srcA = 1 .. Len(srcA)
        /\ Len(srcA) \in Nat /\ Len(srcB) \in Nat /\ next \in Nat /\ next <= Len(srcA)
    BY SourceFields DEF StreamInv, StreamTypes
  <2>2. \A n \in DOMAIN out :
           Len(out[n]) = BatchSize \/ (n = Len(out) /\ consumer = "done")
    BY DEF StreamInv, StreamTypes, Batching
  <2>3. ASSUME Joinable, NEW i \in DOMAIN srcA
        PROVE  Times(i, "a") = IF i <= next THEN 1 ELSE 0
    <3> DEFINE S == {place \in Places : Item(place)["a"] = i}
    <3>1. Once(Output, next, Taken)
      BY <2>3 DEF StreamInv, Joined
    <3>2. CASE i <= next
      <4>1. PICK p \in DOMAIN Output : Output[p].a = i
        BY <2>1, <3>1, <3>2 DEF Once
      <4>2. p \in S /\ \A q \in S : q = p
        BY <2>1, <3>1, <4>1 DEF Once, Output
      <4>3. Cardinality(S) = 1
        <5> HIDE DEF S
        <5> QED BY <4>2, CountOne
      <4> QED BY <3>2, <4>3 DEF Times
    <3>3. CASE ~ (i <= next)
      <4>1. S = {}
        BY <2>1, <3>1, <3>3 DEF Once, Output
      <4> QED BY <3>3, <4>1, FS_EmptySet DEF Times
    <3> QED BY <3>2, <3>3
  <2>4. ASSUME Joinable, NEW j \in DOMAIN srcB
        PROVE  Times(j, "b") = IF j \in Candidates \ left THEN 1 ELSE 0
    <3> DEFINE S == {place \in Places : Item(place)["b"] = j}
    <3>1. Once(Output, next, Taken)
      BY <2>4 DEF StreamInv, Joined
    <3>2. CASE j \in Taken
      <4>1. PICK p \in DOMAIN Output : Output[p].b = j
        BY <3>1, <3>2 DEF Once
      <4>2. p \in S /\ \A q \in S : q = p
        BY <2>1, <3>1, <4>1 DEF Once, Output
      <4>3. Cardinality(S) = 1
        <5> HIDE DEF S
        <5> QED BY <4>2, CountOne
      <4> QED BY <3>2, <4>3 DEF Times, Taken
    <3>3. CASE j \notin Taken
      <4>1. S = {}
        BY <2>1, <3>1, <3>3 DEF Once, Output
      <4> QED BY <3>3, <4>1, FS_EmptySet DEF Times, Taken
    <3> QED BY <3>2, <3>3
  <2>5. ASSUME Joinable, NEW place \in Places
        PROVE  Fits(Item(place), srcA, srcB)
    BY <2>5 DEF StreamInv, Joined
  <2> QED BY <2>2, <2>3, <2>4, <2>5 DEF RowsConserved, Fits, Joinable, Candidates
<1> QED BY <1>1, StreamInvHolds, PTL

(* merge_sorted_stream ends without an error on sorted sources only, and    *)
(* raises on others only, however long they are and wherever the row is     *)
(* that is below the one before it.                                         *)
THEOREM UnsortedIsNoticed == StreamSpec => []FailsOnUnsorted
<1>1. StreamInv => FailsOnUnsorted
  <2> SUFFICES ASSUME StreamInv, mode = "sorted"
               PROVE  /\ consumer = "done" => IsOrdered(srcA) /\ IsOrdered(srcB)
                      /\ consumer = "raised" => ~ IsOrdered(srcA) \/ ~ IsOrdered(srcB)
    BY DEF FailsOnUnsorted
  <2>1. Checked
    BY DEF StreamInv
  <2>2. ASSUME consumer = "done"
        PROVE  IsOrdered(srcA) /\ IsOrdered(srcB)
    <3>1. next = Len(srcA) /\ left = {}
      BY <2>2 DEF StreamInv, StreamTypes
    <3>2. Taken = 1 .. Len(srcB) /\ Len(srcB) \in Nat
      BY <3>1, SourceFields DEF Taken, Candidates, StreamInv
    <3>3. IsOrdered(srcA)
      BY <2>1, <3>1 DEF Checked, IsOrdered
    <3>4. ASSUME NEW j \in 1 .. Len(srcB) - 1
          PROVE  srcB[j].key <= srcB[j + 1].key
      <4>1. j + 1 \in Taken /\ j + 1 > 1 /\ (j + 1) - 1 = j
        BY <3>2
      <4> QED BY <2>1, <4>1 DEF Checked
    <3> QED BY <3>3, <3>4 DEF IsOrdered
  <2> QED BY <2>1, <2>2 DEF Checked
<1> QED BY <1>1, StreamInvHolds, PTL

-----------------------------------------------------------------------------
(* Records and deltas, key by key *)

Dict(S) == UNION {[ks -> Content] : ks \in SUBSET S}

Delta ==
    [added : Dict(RecordKey), modified : Dict(RecordKey),
     removed : SUBSET {Str[k] : k \in RecordKey}, version : Nat]

IsDict(f) == f = [k \in DOMAIN f |-> f[k]]

(* A delta whose keys are in S *)
KeysIn(delta, S) ==
    /\ DOMAIN delta.added \subseteq S /\ DOMAIN delta.modified \subseteq S
    /\ delta.removed \subseteq {Str[k] : k \in S}

LEMMA DictFields ==
    ASSUME NEW S, NEW f \in Dict(S)
    PROVE  IsDict(f) /\ DOMAIN f \subseteq S /\ \A k \in DOMAIN f : f[k] \in Content
BY DEF Dict, IsDict

LEMMA IntoDict ==
    ASSUME NEW S, NEW f, IsDict(f), DOMAIN f \subseteq S, \A k \in DOMAIN f : f[k] \in Content
    PROVE  f \in Dict(S)
<1>1. f \in [DOMAIN f -> Content]
  BY DEF IsDict
<1> QED BY <1>1 DEF Dict

LEMMA SameDict ==
    ASSUME NEW f, NEW g, IsDict(f), IsDict(g), DOMAIN f = DOMAIN g,
           \A k \in DOMAIN f : f[k] = g[k]
    PROVE  f = g
<1>1. [k \in DOMAIN f |-> f[k]] = [k \in DOMAIN g |-> g[k]]
  OBVIOUS
<1> QED BY <1>1 DEF IsDict

(* Where no name is mistaken no two keys have the same. *)
LEMMA NoneMistaken ==
    ASSUME NEW S, ~ Mistaken(S), NEW T, T \subseteq S
    PROVE  /\ \A k, l \in T : Str[k] = Str[l] => k = l
           /\ \A k, l \in T : l \in Pops[Str[k]] <=> l = k
           /\ ~ Mistaken(T)
BY DEF Mistaken

(* The records y are what the delta d makes of x: all that it knows, and    *)
(* of the others those that are not gone.                                   *)
MakesOf(d, x, y, gone) ==
    /\ IsDict(y)
    /\ DOMAIN y = DOMAIN d.added \cup DOMAIN d.modified
                    \cup {k \in DOMAIN x : k \notin gone}
    /\ \A k \in DOMAIN y : y[k] = IF k \in DOMAIN d.added THEN d.added[k]
                                  ELSE IF k \in DOMAIN d.modified THEN d.modified[k]
                                  ELSE x[k]

LEMMA AppliedOf ==
    ASSUME NEW x, NEW d
    PROVE  MakesOf(d, x, ApplyDelta(x, d), Popped(d.removed))
BY DEF MakesOf, ApplyDelta, Over, Sub, IsDict

(* The same, told by names *)
Makes(d, x, y) ==
    /\ IsDict(y)
    /\ DOMAIN y = DOMAIN d.added \cup DOMAIN d.modified
                    \cup {k \in DOMAIN x : Str[k] \notin d.removed}
    /\ \A k \in DOMAIN y : y[k] = IF k \in DOMAIN d.added THEN d.added[k]
                                  ELSE IF k \in DOMAIN d.modified THEN d.modified[k]
                                  ELSE x[k]

(* What is removed is what has one of the names. *)
LEMMA Applied ==
    ASSUME NEW S, ~ Mistaken(S), NEW x, DOMAIN x \subseteq S, NEW d, KeysIn(d, S)
    PROVE  Makes(d, x, ApplyDelta(x, d))
<1> DEFINE y == ApplyDelta(x, d)
<1>1. MakesOf(d, x, y, Popped(d.removed))
  BY AppliedOf
<1> HIDE DEF y
<1>2. ASSUME NEW k \in S
      PROVE  k \in Popped(d.removed) <=> Str[k] \in d.removed
  <2>1. \A l \in S : k \in Pops[Str[l]] <=> k = l
    BY NoneMistaken
  <2>2. \A name \in d.removed : \E l \in S : name = Str[l]
    BY DEF KeysIn
  <2> QED BY <2>1, <2>2 DEF Popped
<1>3. {k \in DOMAIN x : k \notin Popped(d.removed)} = {k \in DOMAIN x : Str[k] \notin d.removed}
  BY <1>2
<1>4. Makes(d, x, y)
  BY <1>1, <1>3 DEF MakesOf, Makes
<1> QED BY <1>4 DEF y

LEMMA AppliedType ==
    ASSUME NEW S, NEW x \in Dict(S), NEW d \in Delta, KeysIn(d, S)
    PROVE  ApplyDelta(x, d) \in Dict(S)
<1> DEFINE y == ApplyDelta(x, d)
<1>1. /\ DOMAIN x \subseteq S /\ \A k \in DOMAIN x : x[k] \in Content
      /\ \A k \in DOMAIN d.added : d.added[k] \in Content
      /\ \A k \in DOMAIN d.modified : d.modified[k] \in Content
  <2>1. d.added \in Dict(RecordKey) /\ d.modified \in Dict(RecordKey)
    BY DEF Delta
  <2> QED BY <2>1, DictFields
<1>2. MakesOf(d, x, y, Popped(d.removed))
  BY AppliedOf
<1> HIDE DEF y
<1>3. DOMAIN y \subseteq S /\ \A k \in DOMAIN y : y[k] \in Content
  BY <1>1, <1>2 DEF KeysIn, MakesOf
<1>4. y \in Dict(S)
  BY <1>2, <1>3, IntoDict DEF MakesOf
<1> QED BY <1>4 DEF y

(* A delta that is applied again changes nothing. *)
LEMMA AppliedTwice ==
    ASSUME NEW x, NEW d
    PROVE  ApplyDelta(ApplyDelta(x, d), d) = ApplyDelta(x, d)
<1> DEFINE y == ApplyDelta(x, d)
           z == ApplyDelta(y, d)
<1>1. MakesOf(d, x, y, Popped(d.removed))
  BY AppliedOf
<1> HIDE DEF y
<1>2. MakesOf(d, y, z, Popped(d.removed))
  BY AppliedOf
<1> HIDE DEF z
<1>3. DOMAIN z = DOMAIN y
  BY <1>1, <1>2 DEF MakesOf
<1>4. \A k \in DOMAIN z : z[k] = y[k]
  BY <1>1, <1>2 DEF MakesOf
<1>5. z = y
  BY <1>1, <1>2, <1>3, <1>4, SameDict DEF MakesOf
<1> QED BY <1>5 DEF y, z

(* What compute_delta finds turns the old records into the new ones.        *)
LEMMA Computed ==
    ASSUME NEW S, ~ Mistaken(S), NEW old, NEW new, NEW n,
           DOMAIN old \subseteq S, DOMAIN new \subseteq S, IsDict(new)
    PROVE  ApplyDelta(old, ComputeDelta(old, new, n)) = new
<1> DEFINE d == ComputeDelta(old, new, n)
           y == ApplyDelta(old, d)
<1>1. /\ DOMAIN d.added = DOMAIN new \ DOMAIN old
      /\ \A k \in DOMAIN d.added : d.added[k] = new[k]
      /\ DOMAIN d.modified = {k \in DOMAIN new \cap DOMAIN old : new[k] # old[k]}
      /\ \A k \in DOMAIN d.modified : d.modified[k] = new[k]
      /\ d.removed = {Str[k] : k \in DOMAIN old \ DOMAIN new}
  BY DEF ComputeDelta, Sub
<1> HIDE DEF d
<1>2. Makes(d, old, y)
  <2>1. KeysIn(d, S)
    BY <1>1 DEF KeysIn
  <2> QED BY <2>1, Applied
<1> HIDE DEF y
<1>3. \A k, l \in DOMAIN old \cup DOMAIN new : Str[k] = Str[l] => k = l
  BY NoneMistaken
<1>4. \A k \in DOMAIN old : Str[k] \in d.removed <=> k \notin DOMAIN new
  BY <1>1, <1>3
<1>5. DOMAIN y = DOMAIN new
  BY <1>1, <1>2, <1>4 DEF Makes
<1>6. \A k \in DOMAIN y : y[k] = new[k]
  BY <1>1, <1>2, <1>5 DEF Makes
<1>7. y = new
  BY <1>2, <1>5, <1>6, SameDict DEF Makes
<1> QED BY <1>7 DEF y, d

(* What a round of compose_deltas leaves of a key *)
LEMMA Absorbed ==
    ASSUME NEW net, NEW d, NEW S, ~ Mistaken(S), KeysIn(net, S), KeysIn(d, S)
    PROVE  LET c == Absorb(net, d)
               held == {k \in DOMAIN net.added : Str[k] \notin d.removed}
               back == {k \in DOMAIN d.modified :
                          k \in held \/ Str[k] \in net.removed \cup d.removed}
               first == DOMAIN d.added \cup back
           IN /\ IsDict(c.added) /\ IsDict(c.modified) /\ KeysIn(c, S)
              /\ DOMAIN c.added = first \cup held
              /\ \A k \in DOMAIN c.added :
                   c.added[k] = IF k \in DOMAIN d.added THEN d.added[k]
                                ELSE IF k \in back THEN d.modified[k] ELSE net.added[k]
              /\ DOMAIN c.modified
                   = ((DOMAIN d.modified \ back)
                        \cup {k \in DOMAIN net.modified : Str[k] \notin d.removed})
                       \ DOMAIN d.added
              /\ \A k \in DOMAIN c.modified :
                   c.modified[k] = IF k \in DOMAIN d.modified \ back THEN d.modified[k]
                                   ELSE net.modified[k]
              /\ \A k \in S : Str[k] \in c.removed
                   <=> Str[k] \in net.removed \cup d.removed /\ k \notin first
<1> DEFINE
      c == Absorb(net, d)
      removed == net.removed \cup d.removed
      held == {k \in DOMAIN net.added : Str[k] \notin d.removed}
      back == {k \in DOMAIN d.modified : k \in held \/ Str[k] \in removed}
      first == DOMAIN d.added \cup back
      keep == Without(net.added, d.removed)
      added == Over(d.added, Sub(d.modified, back))
      rest == Sub(d.modified, DOMAIN d.modified \ back)
      stay == Without(net.modified, d.removed)
<1>1. \A k, l \in S : Str[k] = Str[l] => k = l
  BY NoneMistaken
<1>2. DOMAIN d.added \subseteq S /\ DOMAIN d.modified \subseteq S
      /\ DOMAIN net.added \subseteq S /\ DOMAIN net.modified \subseteq S
      /\ removed \subseteq {Str[k] : k \in S}
  BY DEF KeysIn
<1>3. DOMAIN keep = held /\ \A k \in held : keep[k] = net.added[k]
  BY DEF Without, Sub
<1>4. \A k \in S : Str[k] \in Names(keep) <=> k \in held
  <2> HIDE DEF keep
  <2> QED BY <1>1, <1>2, <1>3 DEF Names
<1>5. back = {k \in DOMAIN d.modified : Str[k] \in removed \cup Names(keep)}
  <2> HIDE DEF keep, held, removed
  <2> QED BY <1>2, <1>4
<1>6. /\ DOMAIN added = first
      /\ \A k \in first : added[k] = IF k \in DOMAIN d.added THEN d.added[k] ELSE d.modified[k]
  BY DEF Over, Sub
<1>7. /\ DOMAIN rest = DOMAIN d.modified \ back
      /\ \A k \in DOMAIN rest : rest[k] = d.modified[k]
      /\ DOMAIN stay = {k \in DOMAIN net.modified : Str[k] \notin d.removed}
      /\ \A k \in DOMAIN stay : stay[k] = net.modified[k]
  BY DEF Without, Sub
<1>8. /\ c.added = Replace(added, keep)
      /\ c.modified = Without(Replace(rest, stay), Names(d.added))
      /\ c.removed = removed \ Names(added)
  BY <1>5 DEF Absorb
<1> HIDE DEF c, keep, added, rest, stay, back, held, removed
<1>9. \A k \in S : /\ Str[k] \in Names(added) <=> k \in first
                   /\ Str[k] \in Names(rest) <=> k \in DOMAIN rest
                   /\ Str[k] \in Names(d.added) <=> k \in DOMAIN d.added
  <2>1. first \subseteq S /\ DOMAIN rest \subseteq S
    BY <1>2, <1>7 DEF back
  <2> HIDE DEF first
  <2> QED BY <1>1, <1>2, <1>6, <2>1 DEF Names
<1>10. held \subseteq S /\ first \subseteq S /\ DOMAIN rest \subseteq S /\ DOMAIN stay \subseteq S
  BY <1>2, <1>7 DEF held, back
<1> HIDE DEF first
<1>11. /\ IsDict(c.added) /\ DOMAIN c.added = first \cup held
       /\ \A k \in DOMAIN c.added : c.added[k] = IF k \in first THEN added[k] ELSE keep[k]
  BY <1>3, <1>6, <1>8, <1>9, <1>10 DEF Replace, Over, Without, Sub, IsDict
<1>12. /\ IsDict(c.modified) /\ DOMAIN c.modified = (DOMAIN rest \cup DOMAIN stay) \ DOMAIN d.added
       /\ \A k \in DOMAIN c.modified : c.modified[k] = IF k \in DOMAIN rest THEN rest[k] ELSE stay[k]
  BY <1>8, <1>9, <1>10 DEF Replace, Over, Without, Sub, IsDict
<1>13. \A k \in S : Str[k] \in c.removed <=> Str[k] \in removed /\ k \notin first
  BY <1>8, <1>9
<1>14. KeysIn(c, S)
  BY <1>2, <1>8, <1>10, <1>11, <1>12 DEF KeysIn
<1>15. \A k \in DOMAIN c.added :
         c.added[k] = IF k \in DOMAIN d.added THEN d.added[k]
                      ELSE IF k \in back THEN d.modified[k] ELSE net.added[k]
  BY <1>3, <1>6, <1>11 DEF first
<1> QED BY <1>7, <1>11, <1>12, <1>13, <1>14, <1>15 DEF c, first, back, held, removed

(* To apply a composition is to apply the one and then the other. *)
LEMMA AbsorbedApplies ==
    ASSUME NEW net, NEW d, NEW S, ~ Mistaken(S), KeysIn(net, S), KeysIn(d, S),
           NEW x, DOMAIN x \subseteq S
    PROVE  ApplyDelta(x, Absorb(net, d)) = ApplyDelta(ApplyDelta(x, net), d)
<1> DEFINE
      c == Absorb(net, d)
      held == {k \in DOMAIN net.added : Str[k] \notin d.removed}
      back == {k \in DOMAIN d.modified : k \in held \/ Str[k] \in net.removed \cup d.removed}
      y == ApplyDelta(x, net)
      z == ApplyDelta(y, d)
      w == ApplyDelta(x, c)
<1>1. /\ DOMAIN c.added = DOMAIN d.added \cup back \cup held
      /\ \A k \in DOMAIN c.added :
           c.added[k] = IF k \in DOMAIN d.added THEN d.added[k]
                        ELSE IF k \in back THEN d.modified[k] ELSE net.added[k]
      /\ DOMAIN c.modified
           = ((DOMAIN d.modified \ back)
                \cup {k \in DOMAIN net.modified : Str[k] \notin d.removed}) \ DOMAIN d.added
      /\ \A k \in DOMAIN c.modified :
           c.modified[k] = IF k \in DOMAIN d.modified \ back THEN d.modified[k]
                           ELSE net.modified[k]
      /\ \A k \in S : Str[k] \in c.removed
           <=> Str[k] \in net.removed \cup d.removed /\ k \notin DOMAIN d.added \cup back
  BY Absorbed
<1>2. Makes(net, x, y)
  BY Applied
<1> HIDE DEF y
<1>3. Makes(d, y, z)
  <2>1. DOMAIN y \subseteq S
    BY <1>2 DEF Makes, KeysIn
  <2> QED BY <2>1, Applied
<1>8. KeysIn(c, S)
  BY Absorbed
<1> HIDE DEF c
<1>4. Makes(c, x, w)
  BY <1>8, Applied
<1> HIDE DEF z, w
<1>5. DOMAIN w = DOMAIN z
  BY <1>1, <1>2, <1>3, <1>4 DEF Makes
<1>6. \A k \in DOMAIN w : w[k] = z[k]
  BY <1>1, <1>2, <1>3, <1>4, <1>5 DEF Makes
<1>7. w = z
  BY <1>3, <1>4, <1>5, <1>6, SameDict DEF Makes
<1> QED BY <1>7 DEF w, z, y, c

-----------------------------------------------------------------------------
(* Sequences of deltas *)

Composing == INSTANCE Folding WITH Op <- Absorb, Ch <- LastOf

LEMMA LastOfPositions ==
    ASSUME NEW n \in Nat, NEW s \in SUBSET (1 .. n), s # {}
    PROVE  LastOf(s) \in s /\ \A i \in s : LastOf(s) >= i
<1> DEFINE T == {k \in Nat : \E i \in s : k = n - i}
<1>1. T \subseteq Nat
  OBVIOUS
<1>2. T # {}
  <2>1. PICK i \in s : TRUE
    OBVIOUS
  <2>2. n - i \in Nat
    OBVIOUS
  <2> QED BY <2>2
<1>3. PICK k \in T : \A l \in Nat : l < k => l \notin T
  <2> HIDE DEF T
  <2> QED BY <1>1, <1>2, Sending!Least
<1>4. PICK i \in s : k = n - i
  OBVIOUS
<1>5. ASSUME NEW j \in s
      PROVE  i >= j
  <2>1. n - j \in T /\ n - j \in Nat
    OBVIOUS
  <2>2. ~ (n - j < k)
    <3> HIDE DEF T
    <3> QED BY <1>3, <2>1
  <2> QED BY <1>4, <2>2
<1> QED BY <1>5 DEF LastOf, Max

LEMMA PositionsFold ==
    ASSUME NEW n \in Nat
    PROVE  /\ Sending!Chooses(1 .. n) /\ Sending!LastIsChosen(n)
           /\ Composing!Chooses(1 .. n) /\ Composing!LastIsChosen(n)
<1>1. IsFiniteSet(1 .. n)
  BY FS_Interval
<1>2. \A s \in SUBSET (1 .. n) : s # {} => LastOf(s) \in s
  BY LastOfPositions
<1>3. ASSUME NEW k \in 1 .. n
      PROVE  LastOf(1 .. k) = k
  <2>1. 1 .. k \in SUBSET (1 .. k) /\ k \in Nat /\ k \in 1 .. k
    OBVIOUS
  <2>2. LastOf(1 .. k) \in 1 .. k /\ \A i \in 1 .. k : LastOf(1 .. k) >= i
    BY <2>1, LastOfPositions
  <2>3. LastOf(1 .. k) >= k /\ LastOf(1 .. k) <= k /\ LastOf(1 .. k) \in Int
    BY <2>1, <2>2
  <2> QED BY <2>3
<1> QED BY <1>1, <1>2, <1>3
        DEF Sending!Chooses, Sending!LastIsChosen, Sending!IsFiniteSet,
            Composing!Chooses, Composing!LastIsChosen, Composing!IsFiniteSet, IsFiniteSet

(* The records of a receiver while it applies the deltas that are on their  *)
(* way: at the end they are cur.                                            *)
Track(st, rec, w, cur, S) ==
    /\ st[0] = rec /\ st[Len(w)] = cur
    /\ \A i \in 1 .. Len(w) : st[i] = ApplyDelta(st[i - 1], w[i])
    /\ \A i \in 0 .. Len(w) : st[i] \in Dict(S)

LEMMA TrackIsFold ==
    ASSUME NEW st, NEW rec, NEW w \in Seq(Delta), NEW cur, NEW S, Track(st, rec, w, cur, S)
    PROVE  FoldLeft(ApplyDelta, rec, w) = cur
<1>1. Len(w) \in Nat /\ DOMAIN w = 1 .. Len(w)
  OBVIOUS
<1>2. FoldLeft(ApplyDelta, rec, w) = Sending!FoldOver(rec, w, DOMAIN w)
  BY DEF FoldLeft, MapThenFoldSet, Sending!FoldOver, LastOf
<1>3. Sending!IsRun(st, rec, w, Len(w))
  BY DEF Track, Sending!IsRun
<1>4. Sending!FoldOver(rec, w, 1 .. Len(w)) = st[Len(w)]
  BY <1>1, <1>3, PositionsFold, Sending!RunIsFold
<1> QED BY <1>1, <1>2, <1>4 DEF Track

LEMMA Composed ==
    ASSUME NEW d, NEW e
    PROVE  ComposeDeltas(<<d, e>>) = Absorb(Absorb(NoDelta, d), e)
<1> DEFINE w == <<d, e>>
           st == [i \in 0 .. 2 |-> IF i = 0 THEN NoDelta
                                   ELSE IF i = 1 THEN Absorb(NoDelta, d)
                                   ELSE Absorb(Absorb(NoDelta, d), e)]
<1>1. DOMAIN w = 1 .. 2 /\ w[1] = d /\ w[2] = e
  OBVIOUS
<1>2. ComposeDeltas(w) = Composing!FoldOver(NoDelta, w, DOMAIN w)
  BY DEF ComposeDeltas, FoldLeft, MapThenFoldSet, Composing!FoldOver, LastOf
<1>3. Composing!IsRun(st, NoDelta, w, 2)
  <2>1. \A i \in 1 .. 2 : i = 1 \/ i = 2
    OBVIOUS
  <2> QED BY <1>1, <2>1 DEF Composing!IsRun
<1>4. Composing!FoldOver(NoDelta, w, 1 .. 2) = st[2]
  <2> HIDE DEF st, w
  <2> QED BY <1>3, PositionsFold, Composing!RunIsFold
<1> QED BY <1>1, <1>2, <1>4

LEMMA NoDeltaType ==
    /\ EmptyDict \in Dict({}) /\ NoDelta \in Delta
    /\ \A S : KeysIn(NoDelta, S)
    /\ \A S : \A x \in Dict(S) : ApplyDelta(x, NoDelta) = x
<1>1. DOMAIN EmptyDict = {} /\ IsDict(EmptyDict)
  BY DEF EmptyDict, IsDict
<1>2. \A S : EmptyDict \in Dict(S)
  BY <1>1, IntoDict
<1>3. NoDelta \in Delta
  BY <1>2 DEF NoDelta, Delta
<1>4. \A S : KeysIn(NoDelta, S)
  BY <1>1 DEF NoDelta, KeysIn
<1>5. ASSUME NEW S, NEW x \in Dict(S)
      PROVE  ApplyDelta(x, NoDelta) = x
  <2> DEFINE y == ApplyDelta(x, NoDelta)
  <2>1. MakesOf(NoDelta, x, y, Popped(NoDelta.removed))
    BY AppliedOf
  <2> HIDE DEF y
  <2>2. NoDelta.added = EmptyDict /\ NoDelta.modified = EmptyDict /\ NoDelta.removed = {}
    BY DEF NoDelta
  <2>3. IsDict(y) /\ DOMAIN y = DOMAIN x /\ \A k \in DOMAIN y : y[k] = x[k]
    BY <1>1, <2>1, <2>2 DEF MakesOf, Popped
  <2>4. IsDict(x)
    BY DictFields
  <2>5. y = x
    BY <2>3, <2>4, SameDict
  <2> QED BY <2>5 DEF y
<1> QED BY <1>2, <1>3, <1>4, <1>5

LEMMA DictGrows ==
    ASSUME NEW S, NEW T, S \subseteq T
    PROVE  Dict(S) \subseteq Dict(T)
BY DEF Dict

LEMMA AbsorbedType ==
    ASSUME NEW net \in Delta, NEW d \in Delta
    PROVE  Absorb(net, d) \in Delta
<1> DEFINE
      R == {Str[k] : k \in RecordKey}
      removed == net.removed \cup d.removed
      held == Without(net.added, d.removed)
      back == {k \in DOMAIN d.modified : Str[k] \in removed \cup Names(held)}
      added == Over(d.added, Sub(d.modified, back))
      rest == Sub(d.modified, DOMAIN d.modified \ back)
      stay == Without(net.modified, d.removed)
<1>1. ASSUME NEW f \in Dict(RecordKey), NEW N
      PROVE  Without(f, N) \in Dict(RecordKey)
  <2>1. DOMAIN f \subseteq RecordKey /\ \A k \in DOMAIN f : f[k] \in Content
    BY DictFields
  <2>2. /\ IsDict(Without(f, N)) /\ DOMAIN Without(f, N) \subseteq RecordKey
        /\ \A k \in DOMAIN Without(f, N) : Without(f, N)[k] \in Content
    BY <2>1 DEF Without, Sub, IsDict
  <2> QED BY <2>2, IntoDict
<1>2. ASSUME NEW f \in Dict(RecordKey), NEW N, N \subseteq DOMAIN f
      PROVE  Sub(f, N) \in Dict(RecordKey)
  <2>1. DOMAIN f \subseteq RecordKey /\ \A k \in DOMAIN f : f[k] \in Content
    BY DictFields
  <2>2. /\ IsDict(Sub(f, N)) /\ DOMAIN Sub(f, N) \subseteq RecordKey
        /\ \A k \in DOMAIN Sub(f, N) : Sub(f, N)[k] \in Content
    BY <1>2, <2>1 DEF Sub, IsDict
  <2> QED BY <2>2, IntoDict
<1>3. ASSUME NEW f \in Dict(RecordKey), NEW g \in Dict(RecordKey)
      PROVE  Over(f, g) \in Dict(RecordKey)
  <2>1. /\ DOMAIN f \subseteq RecordKey /\ \A k \in DOMAIN f : f[k] \in Content
        /\ DOMAIN g \subseteq RecordKey /\ \A k \in DOMAIN g : g[k] \in Content
    BY DictFields
  <2>2. /\ IsDict(Over(f, g)) /\ DOMAIN Over(f, g) \subseteq RecordKey
        /\ \A k \in DOMAIN Over(f, g) : Over(f, g)[k] \in Content
    BY <2>1 DEF Over, IsDict
  <2> QED BY <2>2, IntoDict
<1>4. /\ d.added \in Dict(RecordKey) /\ d.modified \in Dict(RecordKey)
      /\ net.added \in Dict(RecordKey) /\ net.modified \in Dict(RecordKey)
      /\ removed \in SUBSET R /\ d.version \in Nat /\ net.version \in Nat
  BY DEF Delta
<1>5. held \in Dict(RecordKey) /\ stay \in Dict(RecordKey)
  BY <1>1, <1>4
<1>6. rest \in Dict(RecordKey) /\ Sub(d.modified, back) \in Dict(RecordKey)
  BY <1>2, <1>4
<1>7. added \in Dict(RecordKey)
  BY <1>3, <1>4, <1>6
<1>8. Absorb(net, d) =
        [added |-> Replace(added, held),
         modified |-> Without(Replace(rest, stay), Names(d.added)),
         removed |-> removed \ Names(added),
         version |-> IF d.version >= net.version THEN d.version ELSE net.version]
  BY DEF Absorb
<1> HIDE DEF held, added, rest, stay, removed, R
<1>9. Replace(added, held) \in Dict(RecordKey)
  BY <1>1, <1>3, <1>5, <1>7 DEF Replace
<1>10. Replace(rest, stay) \in Dict(RecordKey)
  BY <1>1, <1>3, <1>5, <1>6 DEF Replace
<1>11. Without(Replace(rest, stay), Names(d.added)) \in Dict(RecordKey)
  BY <1>1, <1>10
<1>12. removed \ Names(added) \in SUBSET R
  BY <1>4
<1> QED BY <1>4, <1>8, <1>9, <1>11, <1>12 DEF Delta, R

-----------------------------------------------------------------------------
(* The steps of the store, the intermediaries and the receiver *)

ShippingTypes ==
    /\ seen \subseteq RecordKey /\ current \in Dict(seen) /\ receiver \in Dict(seen)
    /\ version \in Nat /\ emptied \in BOOLEAN
    /\ last \in Delta /\ KeysIn(last, seen)
    /\ wire \in Seq(Delta) /\ \A i \in 1 .. Len(wire) : KeysIn(wire[i], seen)

(* As long as the store was never emptied *)
InStep ==
    /\ current = EmptyDict => wire = <<>> /\ last = NoDelta
    /\ last # NoDelta => ApplyDelta(receiver, last) = receiver
    /\ ~ Mistaken(seen) => \E st : Track(st, receiver, wire, current, seen)

DeltaInv == ShippingTypes /\ (~ emptied => InStep)

LEMMA DeltaStarts == DeltaInit => DeltaInv
<1> SUFFICES ASSUME DeltaInit
             PROVE  DeltaInv
  OBVIOUS
<1>1. EmptyDict \in Dict({}) /\ NoDelta \in Delta /\ KeysIn(NoDelta, {})
  BY NoDeltaType
<1>2. ShippingTypes
  <2>1. /\ seen = {} /\ current = EmptyDict /\ receiver = EmptyDict /\ version = 0
        /\ emptied = FALSE /\ last = NoDelta /\ wire = <<>>
    BY DEF DeltaInit
  <2>2. wire \in Seq(Delta) /\ Len(wire) = 0
    BY <2>1
  <2>3. current \in Dict(seen) /\ receiver \in Dict(seen) /\ KeysIn(last, seen)
    BY <1>1, <2>1
  <2>4. seen \subseteq RecordKey /\ version \in Nat /\ emptied \in BOOLEAN /\ last \in Delta
    BY <1>1, <2>1
  <2>5. \A i \in 1 .. Len(wire) : KeysIn(wire[i], seen)
    BY <2>2
  <2> QED BY <2>2, <2>3, <2>4, <2>5 DEF ShippingTypes
<1>3. Track([i \in {0} |-> EmptyDict], EmptyDict, <<>>, EmptyDict, {})
  BY <1>1 DEF Track
<1>4. InStep
  BY <1>3 DEF DeltaInit, InStep
<1> QED BY <1>2, <1>4 DEF DeltaInv

LEMMA RecordsType ==
    ASSUME NEW records \in Records
    PROVE  records \in Dict(DOMAIN records) /\ DOMAIN records \subseteq RecordKey
BY DEF Records, Dict

LEMMA FirstIngestStep ==
    ASSUME DeltaInv, NEW records \in Records, FirstIngest(records)
    PROVE  DeltaInv'
<1>1. /\ current = EmptyDict /\ current' = records
      /\ receiver' = IF emptied THEN receiver ELSE records
      /\ emptied' = (emptied \/ records = EmptyDict)
      /\ seen' = seen \cup DOMAIN records
      /\ version' = version /\ wire' = wire /\ last' = last
      /\ ShippingTypes
  BY DEF FirstIngest, DeltaInv
<1>2. records \in Dict(DOMAIN records) /\ DOMAIN records \subseteq RecordKey
  BY RecordsType
<1>3. records \in Dict(seen') /\ receiver \in Dict(seen')
  BY <1>1, <1>2, DictGrows DEF ShippingTypes
<1>4. ShippingTypes'
  BY <1>1, <1>2, <1>3 DEF ShippingTypes, KeysIn
<1>5. ASSUME ~ emptied'
      PROVE  InStep'
  <2>1. ~ emptied /\ records # EmptyDict
    BY <1>1, <1>5
  <2>2. wire = <<>> /\ last = NoDelta
    BY <1>1, <2>1 DEF DeltaInv, InStep
  <2>3. Track([i \in {0} |-> records], records, <<>>, records, seen')
    BY <1>3 DEF Track
  <2> QED BY <1>1, <2>1, <2>2, <2>3 DEF InStep
<1> QED BY <1>4, <1>5 DEF DeltaInv

LEMMA ComputedType ==
    ASSUME NEW old \in Dict(RecordKey), NEW new \in Dict(RecordKey), NEW n \in Nat
    PROVE  /\ ComputeDelta(old, new, n) \in Delta
           /\ \A S : DOMAIN old \cup DOMAIN new \subseteq S => KeysIn(ComputeDelta(old, new, n), S)
<1> DEFINE stays == DOMAIN new \cap DOMAIN old
           changed == {k \in stays : new[k] # old[k]}
<1>1. ASSUME NEW N, N \subseteq DOMAIN new
      PROVE  Sub(new, N) \in Dict(RecordKey) /\ DOMAIN Sub(new, N) = N
  <2>1. DOMAIN new \subseteq RecordKey /\ \A k \in DOMAIN new : new[k] \in Content
    BY DictFields
  <2>2. /\ IsDict(Sub(new, N)) /\ DOMAIN Sub(new, N) = N /\ N \subseteq RecordKey
        /\ \A k \in DOMAIN Sub(new, N) : Sub(new, N)[k] \in Content
    BY <1>1, <2>1 DEF Sub, IsDict
  <2> QED BY <2>2, IntoDict
<1>2. /\ Sub(new, DOMAIN new \ DOMAIN old) \in Dict(RecordKey)
      /\ Sub(new, changed) \in Dict(RecordKey)
      /\ DOMAIN Sub(new, DOMAIN new \ DOMAIN old) \subseteq DOMAIN new
      /\ DOMAIN Sub(new, changed) \subseteq DOMAIN new
  <2>1. DOMAIN new \ DOMAIN old \subseteq DOMAIN new /\ changed \subseteq DOMAIN new
    OBVIOUS
  <2> HIDE DEF changed
  <2> QED BY <1>1, <2>1
<1>3. {Str[k] : k \in DOMAIN old \ DOMAIN new} \in SUBSET {Str[k] : k \in RecordKey}
  <2>1. DOMAIN old \subseteq RecordKey
    BY DictFields
  <2> QED BY <2>1
<1>4. ComputeDelta(old, new, n) =
        [added |-> Sub(new, DOMAIN new \ DOMAIN old), modified |-> Sub(new, changed),
         removed |-> {Str[k] : k \in DOMAIN old \ DOMAIN new}, version |-> n]
  BY DEF ComputeDelta
<1> DEFINE a == Sub(new, DOMAIN new \ DOMAIN old)
           m == Sub(new, changed)
           r == {Str[k] : k \in DOMAIN old \ DOMAIN new}
           d == ComputeDelta(old, new, n)
<1> HIDE DEF a, m, r, changed
<1>5. d = [added |-> a, modified |-> m, removed |-> r, version |-> n]
  BY <1>4 DEF a, m, r
<1>6. a \in Dict(RecordKey) /\ m \in Dict(RecordKey) /\ r \in SUBSET {Str[k] : k \in RecordKey}
  BY <1>2, <1>3 DEF a, m, r
<1>7. DOMAIN a \subseteq DOMAIN new /\ DOMAIN m \subseteq DOMAIN new
  BY <1>2 DEF a, m
<1> HIDE DEF d
<1>8. d \in Delta
  BY <1>5, <1>6 DEF Delta
<1>9. d.added = a /\ d.modified = m /\ d.removed = r
  BY <1>5
<1>10. ASSUME NEW S, DOMAIN old \cup DOMAIN new \subseteq S
       PROVE  KeysIn(d, S)
  <2>1. r \subseteq {Str[k] : k \in S}
    BY <1>10 DEF r
  <2> QED BY <1>7, <1>9, <1>10, <2>1 DEF KeysIn
<1> QED BY <1>8, <1>10 DEF d

LEMMA IngestStep ==
    ASSUME DeltaInv, NEW records \in Records, Ingest(records)
    PROVE  DeltaInv'
<1> DEFINE d == ComputeDelta(current, records, version + 1)
<1>1. /\ current # EmptyDict /\ current' = records
      /\ version' = version + 1
      /\ wire' = Append(wire, d)
      /\ emptied' = (emptied \/ records = EmptyDict)
      /\ seen' = seen \cup DOMAIN records
      /\ last' = last /\ receiver' = receiver
      /\ ShippingTypes
  BY DEF Ingest, DeltaInv
<1>2. records \in Dict(DOMAIN records) /\ DOMAIN records \subseteq RecordKey
  BY RecordsType
<1>3. /\ seen' \subseteq RecordKey /\ records \in Dict(seen') /\ receiver \in Dict(seen')
      /\ current \in Dict(seen') /\ version + 1 \in Nat
  BY <1>1, <1>2, DictGrows DEF ShippingTypes
<1>4. current \in Dict(RecordKey) /\ records \in Dict(RecordKey)
  BY <1>3, DictGrows
<1>5. d \in Delta /\ KeysIn(d, seen')
  <2>1. DOMAIN current \cup DOMAIN records \subseteq seen'
    BY <1>3, DictFields
  <2> QED BY <1>3, <1>4, <2>1, ComputedType
<1>6. wire \in Seq(Delta) /\ Len(wire) \in Nat
  BY <1>1 DEF ShippingTypes
<1> HIDE DEF d
<1>7. /\ wire' \in Seq(Delta) /\ Len(wire') = Len(wire) + 1
      /\ wire'[Len(wire) + 1] = d /\ \A i \in 1 .. Len(wire) : wire'[i] = wire[i]
  BY <1>1, <1>5, <1>6
<1>8. ShippingTypes'
  <2>1. ASSUME NEW i \in 1 .. Len(wire')
        PROVE  KeysIn(wire'[i], seen')
    <3>1. i \in 1 .. Len(wire) \/ i = Len(wire) + 1
      BY <1>6, <1>7
    <3>2. i \in 1 .. Len(wire) => KeysIn(wire[i], seen')
      BY <1>1 DEF ShippingTypes, KeysIn
    <3> QED BY <1>5, <1>7, <3>1, <3>2
  <2> QED BY <1>1, <1>3, <1>7, <2>1 DEF ShippingTypes, KeysIn
<1>9. ASSUME ~ emptied'
      PROVE  InStep'
  <2>1. ~ emptied /\ records # EmptyDict /\ InStep
    BY <1>1, <1>9 DEF DeltaInv
  <2>2. ASSUME ~ Mistaken(seen')
        PROVE  \E st : Track(st, receiver, wire', records, seen')
    <3>1. ~ Mistaken(seen)
      BY <1>1, <2>2, NoneMistaken
    <3>2. PICK st : Track(st, receiver, wire, current, seen)
      BY <2>1, <3>1 DEF InStep
    <3> DEFINE n == Len(wire)
               tr == [i \in 0 .. n + 1 |-> IF i = n + 1 THEN records ELSE st[i]]
    <3>3. ApplyDelta(current, d) = records
      <4>1. DOMAIN current \subseteq seen' /\ DOMAIN records \subseteq seen' /\ IsDict(records)
        BY <1>3, DictFields
      <4> QED BY <2>2, <4>1, Computed DEF d
    <3>4. n \in Nat
      BY <1>6
    <3>5. /\ st[0] = receiver /\ st[n] = current
          /\ \A i \in 1 .. n : st[i] = ApplyDelta(st[i - 1], wire[i])
          /\ \A i \in 0 .. n : st[i] \in Dict(seen')
      <4>1. Dict(seen) \subseteq Dict(seen')
        BY <1>1, DictGrows
      <4> QED BY <3>2, <4>1 DEF Track
    <3> HIDE DEF n
    <3>6. tr[0] = receiver /\ tr[n + 1] = records
      BY <3>4, <3>5
    <3>7. ASSUME NEW i \in 1 .. n + 1
          PROVE  tr[i] = ApplyDelta(tr[i - 1], wire'[i])
      <4>1. CASE i = n + 1
        <5>1. tr[i] = records /\ tr[i - 1] = current /\ wire'[i] = d
          BY <1>7, <3>4, <3>5, <4>1 DEF n
        <5> QED BY <3>3, <5>1
      <4>2. CASE i # n + 1
        <5>1. i \in 1 .. n /\ i - 1 \in 0 .. n
          BY <3>4, <4>2
        <5>2. tr[i] = st[i] /\ tr[i - 1] = st[i - 1] /\ wire'[i] = wire[i]
          BY <1>7, <3>4, <5>1 DEF n
        <5> QED BY <3>5, <5>1, <5>2
      <4> QED BY <4>1, <4>2
    <3>8. \A i \in 0 .. n + 1 : tr[i] \in Dict(seen')
      BY <1>3, <3>4, <3>5
    <3>9. Track(tr, receiver, wire', records, seen')
      <4> HIDE DEF tr
      <4> QED BY <1>7, <3>6, <3>7, <3>8 DEF Track, n
    <3> QED BY <3>9
  <2> QED BY <1>1, <2>1, <2>2 DEF InStep
<1> QED BY <1>8, <1>9 DEF DeltaInv

LEMMA ApplyStep ==
    ASSUME DeltaInv, Apply
    PROVE  DeltaInv'
<1> DEFINE d == Head(wire)
<1>1. /\ wire # <<>> /\ receiver' = ApplyDelta(receiver, d) /\ last' = d /\ wire' = Tail(wire)
      /\ UNCHANGED <<current, version, emptied, seen>> /\ ShippingTypes
  BY DEF Apply, DeltaInv
<1>2. /\ wire \in Seq(Delta) /\ Len(wire) \in Nat /\ Len(wire) > 0
      /\ d = wire[1] /\ d \in Delta
      /\ wire' \in Seq(Delta) /\ Len(wire') = Len(wire) - 1
      /\ \A i \in 1 .. Len(wire) - 1 : wire'[i] = wire[i + 1]
  BY <1>1 DEF ShippingTypes
<1> HIDE DEF d
<1>3. KeysIn(d, seen) /\ receiver \in Dict(seen)
  BY <1>1, <1>2 DEF ShippingTypes
<1>4. receiver' \in Dict(seen)
  BY <1>1, <1>2, <1>3, AppliedType
<1>5. ShippingTypes'
  <2>1. \A i \in 1 .. Len(wire') : KeysIn(wire'[i], seen)
    BY <1>1, <1>2 DEF ShippingTypes
  <2> QED BY <1>1, <1>2, <1>3, <1>4, <2>1 DEF ShippingTypes
<1>6. ASSUME ~ emptied'
      PROVE  InStep'
  <2>1. ~ emptied /\ InStep
    BY <1>1, <1>6 DEF DeltaInv
  <2>2. current # EmptyDict
    BY <1>1, <2>1 DEF InStep
  <2>3. ApplyDelta(receiver', last') = receiver'
    BY <1>1, AppliedTwice
  <2>4. ASSUME ~ Mistaken(seen)
        PROVE  \E st : Track(st, receiver', wire', current, seen)
    <3>1. PICK st : Track(st, receiver, wire, current, seen)
      BY <2>1, <2>4 DEF InStep
    <3> DEFINE n == Len(wire)
               tr == [i \in 0 .. n - 1 |-> st[i + 1]]
    <3>2. /\ st[0] = receiver /\ st[n] = current
          /\ \A i \in 1 .. n : st[i] = ApplyDelta(st[i - 1], wire[i])
          /\ \A i \in 0 .. n : st[i] \in Dict(seen)
          /\ n \in Nat /\ n > 0
      BY <1>2, <3>1 DEF Track
    <3> HIDE DEF n
    <3>3. tr[0] = receiver' /\ tr[n - 1] = current
      <4>1. st[1] = receiver'
        <5>1. 1 \in 1 .. n /\ 1 - 1 = 0
          BY <3>2
        <5> QED BY <1>1, <1>2, <3>2, <5>1
      <4> QED BY <3>2, <4>1
    <3>4. ASSUME NEW i \in 1 .. n - 1
          PROVE  tr[i] = ApplyDelta(tr[i - 1], wire'[i])
      <4>1. /\ i + 1 \in 1 .. n /\ (i + 1) - 1 = i /\ i \in 0 .. n - 1
            /\ i - 1 \in 0 .. n - 1 /\ (i - 1) + 1 = i
        BY <3>2
      <4>2. tr[i] = st[i + 1] /\ tr[i - 1] = st[i] /\ wire'[i] = wire[i + 1]
        BY <1>2, <4>1 DEF n
      <4> QED BY <3>2, <4>1, <4>2
    <3>5. \A i \in 0 .. n - 1 : tr[i] \in Dict(seen)
      BY <3>2
    <3>6. Track(tr, receiver', wire', current, seen)
      <4> HIDE DEF tr
      <4> QED BY <1>2, <3>3, <3>4, <3>5 DEF Track, n
    <3> QED BY <3>6
  <2> QED BY <1>1, <2>2, <2>3, <2>4 DEF InStep
<1> QED BY <1>5, <1>6 DEF DeltaInv

LEMMA ApplyAgainStep ==
    ASSUME DeltaInv, ApplyAgain
    PROVE  DeltaInv'
<1>1. /\ last # NoDelta /\ receiver' = ApplyDelta(receiver, last)
      /\ UNCHANGED <<current, version, wire, last, emptied, seen>> /\ ShippingTypes
  BY DEF ApplyAgain, DeltaInv
<1>2. receiver' \in Dict(seen)
  BY <1>1, AppliedType DEF ShippingTypes
<1>3. ShippingTypes'
  BY <1>1, <1>2 DEF ShippingTypes
<1>4. ~ emptied => receiver' = receiver
  BY <1>1 DEF DeltaInv, InStep
<1> QED BY <1>1, <1>3, <1>4 DEF DeltaInv, InStep

(* v is w with its elements i and i + 1 replaced by c *)
IsSpliced(v, w, i, c) ==
    /\ v \in Seq(Delta) /\ Len(v) = Len(w) - 1
    /\ v[i] = c
    /\ \A j \in 1 .. i - 1 : v[j] = w[j]
    /\ \A j \in i + 1 .. Len(w) - 1 : v[j] = w[j + 1]

LEMMA Spliced ==
    ASSUME NEW w \in Seq(Delta), NEW i \in 1 .. Len(w) - 1, NEW c \in Delta
    PROVE  IsSpliced(SubSeq(w, 1, i - 1) \o <<c>> \o SubSeq(w, i + 2, Len(w)), w, i, c)
<1> DEFINE a == SubSeq(w, 1, i - 1)
           b == SubSeq(w, i + 2, Len(w))
           ac == a \o <<c>>
<1>1. Len(w) \in Nat /\ i \in Nat /\ i >= 1 /\ i <= Len(w) - 1
  OBVIOUS
<1>2. a \in Seq(Delta) /\ Len(a) = i - 1 /\ \A j \in 1 .. i - 1 : a[j] = w[j]
  BY <1>1
<1>3. /\ b \in Seq(Delta) /\ Len(b) = Len(w) - i - 1
      /\ \A j \in 1 .. Len(w) - i - 1 : b[j] = w[i + 1 + j]
  BY <1>1
<1> HIDE DEF a, b
<1>4. /\ ac \in Seq(Delta) /\ Len(ac) = i /\ ac[i] = c
      /\ \A j \in 1 .. i - 1 : ac[j] = w[j]
  BY <1>1, <1>2
<1> HIDE DEF ac
<1> DEFINE v == ac \o b
<1>5. v \in Seq(Delta) /\ Len(v) = Len(w) - 1
  <2>1. v \in Seq(Delta)
    BY <1>3, <1>4
  <2>2. Len(v) = Len(ac) + Len(b)
    <3>1. ac \in Seq(Delta) /\ b \in Seq(Delta)
      BY <1>3, <1>4
    <3>2. Len(ac \o b) = Len(ac) + Len(b)
      BY <3>1, SMT
    <3> QED BY <3>2
  <2> HIDE DEF v
  <2>3. Len(v) = Len(w) - 1
    BY <1>1, <1>3, <1>4, <2>2
  <2> QED BY <2>1, <2>3
<1>6. \A j \in 1 .. i : v[j] = ac[j]
  BY <1>1, <1>3, <1>4
<1>7. ASSUME NEW j \in i + 1 .. Len(w) - 1
      PROVE  v[j] = w[j + 1]
  <2>1. j - i \in 1 .. Len(w) - i - 1 /\ j \notin 1 .. i /\ j \in 1 .. Len(w) - 1
    BY <1>1
  <2>2. v[j] = b[j - i]
    BY <1>1, <1>3, <1>4, <2>1
  <2>3. i + 1 + (j - i) = j + 1
    BY <1>1
  <2> QED BY <1>3, <2>1, <2>2, <2>3
<1>8. v[i] = c /\ \A j \in 1 .. i - 1 : v[j] = w[j]
  BY <1>1, <1>4, <1>6
<1> HIDE DEF v
<1>9. IsSpliced(v, w, i, c)
  BY <1>5, <1>7, <1>8 DEF IsSpliced
<1> QED BY <1>9 DEF v, ac, a, b

LEMMA ComposeStep ==
    ASSUME DeltaInv, Compose
    PROVE  DeltaInv'
<1>1. PICK i \in 1 .. Len(wire) - 1 :
        wire' = SubSeq(wire, 1, i - 1) \o <<ComposeDeltas(<<wire[i], wire[i + 1]>>)>>
                  \o SubSeq(wire, i + 2, Len(wire))
  BY DEF Compose
<1> DEFINE c == Absorb(Absorb(NoDelta, wire[i]), wire[i + 1])
           n == Len(wire)
<1>2. /\ UNCHANGED <<current, version, last, receiver, emptied, seen>> /\ ShippingTypes
      /\ ComposeDeltas(<<wire[i], wire[i + 1]>>) = c
  BY Composed DEF Compose, DeltaInv
<1>3. /\ n \in Nat /\ i \in 1 .. n - 1 /\ wire \in Seq(Delta)
      /\ wire[i] \in Delta /\ wire[i + 1] \in Delta
      /\ KeysIn(wire[i], seen) /\ KeysIn(wire[i + 1], seen)
  BY <1>2 DEF ShippingTypes
<1>4. Absorb(NoDelta, wire[i]) \in Delta /\ c \in Delta
  BY <1>3, NoDeltaType, AbsorbedType
<1> HIDE DEF c
<1>5. /\ wire' \in Seq(Delta) /\ Len(wire') = n - 1 /\ wire'[i] = c
      /\ \A j \in 1 .. i - 1 : wire'[j] = wire[j]
      /\ \A j \in i + 1 .. n - 1 : wire'[j] = wire[j + 1]
  <2>1. wire' = SubSeq(wire, 1, i - 1) \o <<c>> \o SubSeq(wire, i + 2, Len(wire))
    BY <1>1, <1>2
  <2>2. i \in 1 .. Len(wire) - 1
    BY <1>3
  <2>3. IsSpliced(SubSeq(wire, 1, i - 1) \o <<c>> \o SubSeq(wire, i + 2, Len(wire)), wire, i, c)
    BY <1>3, <1>4, <2>2, Spliced
  <2>4. IsSpliced(wire', wire, i, c)
    BY <2>1, <2>3
  <2> QED BY <2>4 DEF IsSpliced
<1>6. KeysIn(c, seen)
  <2>1. ASSUME NEW net, NEW d, KeysIn(net, seen), KeysIn(d, seen)
        PROVE  KeysIn(Absorb(net, d), seen)
    BY <2>1 DEF Absorb, Replace, Over, Without, Sub, KeysIn
  <2>2. KeysIn(Absorb(NoDelta, wire[i]), seen)
    BY <1>3, <2>1, NoDeltaType
  <2> QED BY <1>3, <2>1, <2>2 DEF c
<1>7. ShippingTypes'
  <2>1. ASSUME NEW j \in 1 .. n - 1
        PROVE  KeysIn(wire'[j], seen)
    <3>1. CASE j = i
      BY <1>5, <1>6, <3>1
    <3>2. CASE j < i
      <4>1. j \in 1 .. i - 1 /\ j \in 1 .. n
        BY <1>3, <3>2
      <4> QED BY <1>2, <1>5, <4>1 DEF ShippingTypes
    <3>3. CASE j > i
      <4>1. j \in i + 1 .. n - 1 /\ j + 1 \in 1 .. n
        BY <1>3, <3>3
      <4> QED BY <1>2, <1>5, <4>1 DEF ShippingTypes
    <3> QED BY <1>3, <3>1, <3>2, <3>3
  <2> HIDE DEF n
  <2> QED BY <1>2, <1>5, <2>1 DEF ShippingTypes
<1>8. ASSUME ~ emptied'
      PROVE  InStep'
  <2>1. ~ emptied /\ InStep
    BY <1>2, <1>8 DEF DeltaInv
  <2>2. wire # <<>>
    BY <1>3
  <2>3. current # EmptyDict
    BY <2>1, <2>2 DEF InStep
  <2>4. ASSUME ~ Mistaken(seen)
        PROVE  \E st : Track(st, receiver, wire', current, seen)
    <3>1. PICK st : Track(st, receiver, wire, current, seen)
      BY <2>1, <2>4 DEF InStep
    <3>2. /\ st[0] = receiver /\ st[n] = current
          /\ \A j \in 1 .. n : st[j] = ApplyDelta(st[j - 1], wire[j])
          /\ \A j \in 0 .. n : st[j] \in Dict(seen)
      BY <3>1 DEF Track
    <3> DEFINE tr == [j \in 0 .. n - 1 |-> IF j < i THEN st[j] ELSE st[j + 1]]
    <3> HIDE DEF n
    <3>3. st[i + 1] = ApplyDelta(st[i - 1], c)
      <4> DEFINE x == st[i - 1]
                 one == Absorb(NoDelta, wire[i])
      <4>1. /\ i \in 1 .. n /\ i + 1 \in 1 .. n /\ (i + 1) - 1 = i /\ i - 1 \in 0 .. n
        BY <1>3
      <4>2. st[i + 1] = ApplyDelta(ApplyDelta(x, wire[i]), wire[i + 1])
        BY <3>2, <4>1
      <4>3. x \in Dict(seen)
        BY <3>2, <4>1
      <4> HIDE DEF x
      <4>4. DOMAIN x \subseteq seen /\ ApplyDelta(x, NoDelta) = x /\ KeysIn(NoDelta, seen)
        BY <4>3, DictFields, NoDeltaType
      <4>5. ApplyDelta(x, one) = ApplyDelta(ApplyDelta(x, NoDelta), wire[i])
        BY <1>3, <2>4, <4>4, AbsorbedApplies
      <4>6. KeysIn(one, seen)
        BY <1>3, <4>4 DEF Absorb, Replace, Over, Without, Sub, KeysIn
      <4> HIDE DEF one
      <4>7. ApplyDelta(x, Absorb(one, wire[i + 1])) = ApplyDelta(ApplyDelta(x, one), wire[i + 1])
        BY <1>3, <2>4, <4>4, <4>6, AbsorbedApplies
      <4> QED BY <4>2, <4>4, <4>5, <4>7 DEF x, one, c
    <3>4. tr[0] = receiver /\ tr[n - 1] = current
      BY <1>3, <3>2
    <3>5. ASSUME NEW j \in 1 .. n - 1
          PROVE  tr[j] = ApplyDelta(tr[j - 1], wire'[j])
      <4>1. CASE j = i
        <5>1. tr[j] = st[i + 1] /\ tr[j - 1] = st[i - 1]
          BY <1>3, <4>1
        <5> QED BY <1>5, <3>3, <4>1, <5>1
      <4>2. CASE j < i
        <5>1. tr[j] = st[j] /\ tr[j - 1] = st[j - 1] /\ j \in 1 .. i - 1 /\ j \in 1 .. n
          BY <1>3, <4>2
        <5> QED BY <1>5, <3>2, <5>1
      <4>3. CASE j > i
        <5>1. /\ tr[j] = st[j + 1] /\ tr[j - 1] = st[j] /\ j \in i + 1 .. n - 1
              /\ j + 1 \in 1 .. n /\ (j + 1) - 1 = j
          BY <1>3, <4>3
        <5> QED BY <1>5, <3>2, <5>1
      <4> QED BY <1>3, <4>1, <4>2, <4>3
    <3>6. \A j \in 0 .. n - 1 : tr[j] \in Dict(seen)
      BY <1>3, <3>2
    <3>7. Track(tr, receiver, wire', current, seen)
      <4> HIDE DEF tr
      <4> QED BY <1>5, <3>4, <3>5, <3>6 DEF Track
    <3> QED BY <3>7
  <2> QED BY <1>2, <2>1, <2>3, <2>4 DEF InStep
<1> QED BY <1>7, <1>8 DEF DeltaInv

(* The receiver has the records of the store once it has applied the deltas *)
(* on their way, whatever was composed on the way and however often the     *)
(* last one arrives, for any records, unless the store was emptied or the   *)
(* name of a key takes another or leaves its own: compose_deltas of         *)
(* neighbours is applied as they are, and apply_delta twice as once.        *)
THEOREM ReceiverFollowsStore == DeltaSpec => []ReceiverInStep
<1>1. DeltaInv /\ [DeltaNext]_deltaVars => DeltaInv'
  <2>1. ASSUME DeltaInv, UNCHANGED deltaVars
        PROVE  DeltaInv'
    BY <2>1 DEF DeltaInv, deltaVars, ShippingTypes, InStep
  <2> QED BY <2>1, FirstIngestStep, IngestStep, ComposeStep, ApplyStep, ApplyAgainStep
          DEF DeltaNext
<1>2. DeltaInv => ReceiverInStep
  <2> SUFFICES ASSUME DeltaInv, ~ emptied, ~ Mistaken(seen)
               PROVE  FoldLeft(ApplyDelta, receiver, wire) = current
    BY DEF ReceiverInStep
  <2>1. PICK st : Track(st, receiver, wire, current, seen)
    BY DEF DeltaInv, InStep
  <2>2. wire \in Seq(Delta)
    BY DEF DeltaInv, ShippingTypes
  <2> QED BY <2>1, <2>2, TrackIsFold
<1> QED BY <1>1, <1>2, DeltaStarts, PTL DEF DeltaSpec

-----------------------------------------------------------------------------
(* The search of a pipeline for cycles, and for an order of its stages *)

StageNames(p) == Range(NamesOf(p))

Distinct(p) ==
    "" \notin StageNames(p) /\ \A m, n \in DOMAIN p : p[m].name = p[n].name => m = n

Needs(p, name) == Range(Dependencies(StageOf(p, name)))

Rankings(p) ==
    {rank \in [StageNames(p) -> DOMAIN p] :
        \A n \in DOMAIN p : \A dep \in Range(Dependencies(p[n])) :
            dep \in DOMAIN rank /\ rank[dep] < rank[p[n].name]}

(* What a frame has to look at *)
Wants(p, name) == IF name = "" THEN StageNames(p) ELSE Needs(p, name)

(* An order in which each name comes after what it needs *)
IsOrder(p, order) ==
    /\ order \in Seq(StageNames(p))
    /\ \A m, n \in DOMAIN order : order[m] = order[n] => m = n
    /\ \A n \in DOMAIN order : \A dep \in Needs(p, order[n]) :
         \E m \in DOMAIN order : m < n /\ order[m] = dep

FrameOf(p) == [name : StageNames(p) \cup {""}, rest : Seq(StageNames(p))]

IsCalls(p, calls, order) ==
    /\ calls \in Seq(FrameOf(p)) /\ calls # <<>>
    /\ \A n \in DOMAIN calls : (calls[n].name = "") <=> (n = 1)
    /\ \A m, n \in DOMAIN calls : calls[m].name = calls[n].name => m = n
    /\ \A n \in DOMAIN calls : calls[n].name \notin Range(order)

(* What a call wants is done, called, or still to be looked at. *)
Covers(p, calls, order) ==
    \A n \in DOMAIN calls :
        /\ Range(calls[n].rest) \subseteq Wants(p, calls[n].name)
        /\ \A dep \in Wants(p, calls[n].name) :
             \/ dep \in Range(order) \cup Range(calls[n].rest)
             \/ n + 1 \in DOMAIN calls /\ calls[n + 1].name = dep

(* However stages are ranked, each call is of a lower one. *)
Descends(p, calls) ==
    \A rank \in Rankings(p) : \A m, n \in DOMAIN calls :
        1 < m /\ m < n => rank[calls[n].name] < rank[calls[m].name]

IsStack(p, calls, order) ==
    IsCalls(p, calls, order) /\ Covers(p, calls, order) /\ Descends(p, calls)

Searching ==
    pc \in {"detect", "sort"} =>
       /\ pipeline \in Pipelines /\ IsWellNamed(pipeline)
       /\ IsOrder(pipeline, todo) /\ IsStack(pipeline, stack, todo)
       /\ outcome = "none" /\ results = EmptyDict
       /\ pc = "sort" => IsAcyclic(pipeline)

-----------------------------------------------------------------------------
(* The stages *)

Of(inputs, r) ==
    [n \in DOMAIN inputs |-> IF inputs[n].ref THEN r[inputs[n].of] ELSE Given(inputs[n].of)]

MergeOf(p, name, r) ==
    LET s == StageOf(p, name) IN Merged(s.how, Of(s.models, r), Of(s.base, r))

(* All but the mark of a failure is what the stages of p define. *)
Sound(p, r, marks) ==
    \A name \in DOMAIN r \ marks :
        name \in StageNames(p) /\ Needs(p, name) \subseteq DOMAIN r /\ r[name] = MergeOf(p, name, r)

OneUser == kept => users = {pipeline} /\ "failed_at" \notin StageNames(pipeline)

(* What is left of the order, when r is what there is *)
IsRest(p, rest, r) ==
    /\ rest \in Seq(StageNames(p))
    /\ \A m, n \in DOMAIN rest : rest[m] = rest[n] => m = n
    /\ DOMAIN r = StageNames(p) \ Range(rest) /\ IsDict(r)
    /\ \A n \in DOMAIN rest : \A dep \in Needs(p, rest[n]) :
         dep \in DOMAIN r \/ \E m \in DOMAIN rest : m < n /\ rest[m] = dep

Agree(r, c) == \A name \in DOMAIN r : name \in DOMAIN c /\ c[name] = r[name]

Merging ==
    pc \in {"stages", "save", "write"} =>
       /\ pipeline \in Pipelines /\ IsWellNamed(pipeline) /\ IsAcyclic(pipeline)
       /\ kept => pipeline \in users
       /\ outcome \in {"none", "failed"}
       /\ pc = "stages" => outcome = "none"
       /\ pc # "stages" => kept
       /\ IsRest(pipeline, todo, results)
       /\ OneUser => Sound(pipeline, results, {})
       /\ OneUser /\ kept => Agree(results, completed)

Ended ==
    /\ outcome \in {"none", "done", "failed", "invalid"}
    /\ outcome = "invalid" => ~ (Distinct(pipeline) /\ IsAcyclic(pipeline))
    /\ outcome = "done" =>
         /\ pipeline \in Pipelines /\ IsWellNamed(pipeline) /\ IsAcyclic(pipeline)
         /\ DOMAIN results = StageNames(pipeline) /\ IsDict(results)
         /\ OneUser => Sound(pipeline, results, {})

Checkpointed ==
    \A q \in Pipelines : users \subseteq {q} /\ "failed_at" \notin StageNames(q) =>
        Sound(q, completed, {"failed_at"}) /\ Sound(q, file.data, {"failed_at"})

PipelineInv == Searching /\ Merging /\ Ended /\ Checkpointed

-----------------------------------------------------------------------------
(* What was saved *)

SavedInv ==
    /\ pc \in {"down", "ready", "detect", "sort", "stages", "save", "write"}
    /\ file.state \in {"none", "broken", "whole"}
    /\ file.state = "none" <=> file = NoFile
    /\ file = NoFile => ~lost /\ again = {} /\ saved = {}
    /\ file.state = "broken" /\ pc = "down" => lost
    /\ file.state = "whole" /\ ~lost => saved \subseteq DOMAIN file.data
    /\ pc # "down" /\ ~lost => saved \subseteq DOMAIN completed
    /\ SavedIsNotRepeated

IsListing(q, S) ==
    /\ q \in [1 .. Cardinality(S) -> S]
    /\ \A i, j \in 1 .. Cardinality(S) : i < j => q[i] < q[j]
    /\ \A x \in S : \E n \in 1 .. Cardinality(S) : q[n] = x

LEMMA ListingOf ==
    ASSUME NEW S, IsFiniteSet(S), S \subseteq Int
    PROVE  IsListing(InOrder(S), S)
<1>1. \A T : Sending!Cardinality(T) = Cardinality(T)
  BY DEF Sending!Cardinality, Cardinality
<1>2. Sending!IsFiniteSet(S)
  BY DEF Sending!IsFiniteSet, IsFiniteSet
<1>3. Sending!IsSorted(Sending!InOrder(S), S)
  BY <1>2, Sending!InOrderIsSorted
<1>4. Sending!InOrder(S) = InOrder(S)
  BY DEF InOrder, Sending!InOrder, Sending!Cardinality, Cardinality
<1> QED BY <1>1, <1>3, <1>4 DEF Sending!IsSorted, IsListing

AreJoined(ab, a, b) ==
    /\ Len(ab) \in Nat /\ DOMAIN ab = 1 .. Len(ab)
    /\ \A n \in DOMAIN a : n \in DOMAIN ab /\ ab[n] = a[n]
    /\ \A n \in DOMAIN b : Len(a) + n \in DOMAIN ab /\ ab[Len(a) + n] = b[n]

LEMMA OneAfterAnother ==
    ASSUME NEW S, NEW a \in Seq(S), NEW b \in Seq(S)
    PROVE  AreJoined(a \o b, a, b)
<1>1. /\ a \o b \in Seq(S) /\ Len(a \o b) = Len(a) + Len(b)
      /\ Len(a) \in Nat /\ Len(b) \in Nat
      /\ DOMAIN a = 1 .. Len(a) /\ DOMAIN b = 1 .. Len(b)
  OBVIOUS
<1>2. DOMAIN (a \o b) = 1 .. Len(a) + Len(b)
  BY <1>1
<1>3. \A n \in DOMAIN a : (a \o b)[n] = a[n]
  OBVIOUS
<1>4. \A n \in DOMAIN b : (a \o b)[Len(a) + n] = b[n]
  <2> TAKE n \in DOMAIN b
  <2>1. n \in 1 .. Len(b)
    BY <1>1
  <2>2. Len(a) + n \in 1 .. Len(a) + Len(b) /\ ~ (Len(a) + n <= Len(a)) /\ Len(a) + n - Len(a) = n
    BY <1>1, <2>1
  <2> QED BY <2>2
<1>5. /\ Len(a) + Len(b) \in Nat
      /\ \A n \in DOMAIN a : n \in 1 .. Len(a) + Len(b)
      /\ \A n \in DOMAIN b : Len(a) + n \in 1 .. Len(a) + Len(b)
  BY <1>1
<1> QED BY <1>1, <1>2, <1>3, <1>4, <1>5 DEF AreJoined

(* The inputs that name a stage are the dependencies of a stage. *)
LEMMA DependenciesOf ==
    ASSUME NEW s \in Stages
    PROVE  /\ Dependencies(s) \in Seq(Range(Dependencies(s)))
           /\ \A n \in DOMAIN s.models :
                s.models[n].ref => s.models[n].of \in Range(Dependencies(s))
           /\ \A n \in DOMAIN s.base :
                s.base[n].ref => s.base[n].of \in Range(Dependencies(s))
<1> DEFINE inputs == s.models \o s.base
           S == {n \in DOMAIN inputs : inputs[n].ref}
           q == InOrder(S)
           d == Dependencies(s)
           N == Cardinality(S)
<1>1. s.models \in Seq(Input) /\ s.base \in Seq(Input)
  BY DEF Stages
<1>2. AreJoined(inputs, s.models, s.base)
  BY <1>1, OneAfterAnother
<1> HIDE DEF inputs
<1>3. S \subseteq 1 .. Len(inputs) /\ S \subseteq Int /\ Len(inputs) \in Nat
  <2>1. Len(inputs) \in Nat /\ DOMAIN inputs = 1 .. Len(inputs)
    BY <1>2 DEF AreJoined
  <2> QED BY <2>1
<1>4. IsFiniteSet(S)
  <2>1. IsFiniteSet(1 .. Len(inputs))
    BY <1>3, FS_Interval
  <2> QED BY <1>3, <2>1, FS_Subset
<1>5. IsListing(q, S) /\ N \in Nat
  BY <1>3, <1>4, ListingOf, FS_CardinalityType
<1>6. d = [n \in 1 .. N |-> inputs[q[n]].of]
  BY <1>5 DEF Dependencies, At, inputs
<1>7. \A x \in S : inputs[x].of \in Range(d)
  <2> TAKE x \in S
  <2>1. PICK n \in 1 .. N : q[n] = x
    BY <1>5 DEF IsListing
  <2> QED BY <2>1, <1>6 DEF Range
<1>8. d \in Seq(Range(d))
  <2>1. \A n \in 1 .. N : d[n] \in Range(d)
    BY <1>6 DEF Range
  <2>2. d \in [1 .. N -> Range(d)]
    BY <1>6, <2>1
  <2> HIDE DEF d, N
  <2> QED BY <1>5, <2>2
<1>9. \A n \in DOMAIN s.models : s.models[n].ref => s.models[n].of \in Range(d)
  <2> TAKE n \in DOMAIN s.models
  <2>1. n \in DOMAIN inputs /\ inputs[n] = s.models[n]
    BY <1>2 DEF AreJoined
  <2> QED BY <1>7, <2>1
<1>10. \A n \in DOMAIN s.base : s.base[n].ref => s.base[n].of \in Range(d)
  <2> TAKE n \in DOMAIN s.base
  <2>1. Len(s.models) + n \in DOMAIN inputs /\ inputs[Len(s.models) + n] = s.base[n]
    BY <1>2 DEF AreJoined
  <2> QED BY <1>7, <2>1
<1> QED BY <1>8, <1>9, <1>10

(* A name in a list without repetitions is that of one stage. *)
LEMMA StageNamed ==
    ASSUME NEW p \in Seq(Stages), Distinct(p)
    PROVE  /\ \A n \in DOMAIN p : p[n].name \in StageNames(p) /\ StageOf(p, p[n].name) = p[n]
           /\ \A name \in StageNames(p) : \E n \in DOMAIN p : p[n].name = name
           /\ \A name \in StageNames(p) : StageOf(p, name) \in Stages
           /\ NamesOf(p) \in Seq(StageNames(p))
           /\ Range(NamesOf(p)) = StageNames(p) /\ "" \notin StageNames(p)
<1>1. /\ DOMAIN p = 1 .. Len(p) /\ Len(p) \in Nat
      /\ \A n \in DOMAIN p : p[n] \in Stages
  OBVIOUS
<1>2. ASSUME NEW n \in DOMAIN p
      PROVE  p[n].name \in StageNames(p) /\ StageOf(p, p[n].name) = p[n]
  <2>1. p[n].name \in StageNames(p)
    BY DEF StageNames, NamesOf, Range
  <2>2. (CHOOSE m \in DOMAIN p : p[m].name = p[n].name) = n
    BY DEF Distinct
  <2> QED BY <2>1, <2>2 DEF StageOf
<1>3. \A name \in StageNames(p) : \E n \in DOMAIN p : p[n].name = name
  BY DEF StageNames, NamesOf, Range
<1>4. \A name \in StageNames(p) : StageOf(p, name) \in Stages
  BY <1>1, <1>2, <1>3
<1>5. NamesOf(p) \in [1 .. Len(p) -> StageNames(p)]
  BY <1>1, <1>2 DEF NamesOf
<1>6. NamesOf(p) \in Seq(StageNames(p))
  BY <1>1, <1>5
<1> QED BY <1>2, <1>3, <1>4, <1>6 DEF Distinct, StageNames

LEMMA WellNamed ==
    ASSUME NEW p \in Pipelines, IsWellNamed(p)
    PROVE  /\ p \in Seq(Stages) /\ Distinct(p)
           /\ \A name \in StageNames(p) :
                /\ Needs(p, name) \subseteq StageNames(p)
                /\ Dependencies(StageOf(p, name)) \in Seq(Needs(p, name))
                /\ Dependencies(StageOf(p, name)) \in Seq(StageNames(p))
           /\ \A n \in DOMAIN p : Range(Dependencies(p[n])) = Needs(p, p[n].name)
<1>1. p \in Seq(Stages)
  BY PipelineAssumption
<1>2. Distinct(p)
  BY DEF Distinct, IsWellNamed, StageNames
<1>3. ASSUME NEW name \in StageNames(p)
      PROVE  /\ Needs(p, name) \subseteq StageNames(p)
             /\ Dependencies(StageOf(p, name)) \in Seq(Needs(p, name))
  <2>0. PICK n \in DOMAIN p : p[n].name = name
    BY <1>1, <1>2, StageNamed
  <2>1. StageOf(p, name) = p[n]
    BY <1>1, <1>2, <2>0, StageNamed
  <2>2. Range(Dependencies(p[n])) \subseteq StageNames(p)
    BY DEF IsWellNamed, StageNames
  <2>3. StageOf(p, name) \in Stages
    BY <1>1, <1>2, StageNamed
  <2> QED BY <2>0, <2>1, <2>2, <2>3, DependenciesOf DEF Needs
<1>4. \A name \in StageNames(p) : Dependencies(StageOf(p, name)) \in Seq(StageNames(p))
  <2>1. ASSUME NEW S, NEW T, S \subseteq T, NEW q \in Seq(S)
        PROVE  q \in Seq(T)
    BY <2>1
  <2> QED BY <1>3, <2>1
<1>5. \A n \in DOMAIN p : Range(Dependencies(p[n])) = Needs(p, p[n].name)
  BY <1>1, <1>2, StageNamed DEF Needs
<1> QED BY <1>1, <1>2, <1>3, <1>4, <1>5

LEMMA HeadAndTail ==
    ASSUME NEW S, NEW q \in Seq(S), q # <<>>
    PROVE  /\ Head(q) \in S /\ Tail(q) \in Seq(S) /\ Head(q) \in Range(q)
           /\ Range(q) = {Head(q)} \cup Range(Tail(q))
<1>1. /\ Len(q) \in Nat \ {0} /\ DOMAIN q = 1 .. Len(q)
      /\ Head(q) = q[1] /\ Tail(q) \in Seq(S) /\ q[1] \in S
      /\ DOMAIN Tail(q) = 1 .. Len(q) - 1
      /\ \A n \in 1 .. Len(q) - 1 : Tail(q)[n] = q[n + 1]
  OBVIOUS
<1>2. q[1] \in Range(q)
  BY <1>1 DEF Range
<1>3. \A x \in Range(Tail(q)) : x \in Range(q)
  <2> TAKE x \in Range(Tail(q))
  <2>1. PICK n \in 1 .. Len(q) - 1 : x = Tail(q)[n]
    BY <1>1 DEF Range
  <2>2. n + 1 \in DOMAIN q /\ x = q[n + 1]
    BY <1>1, <2>1
  <2> QED BY <2>2 DEF Range
<1>4. \A x \in Range(q) : x = q[1] \/ x \in Range(Tail(q))
  <2> TAKE x \in Range(q)
  <2>1. PICK n \in DOMAIN q : x = q[n]
    BY DEF Range
  <2>2. CASE n # 1
    <3>1. n - 1 \in DOMAIN Tail(q) /\ Tail(q)[n - 1] = q[n]
      BY <1>1, <2>2
    <3> QED BY <2>1, <3>1 DEF Range
  <2> QED BY <2>1, <2>2
<1> QED BY <1>1, <1>2, <1>3, <1>4

LEMMA AppendRange ==
    ASSUME NEW S, NEW q \in Seq(S), NEW x \in S
    PROVE  /\ Append(q, x) \in Seq(S) /\ Len(q) \in Nat /\ DOMAIN q = 1 .. Len(q)
           /\ Len(Append(q, x)) = Len(q) + 1
           /\ DOMAIN Append(q, x) = 1 .. Len(q) + 1
           /\ \A n \in DOMAIN q : Append(q, x)[n] = q[n]
           /\ Append(q, x)[Len(q) + 1] = x
           /\ Range(Append(q, x)) = Range(q) \cup {x}
<1>1. /\ Append(q, x) \in Seq(S) /\ Len(q) \in Nat /\ DOMAIN q = 1 .. Len(q)
      /\ Len(Append(q, x)) = Len(q) + 1
      /\ DOMAIN Append(q, x) = 1 .. Len(q) + 1
      /\ \A n \in DOMAIN q : Append(q, x)[n] = q[n]
      /\ Append(q, x)[Len(q) + 1] = x
  OBVIOUS
<1>2. Range(Append(q, x)) = Range(q) \cup {x}
  <2>1. \A n \in 1 .. Len(q) + 1 : n \in DOMAIN q \/ n = Len(q) + 1
    BY <1>1
  <2>2. \A n \in DOMAIN q : n \in 1 .. Len(q) + 1
    BY <1>1
  <2>3. Len(q) + 1 \in 1 .. Len(q) + 1
    BY <1>1
  <2> QED BY <1>1, <2>1, <2>2, <2>3 DEF Range
<1> QED BY <1>1, <1>2

LEMMA WantsAre ==
    ASSUME NEW p \in Pipelines, IsWellNamed(p), NEW name \in StageNames(p) \cup {""}
    PROVE  /\ Frame(p, name) \in FrameOf(p)
           /\ Frame(p, name).name = name
           /\ Range(Frame(p, name).rest) = Wants(p, name)
           /\ Wants(p, name) \subseteq StageNames(p)
<1>1. p \in Seq(Stages) /\ Distinct(p)
  BY WellNamed
<1>2. CASE name = ""
  <2>1. NamesOf(p) \in Seq(StageNames(p)) /\ Range(NamesOf(p)) = StageNames(p)
    BY <1>1, StageNamed
  <2> QED BY <1>2, <2>1 DEF Frame, FrameOf, Wants
<1>3. CASE name # ""
  <2>1. /\ Dependencies(StageOf(p, name)) \in Seq(StageNames(p))
        /\ Range(Dependencies(StageOf(p, name))) = Needs(p, name)
        /\ Needs(p, name) \subseteq StageNames(p)
    BY <1>3, WellNamed DEF Needs
  <2> QED BY <1>3, <2>1 DEF Frame, FrameOf, Wants
<1> QED BY <1>2, <1>3

LEMMA AloneIn ==
    ASSUME NEW S, NEW x \in S
    PROVE  <<x>> \in Seq(S) /\ <<x>> # <<>> /\ DOMAIN <<x>> = {1} /\ <<x>>[1] = x
<1>1. <<x>> \in Seq(S)
  OBVIOUS
<1>2. Len(<<x>>) = 1 /\ <<x>>[1] = x
  OBVIOUS
<1>3. DOMAIN <<x>> = 1 .. 1
  BY <1>1, <1>2
<1> QED BY <1>1, <1>2, <1>3

LEMMA SearchBegins ==
    ASSUME NEW p \in Pipelines, IsWellNamed(p)
    PROVE  IsOrder(p, <<>>) /\ IsStack(p, <<Frame(p, "")>>, <<>>)
<1>1. IsOrder(p, <<>>)
  BY DEF IsOrder
<1> DEFINE frame == Frame(p, "")
           calls == <<frame>>
<1>2. /\ frame \in FrameOf(p) /\ frame.name = ""
      /\ Range(frame.rest) = Wants(p, "")
  BY WantsAre
<1> HIDE DEF frame
<1>3. /\ calls \in Seq(FrameOf(p)) /\ calls # <<>> /\ DOMAIN calls = {1}
      /\ calls[1] = frame
  BY <1>2, AloneIn
<1>4. Range(<<>>) = {}
  BY DEF Range
<1> HIDE DEF calls
<1>5. IsCalls(p, calls, <<>>)
  BY <1>2, <1>3, <1>4 DEF IsCalls
<1>6. Covers(p, calls, <<>>)
  BY <1>2, <1>3 DEF Covers
<1>7. Descends(p, calls)
  BY <1>3 DEF Descends
<1> QED BY <1>1, <1>5, <1>6, <1>7 DEF IsStack, calls, frame

(* The last frame without the name that it looks at *)
Passed(calls) == [calls EXCEPT ![Len(calls)].rest = Tail(calls[Len(calls)].rest)]

LEMMA Passing ==
    ASSUME NEW p \in Pipelines, IsWellNamed(p), NEW calls, NEW order,
           IsStack(p, calls, order), calls[Len(calls)].rest # <<>>
    PROVE  /\ Len(calls) \in DOMAIN calls /\ DOMAIN calls = 1 .. Len(calls) /\ Len(calls) \in Nat
           /\ Passed(calls) \in Seq(FrameOf(p)) /\ Len(Passed(calls)) = Len(calls)
           /\ DOMAIN Passed(calls) = DOMAIN calls
           /\ \A n \in DOMAIN calls : Passed(calls)[n].name = calls[n].name
           /\ \A n \in DOMAIN calls :
                n # Len(calls) => Passed(calls)[n].rest = calls[n].rest
           /\ Head(calls[Len(calls)].rest) \in StageNames(p) /\ Head(calls[Len(calls)].rest) # ""
           /\ Head(calls[Len(calls)].rest) \in Wants(p, calls[Len(calls)].name)
           /\ Range(calls[Len(calls)].rest) =
                {Head(calls[Len(calls)].rest)} \cup Range(Passed(calls)[Len(calls)].rest)
<1> DEFINE k == Len(calls)
           r == calls[k].rest
<1>0. calls \in Seq(FrameOf(p)) /\ calls # <<>>
  BY DEF IsStack, IsCalls
<1>1. /\ k \in Nat /\ DOMAIN calls = 1 .. k /\ k \in DOMAIN calls
      /\ \A n \in DOMAIN calls : calls[n] \in FrameOf(p)
  BY <1>0
<1> HIDE DEF k
<1>2. r \in Seq(StageNames(p))
  BY <1>1 DEF FrameOf
<1>3. /\ Head(r) \in StageNames(p) /\ Tail(r) \in Seq(StageNames(p)) /\ Head(r) \in Range(r)
      /\ Range(r) = {Head(r)} \cup Range(Tail(r))
  BY <1>2, HeadAndTail DEF k
<1>4. Head(r) \in Wants(p, calls[k].name)
  BY <1>1, <1>3 DEF IsStack, Covers
<1>5. Head(r) # ""
  BY <1>3 DEF IsWellNamed, StageNames
<1> HIDE DEF r
<1>6. Passed(calls) =
        [n \in 1 .. k |-> IF n = k THEN [calls[k] EXCEPT !.rest = Tail(r)] ELSE calls[n]]
  BY <1>1 DEF Passed, k, r
<1>7. /\ [calls[k] EXCEPT !.rest = Tail(r)] \in FrameOf(p)
      /\ [calls[k] EXCEPT !.rest = Tail(r)].name = calls[k].name
      /\ [calls[k] EXCEPT !.rest = Tail(r)].rest = Tail(r)
  BY <1>1, <1>3 DEF FrameOf
<1>8. Passed(calls) \in [1 .. k -> FrameOf(p)]
  BY <1>1, <1>6, <1>7
<1>9. Passed(calls) \in Seq(FrameOf(p)) /\ Len(Passed(calls)) = k
  BY <1>1, <1>8
<1>10. /\ \A n \in DOMAIN calls : Passed(calls)[n].name = calls[n].name
       /\ \A n \in DOMAIN calls : n # k => Passed(calls)[n].rest = calls[n].rest
       /\ Passed(calls)[k].rest = Tail(r)
       /\ DOMAIN Passed(calls) = DOMAIN calls
  BY <1>1, <1>6, <1>7
<1> QED BY <1>1, <1>3, <1>4, <1>5, <1>9, <1>10 DEF k, r

(* A ranking of stages puts what a stage needs below it. *)
LEMMA RankingOf ==
    ASSUME NEW p \in Pipelines, IsWellNamed(p), NEW rank \in Rankings(p),
           NEW name \in StageNames(p), NEW dep \in Needs(p, name)
    PROVE  /\ rank[dep] < rank[name] /\ rank[dep] \in Int /\ rank[name] \in Int
           /\ dep \in StageNames(p)
<1>0. p \in Seq(Stages) /\ Distinct(p)
  BY WellNamed
<1>1. PICK n \in DOMAIN p : p[n].name = name
  BY <1>0, StageNamed
<1>2. Range(Dependencies(p[n])) = Needs(p, name)
  BY <1>1, WellNamed
<1>3. dep \in DOMAIN rank /\ rank[dep] < rank[name]
  BY <1>1, <1>2 DEF Rankings
<1>4. rank \in [StageNames(p) -> DOMAIN p]
  BY DEF Rankings
<1>5. DOMAIN p \subseteq Int
  BY <1>0
<1>6. rank[dep] \in DOMAIN p /\ rank[name] \in DOMAIN p /\ dep \in StageNames(p)
  BY <1>3, <1>4
<1> QED BY <1>3, <1>5, <1>6

LEMMA NameVisited ==
    ASSUME NEW p \in Pipelines, IsWellNamed(p), NEW calls, NEW order,
           IsStack(p, calls, order), calls[Len(calls)].rest # <<>>,
           Head(calls[Len(calls)].rest) \in Range(order)
    PROVE  IsStack(p, Passed(calls), order)
<1> DEFINE k == Len(calls)
           name == Head(calls[k].rest)
           passed == Passed(calls)
<1>1. /\ passed \in Seq(FrameOf(p)) /\ k \in DOMAIN calls
      /\ DOMAIN passed = DOMAIN calls /\ calls # <<>>
      /\ \A n \in DOMAIN calls : passed[n].name = calls[n].name
      /\ \A n \in DOMAIN calls : n # k => passed[n].rest = calls[n].rest
      /\ Range(calls[k].rest) = {name} \cup Range(passed[k].rest)
  BY Passing DEF IsStack, IsCalls
<1>2. IsCalls(p, calls, order) /\ Covers(p, calls, order) /\ Descends(p, calls)
  BY DEF IsStack
<1>3. name \in Range(order)
  OBVIOUS
<1> HIDE DEF k, name, passed
<1>4. IsCalls(p, passed, order)
  <2>1. passed # <<>>
    BY <1>1
  <2> QED BY <1>1, <1>2, <2>1 DEF IsCalls
<1>5. Covers(p, passed, order)
  <2> SUFFICES ASSUME NEW n \in DOMAIN calls
               PROVE  /\ Range(passed[n].rest) \subseteq Wants(p, calls[n].name)
                      /\ \A dep \in Wants(p, calls[n].name) :
                           \/ dep \in Range(order) \cup Range(passed[n].rest)
                           \/ n + 1 \in DOMAIN calls /\ calls[n + 1].name = dep
    BY <1>1 DEF Covers
  <2>1. /\ Range(calls[n].rest) \subseteq Wants(p, calls[n].name)
        /\ \A dep \in Wants(p, calls[n].name) :
             \/ dep \in Range(order) \cup Range(calls[n].rest)
             \/ n + 1 \in DOMAIN calls /\ calls[n + 1].name = dep
    BY <1>2 DEF Covers
  <2>2. /\ Range(passed[n].rest) \subseteq Range(calls[n].rest)
        /\ Range(calls[n].rest) \subseteq Range(passed[n].rest) \cup Range(order)
    <3>1. CASE n = k
      BY <1>1, <1>3, <3>1
    <3>2. CASE n # k
      BY <1>1, <3>2
    <3> QED BY <3>1, <3>2
  <2> QED BY <2>1, <2>2
<1>6. Descends(p, passed)
  BY <1>1, <1>2 DEF Descends
<1> QED BY <1>4, <1>5, <1>6 DEF IsStack, passed

(* A name that a call wants and that is being called closes a cycle. *)
LEMMA CycleFound ==
    ASSUME NEW p \in Pipelines, IsWellNamed(p), NEW calls, NEW order,
           IsStack(p, calls, order), calls[Len(calls)].rest # <<>>,
           Head(calls[Len(calls)].rest) \in {calls[n].name : n \in DOMAIN calls}
    PROVE  Rankings(p) = {}
<1> DEFINE k == Len(calls)
           name == Head(calls[k].rest)
           top == calls[k].name
<1>0. k \in DOMAIN calls /\ DOMAIN calls = 1 .. k /\ k \in Nat
  BY Passing
<1>1. /\ name \in StageNames(p) /\ name # "" /\ name \in Wants(p, top)
  BY Passing
<1>2. IsCalls(p, calls, order) /\ Descends(p, calls)
  BY DEF IsStack
<1>3. PICK n \in DOMAIN calls : calls[n].name = name
  OBVIOUS
<1> HIDE DEF k, name, top
<1>4. n # 1 /\ k # 1 /\ n \in 1 .. k
  <2>1. calls[n].name # ""
    BY <1>1, <1>3
  <2>2. n # 1
    BY <1>2, <2>1 DEF IsCalls
  <2>3. n \in 1 .. k
    BY <1>0
  <2> QED BY <1>0, <2>2, <2>3
<1>5. top # "" /\ top \in StageNames(p)
  <2>1. calls[k] \in FrameOf(p)
    <3>1. calls \in Seq(FrameOf(p))
      BY <1>2 DEF IsCalls
    <3> QED BY <1>0, <3>1
  <2>2. calls[k].name # ""
    BY <1>0, <1>2, <1>4 DEF IsCalls
  <2> QED BY <2>1, <2>2 DEF FrameOf, top
<1>6. name \in Needs(p, top)
  BY <1>1, <1>5 DEF Wants
<1>7. ASSUME NEW rank \in Rankings(p)
      PROVE  FALSE
  <2>1. rank[name] < rank[top] /\ rank[name] \in Int /\ rank[top] \in Int
    BY <1>5, <1>6, RankingOf
  <2>2. n = k \/ rank[top] < rank[name]
    <3>1. 1 < n /\ n < k => rank[calls[k].name] < rank[calls[n].name]
      BY <1>0, <1>2 DEF Descends
    <3>2. n = k \/ (1 < n /\ n < k)
      BY <1>0, <1>4
    <3> QED BY <1>3, <3>1, <3>2 DEF top
  <2>3. n = k => name = top
    BY <1>3 DEF top
  <2> QED BY <2>1, <2>2, <2>3
<1> QED BY <1>7

LEMMA NameCalled ==
    ASSUME NEW p \in Pipelines, IsWellNamed(p), NEW calls, NEW order,
           IsStack(p, calls, order), calls[Len(calls)].rest # <<>>,
           Head(calls[Len(calls)].rest) \notin Range(order),
           Head(calls[Len(calls)].rest) \notin {calls[n].name : n \in DOMAIN calls}
    PROVE  IsStack(p, Append(Passed(calls), Frame(p, Head(calls[Len(calls)].rest))), order)
<1> DEFINE k == Len(calls)
           name == Head(calls[k].rest)
           top == calls[k].name
           passed == Passed(calls)
           frame == Frame(p, name)
           more == Append(passed, frame)
<1>0. k \in DOMAIN calls /\ DOMAIN calls = 1 .. k /\ k \in Nat /\ k + 1 \notin 1 .. k
  <2>1. k \in DOMAIN calls /\ DOMAIN calls = 1 .. k /\ k \in Nat
    BY Passing
  <2> HIDE DEF k
  <2> QED BY <2>1
<1>1. /\ passed \in Seq(FrameOf(p)) /\ Len(passed) = k
      /\ DOMAIN passed = DOMAIN calls
      /\ \A n \in DOMAIN calls : passed[n].name = calls[n].name
      /\ \A n \in DOMAIN calls : n # k => passed[n].rest = calls[n].rest
      /\ Range(calls[k].rest) = {name} \cup Range(passed[k].rest)
  BY Passing
<1>2. name \in StageNames(p) /\ name # "" /\ name \in Wants(p, top)
  BY Passing
<1>3. /\ frame \in FrameOf(p) /\ frame.name = name
      /\ Range(frame.rest) = Wants(p, name)
  BY <1>2, WantsAre
<1>4. IsCalls(p, calls, order) /\ Covers(p, calls, order) /\ Descends(p, calls)
  BY DEF IsStack
<1>5. name \notin Range(order) /\ \A n \in DOMAIN calls : calls[n].name # name
  OBVIOUS
<1> HIDE DEF k, name, top, passed, frame
<1>6. /\ more \in Seq(FrameOf(p)) /\ DOMAIN more = 1 .. k + 1
      /\ \A n \in DOMAIN calls : more[n] = passed[n]
      /\ more[k + 1] = frame
  BY <1>0, <1>1, <1>3, AppendRange
<1> HIDE DEF more
<1>7. /\ DOMAIN more = DOMAIN calls \cup {k + 1} /\ k + 1 \notin DOMAIN calls
      /\ \A n \in DOMAIN calls : more[n].name = calls[n].name
      /\ more[k + 1].name = name
      /\ more # <<>> /\ k + 1 # 1 /\ 1 \in DOMAIN calls
  BY <1>0, <1>1, <1>3, <1>6
<1>8. IsCalls(p, more, order)
  <2>1. \A n \in DOMAIN more : (more[n].name = "") <=> (n = 1)
    BY <1>2, <1>4, <1>7 DEF IsCalls
  <2>2. \A m, n \in DOMAIN more : more[m].name = more[n].name => m = n
    BY <1>4, <1>5, <1>7 DEF IsCalls
  <2>3. \A n \in DOMAIN more : more[n].name \notin Range(order)
    BY <1>4, <1>5, <1>7 DEF IsCalls
  <2> QED BY <1>6, <1>7, <2>1, <2>2, <2>3 DEF IsCalls
<1>9. Covers(p, more, order)
  <2> SUFFICES ASSUME NEW n \in DOMAIN more
               PROVE  /\ Range(more[n].rest) \subseteq Wants(p, more[n].name)
                      /\ \A dep \in Wants(p, more[n].name) :
                           \/ dep \in Range(order) \cup Range(more[n].rest)
                           \/ n + 1 \in DOMAIN more /\ more[n + 1].name = dep
    BY DEF Covers
  <2>1. CASE n \in DOMAIN calls
    <3>1. /\ Range(calls[n].rest) \subseteq Wants(p, calls[n].name)
          /\ \A dep \in Wants(p, calls[n].name) :
               \/ dep \in Range(order) \cup Range(calls[n].rest)
               \/ n + 1 \in DOMAIN calls /\ calls[n + 1].name = dep
      BY <1>4, <2>1 DEF Covers
    <3>2. CASE n = k
      BY <1>1, <1>6, <1>7, <2>1, <3>1, <3>2
    <3>3. CASE n # k
      BY <1>1, <1>6, <1>7, <2>1, <3>1, <3>3
    <3> QED BY <3>2, <3>3
  <2>2. CASE n = k + 1
    BY <1>3, <1>6, <2>2
  <2> QED BY <1>7, <2>1, <2>2
<1>10. Descends(p, more)
  <2> SUFFICES ASSUME NEW rank \in Rankings(p), NEW m \in DOMAIN more, NEW n \in DOMAIN more,
                      1 < m, m < n
               PROVE  rank[more[n].name] < rank[more[m].name]
    BY DEF Descends
  <2>1. CASE n \in DOMAIN calls
    <3>1. m \in DOMAIN calls
      BY <1>0, <1>6, <2>1
    <3>2. rank[calls[n].name] < rank[calls[m].name]
      BY <1>4, <2>1, <3>1 DEF Descends
    <3> QED BY <1>7, <2>1, <3>1, <3>2
  <2>2. CASE n = k + 1
    <3>1. m \in 1 .. k /\ m \in DOMAIN calls /\ k # 1
      BY <1>0, <1>6, <2>2
    <3>2. top # "" /\ top \in StageNames(p)
      <4>1. calls \in Seq(FrameOf(p))
        BY <1>4 DEF IsCalls
      <4>2. calls[k] \in FrameOf(p)
        BY <1>0, <4>1
      <4>3. calls[k].name # ""
        BY <1>0, <1>4, <3>1 DEF IsCalls
      <4> QED BY <4>2, <4>3 DEF FrameOf, top
    <3>3. name \in Needs(p, top)
      BY <1>2, <3>2 DEF Wants
    <3>4. rank[name] < rank[top] /\ rank[name] \in Int /\ rank[top] \in Int
      BY <3>2, <3>3, RankingOf
    <3>5. CASE m = k
      BY <1>7, <2>2, <3>1, <3>4, <3>5 DEF top
    <3>6. CASE m # k
      <4>1. m < k
        BY <1>0, <3>1, <3>6
      <4>2. rank[top] < rank[calls[m].name]
        BY <1>0, <1>4, <3>1, <4>1 DEF Descends, top
      <4>3. rank[calls[m].name] \in Int
        <5>1. calls \in Seq(FrameOf(p))
          BY <1>4 DEF IsCalls
        <5>2. calls[m] \in FrameOf(p)
          BY <3>1, <5>1
        <5>3. calls[m].name # ""
          <6>1. m # 1
            BY <1>0, <3>1
          <6> QED BY <1>4, <3>1, <6>1 DEF IsCalls
        <5>4. calls[m].name \in StageNames(p)
          BY <5>2, <5>3 DEF FrameOf
        <5>5. rank \in [StageNames(p) -> DOMAIN p]
          BY DEF Rankings
        <5>6. DOMAIN p \subseteq Int
          BY WellNamed
        <5> QED BY <5>4, <5>5, <5>6
      <4>4. rank[name] < rank[calls[m].name]
        BY <3>4, <4>2, <4>3
      <4> QED BY <1>7, <2>2, <3>1, <4>4
    <3> QED BY <3>5, <3>6
  <2> QED BY <1>7, <2>1, <2>2
<1> QED BY <1>8, <1>9, <1>10 DEF IsStack, more, passed, frame, name, k

LEMMA CallReturned ==
    ASSUME NEW p \in Pipelines, IsWellNamed(p), NEW calls, NEW order,
           IsStack(p, calls, order), IsOrder(p, order),
           calls[Len(calls)].rest = <<>>, Len(calls) > 1
    PROVE  /\ IsOrder(p, Append(order, calls[Len(calls)].name))
           /\ IsStack(p, SubSeq(calls, 1, Len(calls) - 1),
                      Append(order, calls[Len(calls)].name))
<1> DEFINE k == Len(calls)
           name == calls[k].name
           longer == Append(order, name)
           fewer == SubSeq(calls, 1, k - 1)
<1>1. IsCalls(p, calls, order) /\ Covers(p, calls, order) /\ Descends(p, calls)
  BY DEF IsStack
<1>2. calls \in Seq(FrameOf(p)) /\ calls # <<>>
  BY <1>1 DEF IsCalls
<1>3. k \in Nat /\ k > 1 /\ DOMAIN calls = 1 .. k
  BY <1>2
<1>4. Range(calls[k].rest) = {}
  BY DEF Range
<1>5. /\ fewer \in Seq(FrameOf(p)) /\ DOMAIN fewer = 1 .. k - 1
      /\ \A n \in 1 .. k - 1 : fewer[n] = calls[n]
  <2> HIDE DEF k
  <2>1. 1 \in Int /\ k - 1 \in 0 .. Len(calls)
    BY <1>3 DEF k
  <2>2. fewer \in Seq(FrameOf(p)) /\ Len(fewer) = k - 1
    BY <1>2, <1>3 DEF k
  <2>3. \A n \in 1 .. k - 1 : fewer[n] = calls[n]
    BY <1>2, <1>3 DEF k
  <2>4. DOMAIN fewer = 1 .. k - 1
    BY <2>2
  <2> QED BY <2>2, <2>3, <2>4
<1> HIDE DEF k, fewer
<1>6. /\ k \in 1 .. k /\ k - 1 \in 1 .. k - 1 /\ k + 1 \notin 1 .. k /\ k # 1
      /\ k \notin 1 .. k - 1
      /\ \A n \in 1 .. k - 1 : n \in 1 .. k
      /\ \A n \in 1 .. k - 1 : n # k - 1 => n + 1 \in 1 .. k - 1
      /\ \A n \in 1 .. k - 1 : n # k - 1 => n + 1 \in 1 .. k
      /\ k - 1 + 1 = k /\ 1 \in 1 .. k - 1
  BY <1>3
<1>7. name \in StageNames(p) /\ name \notin Range(order) /\ name # ""
  <2>1. calls[k] \in FrameOf(p)
    BY <1>2, <1>3, <1>6
  <2>2. name # "" /\ name \notin Range(order)
    BY <1>1, <1>3, <1>6 DEF IsCalls
  <2> QED BY <2>1, <2>2 DEF FrameOf
<1>8. Needs(p, name) \subseteq Range(order)
  BY <1>1, <1>3, <1>4, <1>6, <1>7 DEF Covers, Wants
<1> HIDE DEF name
<1>9. order \in Seq(StageNames(p)) /\ \A m, n \in DOMAIN order : order[m] = order[n] => m = n
  BY DEF IsOrder
<1>10. /\ longer \in Seq(StageNames(p)) /\ Len(order) \in Nat /\ DOMAIN order = 1 .. Len(order)
       /\ DOMAIN longer = 1 .. Len(order) + 1
       /\ \A n \in DOMAIN order : longer[n] = order[n]
       /\ longer[Len(order) + 1] = name
       /\ Range(longer) = Range(order) \cup {name}
  <2>1. order \in Seq(StageNames(p)) /\ name \in StageNames(p)
    BY <1>7, <1>9
  <2> QED BY <2>1, AppendRange
<1> HIDE DEF longer
<1>11. /\ \A n \in DOMAIN longer : n \in DOMAIN order \/ n = Len(order) + 1
       /\ \A n \in DOMAIN order : n \in DOMAIN longer /\ n < Len(order) + 1
  BY <1>10
<1>12. IsOrder(p, longer)
  <2>1. \A n \in DOMAIN order : order[n] # name
    BY <1>7 DEF Range
  <2>2. \A m, n \in DOMAIN longer : longer[m] = longer[n] => m = n
    BY <1>9, <1>10, <1>11, <2>1
  <2>3. ASSUME NEW n \in DOMAIN longer, NEW dep \in Needs(p, longer[n])
        PROVE  \E m \in DOMAIN longer : m < n /\ longer[m] = dep
    <3>1. CASE n \in DOMAIN order
      <4>1. PICK m \in DOMAIN order : m < n /\ order[m] = dep
        BY <1>10, <2>3, <3>1 DEF IsOrder
      <4> QED BY <1>10, <1>11, <4>1
    <3>2. CASE n = Len(order) + 1
      <4>1. dep \in Range(order)
        BY <1>8, <1>10, <3>2
      <4>2. PICK m \in DOMAIN order : order[m] = dep
        BY <4>1 DEF Range
      <4> QED BY <1>10, <1>11, <3>2, <4>2
    <3> QED BY <1>11, <3>1, <3>2
  <2> QED BY <1>10, <2>2, <2>3 DEF IsOrder
<1>13. IsCalls(p, fewer, longer)
  <2>1. fewer # <<>>
    BY <1>5, <1>6
  <2>2. \A n \in DOMAIN fewer : fewer[n].name # name
    BY <1>1, <1>3, <1>5, <1>6 DEF IsCalls, name
  <2>3. \A n \in DOMAIN fewer : fewer[n].name \notin Range(longer)
    BY <1>1, <1>3, <1>5, <1>6, <1>10, <2>2 DEF IsCalls
  <2>4. \A m, n \in DOMAIN fewer : fewer[m].name = fewer[n].name => m = n
    <3>1. \A m, n \in 1 .. k : calls[m].name = calls[n].name => m = n
      BY <1>1, <1>3 DEF IsCalls
    <3>2. \A n \in 1 .. k - 1 : n \in 1 .. k /\ fewer[n] = calls[n]
      BY <1>5, <1>6
    <3> QED BY <1>5, <3>1, <3>2
  <2>5. \A n \in DOMAIN fewer : (fewer[n].name = "") <=> (n = 1)
    BY <1>1, <1>3, <1>5, <1>6 DEF IsCalls
  <2> QED BY <1>5, <2>1, <2>3, <2>4, <2>5 DEF IsCalls
<1>14. Covers(p, fewer, longer)
  <2> SUFFICES ASSUME NEW n \in 1 .. k - 1
               PROVE  /\ Range(fewer[n].rest) \subseteq Wants(p, fewer[n].name)
                      /\ \A dep \in Wants(p, fewer[n].name) :
                           \/ dep \in Range(longer) \cup Range(fewer[n].rest)
                           \/ n + 1 \in DOMAIN fewer /\ fewer[n + 1].name = dep
    BY <1>5 DEF Covers
  <2>1. /\ Range(calls[n].rest) \subseteq Wants(p, calls[n].name)
        /\ \A dep \in Wants(p, calls[n].name) :
             \/ dep \in Range(order) \cup Range(calls[n].rest)
             \/ n + 1 \in DOMAIN calls /\ calls[n + 1].name = dep
    BY <1>1, <1>3, <1>6 DEF Covers
  <2>2. CASE n = k - 1
    <3>1. calls[n + 1].name = name
      BY <1>6, <2>2 DEF name
    <3> QED BY <1>5, <1>10, <2>1, <3>1
  <2>3. CASE n # k - 1
    <3>1. n + 1 \in DOMAIN fewer /\ fewer[n + 1] = calls[n + 1]
      BY <1>5, <1>6, <2>3
    <3> QED BY <1>5, <1>10, <2>1, <3>1
  <2> QED BY <2>2, <2>3
<1>15. Descends(p, fewer)
  BY <1>1, <1>3, <1>5, <1>6 DEF Descends
<1> QED BY <1>12, <1>13, <1>14, <1>15 DEF IsStack, longer, fewer, name, k

LEMMA SearchEnds ==
    ASSUME NEW p \in Pipelines, IsWellNamed(p), NEW calls, NEW order,
           IsStack(p, calls, order), IsOrder(p, order),
           calls[Len(calls)].rest = <<>>, Len(calls) = 1
    PROVE  Range(order) = StageNames(p) /\ IsAcyclic(p)
<1>0. p \in Seq(Stages) /\ Distinct(p)
  BY WellNamed
<1>1. IsCalls(p, calls, order) /\ Covers(p, calls, order)
  BY DEF IsStack
<1>2. DOMAIN calls = {1}
  <2>1. calls \in Seq(FrameOf(p))
    BY <1>1 DEF IsCalls
  <2>2. DOMAIN calls = 1 .. 1
    BY <2>1
  <2> QED BY <2>2
<1>3. calls[1].name = "" /\ Range(calls[1].rest) = {}
  <2>0. 1 \in DOMAIN calls
    BY <1>2
  <2>1. calls[1].name = ""
    BY <1>1, <2>0 DEF IsCalls
  <2>2. calls[1].rest = <<>>
    OBVIOUS
  <2>3. Range(<<>>) = {}
    BY DEF Range
  <2> QED BY <2>1, <2>2, <2>3
<1>4. StageNames(p) \subseteq Range(order)
  <2>1. \A dep \in Wants(p, "") : dep \in Range(order) \/ 1 + 1 \in DOMAIN calls
    BY <1>1, <1>2, <1>3 DEF Covers
  <2>2. Wants(p, "") = StageNames(p)
    BY DEF Wants
  <2>3. 1 + 1 \notin DOMAIN calls
    BY <1>2
  <2> QED BY <2>1, <2>2, <2>3, Zenon
<1>5. order \in Seq(StageNames(p)) /\ \A m, n \in DOMAIN order : order[m] = order[n] => m = n
  BY DEF IsOrder
<1>6. /\ Len(order) \in Nat /\ DOMAIN order = 1 .. Len(order)
      /\ \A n \in DOMAIN order : order[n] \in StageNames(p)
  BY <1>5
<1>7. Range(order) = StageNames(p)
  BY <1>4, <1>6 DEF Range
<1>8. Len(p) \in Nat /\ DOMAIN p = 1 .. Len(p)
  BY <1>0
<1>9. Len(order) <= Len(p)
  <2> DEFINE at == [n \in 1 .. Len(order) |-> CHOOSE m \in 1 .. Len(p) : p[m].name = order[n]]
  <2>1. \A n \in 1 .. Len(order) : at[n] \in 1 .. Len(p) /\ p[at[n]].name = order[n]
    <3>1. \A n \in 1 .. Len(order) : \E m \in 1 .. Len(p) : p[m].name = order[n]
      <4> TAKE n \in 1 .. Len(order)
      <4>1. order[n] \in StageNames(p)
        BY <1>6
      <4>2. \E m \in DOMAIN p : p[m].name = order[n]
        BY <1>0, <4>1, StageNamed
      <4> QED BY <1>8, <4>2
    <3> QED BY <3>1
  <2>2. at \in [1 .. Len(order) -> 1 .. Len(p)]
    BY <2>1
  <2>3. \A m, n \in 1 .. Len(order) : at[m] = at[n] => m = n
    <3> HIDE DEF at
    <3> QED BY <1>5, <1>6, <2>1
  <2> HIDE DEF at
  <2>4. at \in Injection(1 .. Len(order), 1 .. Len(p))
    BY <2>2, <2>3 DEF Injection, IsInjective
  <2>5. /\ IsFiniteSet(1 .. Len(p)) /\ Cardinality(1 .. Len(p)) = Len(p)
        /\ Cardinality(1 .. Len(order)) = Len(order)
    <3>1. \A n \in Nat : IsFiniteSet(1 .. n) /\ Cardinality(1 .. n) = n
      <4> TAKE n \in Nat
      <4>1. /\ IsFiniteSet(1 .. n)
            /\ Cardinality(1 .. n) = IF 1 > n THEN 0 ELSE n - 1 + 1
        BY FS_Interval
      <4> QED BY <4>1
    <3> QED BY <1>6, <1>8, <3>1
  <2>6. Cardinality(1 .. Len(order)) <= Cardinality(1 .. Len(p))
    BY <2>4, <2>5, FS_Injection
  <2> QED BY <2>5, <2>6
<1> DEFINE rank == [name \in StageNames(p) |-> CHOOSE n \in DOMAIN order : order[n] = name]
<1>10. \A name \in StageNames(p) : rank[name] \in DOMAIN order /\ order[rank[name]] = name
  <2>1. \A name \in StageNames(p) : \E n \in DOMAIN order : order[n] = name
    BY <1>7 DEF Range
  <2> QED BY <2>1
<1>11. rank \in [StageNames(p) -> DOMAIN p]
  <2>1. DOMAIN order \subseteq DOMAIN p
    BY <1>6, <1>8, <1>9
  <2> QED BY <1>10, <2>1
<1> HIDE DEF rank
<1>12. ASSUME NEW n \in DOMAIN p, NEW dep \in Range(Dependencies(p[n]))
       PROVE  dep \in DOMAIN rank /\ rank[dep] < rank[p[n].name]
  <2> DEFINE name == p[n].name
  <2>1. name \in StageNames(p) /\ dep \in Needs(p, name)
    BY <1>0, <1>12, StageNamed, WellNamed
  <2>2. dep \in StageNames(p)
    BY <2>1, WellNamed
  <2> HIDE DEF name
  <2>3. rank[name] \in DOMAIN order /\ order[rank[name]] = name
    BY <1>10, <2>1
  <2>4. PICK m \in DOMAIN order : m < rank[name] /\ order[m] = dep
    BY <2>1, <2>3 DEF IsOrder
  <2>5. rank[dep] \in DOMAIN order /\ order[rank[dep]] = dep
    BY <1>10, <2>2
  <2>6. rank[dep] = m
    BY <1>5, <2>4, <2>5
  <2> QED BY <1>11, <2>2, <2>4, <2>6 DEF name
<1>13. IsAcyclic(p)
  BY <1>11, <1>12 DEF IsAcyclic, StageNames
<1> QED BY <1>7, <1>13

LEMMA InputsOf ==
    ASSUME NEW p \in Pipelines, IsWellNamed(p), NEW name \in StageNames(p)
    PROVE  /\ StageOf(p, name) \in Stages
           /\ \A n \in DOMAIN StageOf(p, name).models :
                StageOf(p, name).models[n].ref => StageOf(p, name).models[n].of \in Needs(p, name)
           /\ \A n \in DOMAIN StageOf(p, name).base :
                StageOf(p, name).base[n].ref => StageOf(p, name).base[n].of \in Needs(p, name)
<1>1. StageOf(p, name) \in Stages
  BY WellNamed, StageNamed
<1> QED BY <1>1, DependenciesOf DEF Needs

LEMMA MergeDependsOnNeeds ==
    ASSUME NEW p \in Pipelines, IsWellNamed(p), NEW name \in StageNames(p), NEW r, NEW c,
           \A dep \in Needs(p, name) : r[dep] = c[dep]
    PROVE  MergeOf(p, name, r) = MergeOf(p, name, c)
<1> DEFINE s == StageOf(p, name)
<1>1. Of(s.models, r) = Of(s.models, c) /\ Of(s.base, r) = Of(s.base, c)
  BY InputsOf DEF Of
<1> QED BY <1>1 DEF MergeOf

Solves(p, r) == r = [name \in StageNames(p) |-> MergeOf(p, name, r)]

(* The stages of a pipeline without cycles define one result each. *)
LEMMA ResultsUnique ==
    ASSUME NEW p \in Pipelines, IsWellNamed(p), IsAcyclic(p),
           NEW r, Solves(p, r), NEW c, Solves(p, c)
    PROVE  r = c
<1>1. PICK rank : rank \in Rankings(p)
  BY DEF IsAcyclic, Rankings, StageNames
<1>2. rank \in [StageNames(p) -> Nat]
  <2>1. rank \in [StageNames(p) -> DOMAIN p]
    BY <1>1 DEF Rankings
  <2>2. DOMAIN p \subseteq Nat
    BY WellNamed
  <2> QED BY <2>1, <2>2
<1> DEFINE Bad == {rank[name] : name \in {x \in StageNames(p) : r[x] # c[x]}}
<1>3. ASSUME NEW n \in Bad, \A m \in Nat : m < n => m \notin Bad
      PROVE  FALSE
  <2>1. PICK name \in StageNames(p) : r[name] # c[name] /\ n = rank[name]
    OBVIOUS
  <2>2. ASSUME NEW dep \in Needs(p, name)
        PROVE  r[dep] = c[dep]
    <3>1. rank[dep] < n /\ dep \in StageNames(p)
      BY <1>1, <2>1, RankingOf
    <3>2. rank[dep] \in Nat
      BY <1>2, <3>1
    <3>3. rank[dep] \notin Bad
      <4> HIDE DEF Bad
      <4> QED BY <1>3, <3>1, <3>2
    <3> QED BY <3>1, <3>3
  <2>3. MergeOf(p, name, r) = MergeOf(p, name, c)
    BY <2>2, MergeDependsOnNeeds
  <2>4. r[name] = MergeOf(p, name, r) /\ c[name] = MergeOf(p, name, c)
    BY DEF Solves
  <2> QED BY <2>1, <2>3, <2>4
<1>4. Bad = {}
  <2>1. Bad \subseteq Nat
    BY <1>2
  <2> HIDE DEF Bad
  <2>2. Bad # {} => \E n \in Bad : \A m \in Nat : m < n => m \notin Bad
    BY <2>1, Sending!Least
  <2> QED BY <2>2, <1>3
<1>5. \A name \in StageNames(p) : r[name] = c[name]
  BY <1>4
<1>6. r = [name \in StageNames(p) |-> r[name]] /\ c = [name \in StageNames(p) |-> c[name]]
  <2>1. r = [name \in StageNames(p) |-> MergeOf(p, name, r)]
    BY DEF Solves
  <2>2. c = [name \in StageNames(p) |-> MergeOf(p, name, c)]
    BY DEF Solves
  <2>3. \A S, f, g : f = [x \in S |-> g[x]] /\ (\A x \in S : f[x] = g[x]) => f = [x \in S |-> f[x]]
    OBVIOUS
  <2>4. r = [name \in StageNames(p) |-> r[name]]
    BY <2>1
  <2>5. c = [name \in StageNames(p) |-> c[name]]
    BY <2>2
  <2> QED BY <2>4, <2>5
<1> QED BY <1>5, <1>6

LEMMA ResultsSolve ==
    ASSUME NEW p \in Pipelines, IsWellNamed(p), IsAcyclic(p),
           NEW r, DOMAIN r = StageNames(p), IsDict(r), Sound(p, r, {})
    PROVE  r = ResultsOf(p)
<1>1. \A name \in StageNames(p) : r[name] = MergeOf(p, name, r)
  BY DEF Sound
<1>2. Solves(p, r)
  BY <1>1 DEF Solves, IsDict
<1>3. ResultsOf(p) = CHOOSE c : c = [name \in StageNames(p) |-> MergeOf(p, name, c)]
  BY DEF ResultsOf, MergeOf, Of, StageNames
<1>4. Solves(p, ResultsOf(p))
  <2>1. \E c : c = [name \in StageNames(p) |-> MergeOf(p, name, c)]
    BY <1>2 DEF Solves
  <2> QED BY <1>3, <2>1 DEF Solves
<1> QED BY <1>2, <1>4, ResultsUnique

(* One more stage is done. *)
LEMMA StageDone ==
    ASSUME NEW p \in Pipelines, IsWellNamed(p), NEW rest, NEW r, NEW v,
           IsRest(p, rest, r), rest # <<>>
    PROVE  /\ Head(rest) \in StageNames(p) /\ Head(rest) \notin DOMAIN r
           /\ Needs(p, Head(rest)) \subseteq DOMAIN r
           /\ IsRest(p, Tail(rest), Put(r, Head(rest), v))
<1> DEFINE name == Head(rest)
           less == Tail(rest)
           more == Put(r, name, v)
<1>1. /\ rest \in Seq(StageNames(p)) /\ DOMAIN r = StageNames(p) \ Range(rest)
      /\ \A m, n \in DOMAIN rest : rest[m] = rest[n] => m = n
  BY DEF IsRest
<1>2. /\ name \in StageNames(p) /\ less \in Seq(StageNames(p)) /\ name \in Range(rest)
      /\ Range(rest) = {name} \cup Range(less)
  BY <1>1, HeadAndTail
<1>3. /\ Len(rest) \in Nat \ {0} /\ DOMAIN rest = 1 .. Len(rest)
      /\ name = rest[1]
      /\ DOMAIN less = 1 .. Len(rest) - 1
      /\ \A n \in 1 .. Len(rest) - 1 : less[n] = rest[n + 1]
  BY <1>1
<1>4. /\ 1 \in DOMAIN rest
      /\ \A n \in DOMAIN rest : ~ (n < 1)
      /\ \A n \in DOMAIN less : n + 1 \in DOMAIN rest /\ less[n] = rest[n + 1] /\ n + 1 # 1
  BY <1>3
<1>5. Needs(p, name) \subseteq DOMAIN r
  BY <1>3, <1>4 DEF IsRest
<1>6. name \notin Range(less)
  BY <1>1, <1>3, <1>4 DEF Range
<1>7. /\ DOMAIN more = DOMAIN r \cup {name} /\ IsDict(more)
  BY DEF Put, IsDict
<1> HIDE DEF name, less, more
<1>8. \A m, n \in DOMAIN less : less[m] = less[n] => m = n
  <2> SUFFICES ASSUME NEW m \in DOMAIN less, NEW n \in DOMAIN less, less[m] = less[n]
               PROVE  m = n
    OBVIOUS
  <2>1. m + 1 = n + 1
    BY <1>1, <1>4
  <2>2. m \in Int /\ n \in Int
    BY <1>3
  <2> QED BY <2>1, <2>2
<1>9. ASSUME NEW n \in DOMAIN less, NEW dep \in Needs(p, less[n])
      PROVE  dep \in DOMAIN more \/ \E m \in DOMAIN less : m < n /\ less[m] = dep
  <2>1. \/ dep \in DOMAIN r
        \/ \E m \in DOMAIN rest : m < n + 1 /\ rest[m] = dep
    BY <1>4, <1>9 DEF IsRest
  <2>2. ASSUME NEW m \in DOMAIN rest, m < n + 1, rest[m] = dep
        PROVE  dep = name \/ \E i \in DOMAIN less : i < n /\ less[i] = dep
    <3>1. CASE m = 1
      BY <1>3, <2>2, <3>1
    <3>2. CASE m # 1
      <4>1. m - 1 \in DOMAIN less /\ m - 1 + 1 = m /\ m - 1 < n
        BY <1>3, <2>2, <3>2
      <4>2. less[m - 1] = dep
        BY <1>4, <2>2, <4>1
      <4> QED BY <4>1, <4>2
    <3> QED BY <3>1, <3>2
  <2> QED BY <1>7, <2>1, <2>2
<1>10. DOMAIN more = StageNames(p) \ Range(less)
  BY <1>1, <1>2, <1>6, <1>7
<1>11. IsRest(p, less, more)
  BY <1>2, <1>7, <1>8, <1>9, <1>10 DEF IsRest
<1>12. name \notin DOMAIN r
  BY <1>1, <1>2
<1> QED BY <1>2, <1>5, <1>11, <1>12 DEF name, less, more

(* A result that is merged from those that are there *)
LEMMA SoundPut ==
    ASSUME NEW p \in Pipelines, IsWellNamed(p), NEW r, NEW marks, Sound(p, r, marks),
           NEW name \in StageNames(p), name \notin DOMAIN r, Needs(p, name) \subseteq DOMAIN r,
           NEW v, v = MergeOf(p, name, r)
    PROVE  Sound(p, Put(r, name, v), marks)
<1> DEFINE more == Put(r, name, v)
<1>1. /\ DOMAIN more = DOMAIN r \cup {name} /\ more[name] = v
      /\ \A x \in DOMAIN r : more[x] = r[x]
  BY DEF Put
<1> HIDE DEF more
<1>2. ASSUME NEW x \in StageNames(p), Needs(p, x) \subseteq DOMAIN r
      PROVE  MergeOf(p, x, more) = MergeOf(p, x, r)
  BY <1>1, <1>2, MergeDependsOnNeeds
<1>3. ASSUME NEW x \in DOMAIN more \ marks
      PROVE  /\ x \in StageNames(p) /\ Needs(p, x) \subseteq DOMAIN more
             /\ more[x] = MergeOf(p, x, more)
  <2>1. CASE x = name
    BY <1>1, <1>2, <2>1
  <2>2. CASE x # name
    <3>1. x \in StageNames(p) /\ Needs(p, x) \subseteq DOMAIN r /\ r[x] = MergeOf(p, x, r)
      BY <1>1, <1>3, <2>2 DEF Sound
    <3>2. x \in DOMAIN r
      BY <1>1, <1>3, <2>2
    <3> QED BY <1>1, <1>2, <3>1, <3>2
  <2> QED BY <2>1, <2>2
<1> QED BY <1>3 DEF Sound, more

(* The mark of a failure changes no result. *)
LEMMA SoundMarked ==
    ASSUME NEW p \in Pipelines, IsWellNamed(p), NEW r, Sound(p, r, {"failed_at"}),
           "failed_at" \notin StageNames(p), NEW v
    PROVE  Sound(p, Put(r, "failed_at", v), {"failed_at"})
<1> DEFINE more == Put(r, "failed_at", v)
<1>1. /\ DOMAIN more = DOMAIN r \cup {"failed_at"}
      /\ \A x \in DOMAIN r : x # "failed_at" => more[x] = r[x]
  BY DEF Put
<1> HIDE DEF more
<1>2. ASSUME NEW x \in DOMAIN more \ {"failed_at"}
      PROVE  /\ x \in StageNames(p) /\ Needs(p, x) \subseteq DOMAIN more
             /\ more[x] = MergeOf(p, x, more)
  <2>1. /\ x \in DOMAIN r /\ x \in StageNames(p)
        /\ Needs(p, x) \subseteq DOMAIN r /\ r[x] = MergeOf(p, x, r)
    BY <1>1, <1>2 DEF Sound
  <2>2. Needs(p, x) \subseteq StageNames(p)
    BY <2>1, WellNamed
  <2>3. \A dep \in Needs(p, x) : more[dep] = r[dep]
    BY <1>1, <2>1, <2>2
  <2>4. MergeOf(p, x, more) = MergeOf(p, x, r)
    BY <2>1, <2>3, MergeDependsOnNeeds
  <2> QED BY <1>1, <1>2, <2>1, <2>4
<1> QED BY <1>2 DEF Sound, more

LEMMA InitSaved == Init => SavedInv
<1> SUFFICES ASSUME Init PROVE SavedInv
  OBVIOUS
<1> QED BY DEF Init, SavedInv, SavedIsNotRepeated, NoFile

LEMMA NextSaved == SavedInv /\ [Next]_vars => SavedInv'
<1> SUFFICES ASSUME SavedInv, [Next]_vars PROVE SavedInv'
  OBVIOUS
<1> USE DEF SavedInv, SavedIsNotRepeated, files, work, counts
<1>1. CASE Start
  BY <1>1 DEF Start, Load, NoFile
<1>2. CASE Descend
  BY <1>2 DEF Descend
<1>3. CASE Backtrack
  BY <1>3 DEF Backtrack
<1>4. CASE SortStages
  BY <1>4 DEF SortStages
<1>5. CASE BeginStages
  BY <1>5 DEF BeginStages
<1>6. CASE SkipStage
  BY <1>6 DEF SkipStage
<1>7. CASE MergeStage
  <2> DEFINE name == Head(todo)
  <2>1. /\ pc = "stages" /\ ~ IsDone(name) /\ file' = file /\ saved' = saved /\ lost' = lost
        /\ pc' \in {"save", "stages", "ready"}
    BY <1>7 DEF MergeStage
  <2>2. \/ completed' = completed
        \/ \E result : completed' = Put(completed, name, result)
    BY <1>7 DEF MergeStage
  <2>3. \/ again' = again
        \/ kept /\ name \in saved
    BY <1>7 DEF MergeStage
  <2> HIDE DEF name
  <2>4. kept /\ name \in saved => lost
    BY <2>1 DEF IsDone
  <2>5. DOMAIN completed \subseteq DOMAIN completed'
    BY <2>2 DEF Put
  <2>6. file = NoFile => again' = again
    BY <2>3
  <2> QED BY <2>1, <2>3, <2>4, <2>5, <2>6
<1>8. CASE FailStage
  <2>1. DOMAIN completed \subseteq DOMAIN completed'
    BY <1>8 DEF FailStage, Put
  <2> QED BY <1>8, <2>1 DEF FailStage
<1>9. CASE OpenFile
  BY <1>9 DEF OpenFile, Broken, NoFile
<1>10. CASE WriteFile
  <2>1. /\ pc = "write" /\ pc' \in {"ready", "stages"}
        /\ UNCHANGED <<completed, again, lost>>
    BY <1>10 DEF WriteFile
  <2>2. CASE /\ file' = [state |-> "whole", data |-> completed]
             /\ saved' = saved \cup (DOMAIN completed \ {"failed_at"})
    BY <2>1, <2>2 DEF NoFile
  <2>3. CASE UNCHANGED <<file, saved>>
    BY <2>1, <2>3
  <2> QED BY <1>10, <2>2, <2>3 DEF WriteFile
<1>11. CASE Return
  BY <1>11 DEF Return
<1>12. CASE Rollback
  <2>1. /\ pc = "ready" /\ pc' = "ready"
        /\ \/ file' = NoFile /\ saved' = {} /\ again' = {}
           \/ UNCHANGED <<file, saved, again>>
    BY <1>12 DEF Rollback
  <2>2. lost' <=> file' # NoFile
    BY <1>12, Zenon DEF Rollback
  <2>3. CASE file' = NoFile
    <3>1. saved' = {} /\ again' = {}
      BY <2>1, <2>3
    <3> QED BY <2>1, <2>2, <2>3, <3>1 DEF NoFile
  <2>4. CASE file' # NoFile
    <3>1. UNCHANGED <<file, saved, again>> /\ lost'
      BY <2>1, <2>2, <2>4
    <3> QED BY <2>1, <2>4, <3>1
  <2> QED BY <2>3, <2>4
<1>13. CASE Crash
  BY <1>13 DEF Crash, NoFile
<1>14. CASE \E p \in Pipelines, withCheckpoint \in BOOLEAN : Execute(p, withCheckpoint)
  <2>1. PICK p \in Pipelines, withCheckpoint \in BOOLEAN : Execute(p, withCheckpoint)
    BY <1>14
  <2> QED BY <2>1 DEF Execute
<1>15. CASE UNCHANGED vars
  BY <1>15 DEF vars
<1> QED BY <1>1, <1>2, <1>3, <1>4, <1>5, <1>6, <1>7, <1>8, <1>9, <1>10, <1>11, <1>12,
           <1>13, <1>14, <1>15 DEF Next

(* No stage that is in a whole file is merged again, unless a save or a     *)
(* rollback was not brought to its end, for any pipelines, crashes and runs.*)
THEOREM SavedStagesAreKept == Spec => []SavedIsNotRepeated
<1>1. SavedInv => SavedIsNotRepeated
  BY DEF SavedInv
<1> QED BY <1>1, InitSaved, NextSaved, PTL DEF Spec

-----------------------------------------------------------------------------
LEMMA InitPipeline == Init => PipelineInv
<1> SUFFICES ASSUME Init PROVE PipelineInv
  OBVIOUS
<1> USE DEF Init
<1>1. Searching /\ Merging
  BY DEF Searching, Merging
<1>2. Ended
  BY DEF Ended
<1>3. \A q : Sound(q, EmptyDict, {"failed_at"})
  BY DEF Sound, EmptyDict
<1>4. Checkpointed
  BY <1>3 DEF Checkpointed, NoFile
<1> QED BY <1>1, <1>2, <1>4 DEF PipelineInv

LEMMA SameCheckpoint ==
    Checkpointed /\ UNCHANGED <<file, completed, users>> => Checkpointed'
BY DEF Checkpointed

LEMMA NoDict == \A q : Sound(q, EmptyDict, {"failed_at"})
BY DEF Sound, EmptyDict

LEMMA SearchStep ==
    ASSUME PipelineInv, Descend \/ Backtrack \/ SortStages \/ BeginStages
    PROVE  PipelineInv'
<1>1. /\ pipeline \in Pipelines /\ IsWellNamed(pipeline)
      /\ IsOrder(pipeline, todo) /\ IsStack(pipeline, stack, todo)
      /\ outcome = "none" /\ results = EmptyDict
      /\ pc \in {"detect", "sort"}
      /\ pc = "sort" => IsAcyclic(pipeline)
  BY DEF PipelineInv, Searching, Descend, Backtrack, SortStages, BeginStages
<1>2. UNCHANGED <<file, completed, pipeline, kept, results>>
  BY DEF Descend, Backtrack, SortStages, BeginStages, files
<1>3. stack # <<>> /\ Len(stack) \in Nat \ {0} /\ Distinct(pipeline)
  <2>1. stack # <<>> /\ stack \in Seq(FrameOf(pipeline))
    BY <1>1 DEF IsStack, IsCalls
  <2> QED BY <1>1, <2>1, WellNamed
<1>4. Checkpointed
  BY DEF PipelineInv
<1>5. CASE Descend
  <2> DEFINE name == Head(Rest)
  <2>1. Rest # <<>> /\ UNCHANGED users
    BY <1>5 DEF Descend
  <2>2. Checkpointed'
    BY <1>2, <1>4, <2>1, SameCheckpoint
  <2>3. CASE name \in Path
    <3>1. pc' = "ready" /\ outcome' = "invalid"
      BY <1>5, <2>3 DEF Descend
    <3>2. Rankings(pipeline) = {}
      BY <1>1, <2>1, <2>3, CycleFound DEF Rest, Path
    <3>3. ~ IsAcyclic(pipeline)
      BY <3>2 DEF IsAcyclic, Rankings, StageNames
    <3>4. Ended'
      BY <1>2, <3>1, <3>3 DEF Ended
    <3>5. Searching' /\ Merging'
      BY <3>1 DEF Searching, Merging
    <3> QED BY <2>2, <3>4, <3>5 DEF PipelineInv
  <2>4. CASE name \notin Path
    <3>1. /\ UNCHANGED <<pc, todo, outcome>>
          /\ stack' = IF name \in Range(todo) THEN Passed(stack)
                      ELSE Append(Passed(stack), Frame(pipeline, name))
      BY <1>5, <2>4 DEF Descend, Passed, Rest
    <3>2. IsStack(pipeline, stack', todo)
      <4>1. CASE name \in Range(todo)
        BY <1>1, <2>1, <3>1, <4>1, NameVisited DEF Rest
      <4>2. CASE name \notin Range(todo)
        BY <1>1, <2>1, <2>4, <3>1, <4>2, NameCalled DEF Rest, Path
      <4> QED BY <4>1, <4>2
    <3>3. Searching'
      BY <1>1, <1>2, <3>1, <3>2 DEF Searching
    <3>4. Merging' /\ Ended'
      BY <1>1, <3>1 DEF Merging, Ended
    <3> QED BY <2>2, <3>3, <3>4 DEF PipelineInv
  <2> QED BY <2>3, <2>4
<1>6. CASE Backtrack
  <2>1. /\ Rest = <<>> /\ Len(stack) > 1 /\ UNCHANGED <<users, pc, outcome>>
        /\ stack' = SubSeq(stack, 1, Len(stack) - 1)
        /\ todo' = Append(todo, stack[Len(stack)].name)
    BY <1>6 DEF Backtrack, Finished
  <2>2. Checkpointed'
    BY <1>2, <1>4, <2>1, SameCheckpoint
  <2>3. IsOrder(pipeline, todo') /\ IsStack(pipeline, stack', todo')
    BY <1>1, <2>1, CallReturned DEF Rest
  <2>4. Searching'
    BY <1>1, <1>2, <2>1, <2>3 DEF Searching
  <2>5. Merging' /\ Ended'
    BY <1>1, <2>1 DEF Merging, Ended
  <2> QED BY <2>2, <2>4, <2>5 DEF PipelineInv
<1>7. CASE SortStages
  <2>1. /\ Rest = <<>> /\ Len(stack) = 1 /\ UNCHANGED <<users, outcome>>
        /\ pc' = "sort" /\ stack' = <<Frame(pipeline, "")>> /\ todo' = <<>>
    BY <1>7 DEF SortStages
  <2>2. Checkpointed'
    BY <1>2, <1>4, <2>1, SameCheckpoint
  <2>3. IsAcyclic(pipeline)
    BY <1>1, <2>1, SearchEnds DEF Rest
  <2>4. IsOrder(pipeline, todo') /\ IsStack(pipeline, stack', todo')
    BY <1>1, <2>1, SearchBegins
  <2>5. Searching'
    BY <1>1, <1>2, <2>1, <2>3, <2>4 DEF Searching
  <2>6. Merging' /\ Ended'
    BY <1>1, <2>1 DEF Merging, Ended
  <2> QED BY <2>2, <2>5, <2>6 DEF PipelineInv
<1>8. CASE BeginStages
  <2>1. /\ Rest = <<>> /\ Len(stack) = 1 /\ UNCHANGED <<outcome, todo>>
        /\ pc' = "stages" /\ pc = "sort"
        /\ users' = IF kept THEN users \cup {pipeline} ELSE users
    BY <1>8 DEF BeginStages
  <2>2. Checkpointed'
    <3>1. ASSUME NEW q \in Pipelines, users' \subseteq {q}
          PROVE  users \subseteq {q}
      BY <2>1, <3>1
    <3> QED BY <1>2, <1>4, <3>1 DEF Checkpointed
  <2>3. IsAcyclic(pipeline) /\ Range(todo) = StageNames(pipeline)
    BY <1>1, <2>1, SearchEnds DEF Rest
  <2>4. DOMAIN EmptyDict = {} /\ IsDict(EmptyDict)
    BY DEF EmptyDict, IsDict
  <2>5. IsRest(pipeline, todo, EmptyDict)
    BY <1>1, <2>3, <2>4 DEF IsRest, IsOrder
  <2>6. Sound(pipeline, EmptyDict, {}) /\ Agree(EmptyDict, completed)
    BY <2>4 DEF Sound, Agree
  <2>7. kept => pipeline \in users'
    BY <2>1
  <2>8. Merging'
    BY <1>1, <1>2, <2>1, <2>3, <2>5, <2>6, <2>7 DEF Merging
  <2>9. Searching' /\ Ended'
    BY <1>1, <2>1 DEF Searching, Ended
  <2> QED BY <2>2, <2>8, <2>9 DEF PipelineInv
<1> QED BY <1>5, <1>6, <1>7, <1>8

-----------------------------------------------------------------------------
LEMMA ExecuteStep ==
    ASSUME PipelineInv, NEW p \in Pipelines, NEW withCheckpoint \in BOOLEAN,
           Execute(p, withCheckpoint)
    PROVE  PipelineInv'
<1>1. /\ UNCHANGED <<file, completed, users>>
      /\ pipeline' = p /\ results' = EmptyDict /\ todo' = <<>> /\ pc = "ready"
  BY DEF Execute, files
<1>2. Checkpointed'
  BY <1>1, SameCheckpoint DEF PipelineInv
<1>3. CASE IsWellNamed(p)
  <2>1. pc' = "detect" /\ stack' = <<Frame(p, "")>> /\ outcome' = "none"
    BY <1>3 DEF Execute
  <2>2. IsOrder(p, todo') /\ IsStack(p, stack', todo')
    BY <1>1, <1>3, <2>1, SearchBegins
  <2>3. Searching'
    BY <1>1, <1>3, <2>1, <2>2 DEF Searching
  <2>4. Merging' /\ Ended'
    BY <2>1 DEF Merging, Ended
  <2> QED BY <1>2, <2>3, <2>4 DEF PipelineInv
<1>4. CASE ~ IsWellNamed(p)
  <2>1. pc' = "ready" /\ outcome' = "invalid"
    BY <1>1, <1>4 DEF Execute
  <2>2. ~ (Distinct(p) /\ IsAcyclic(p))
    <3>1. SUFFICES ASSUME Distinct(p), IsAcyclic(p) PROVE FALSE
      OBVIOUS
    <3>2. \A n \in DOMAIN p : Range(Dependencies(p[n])) \subseteq StageNames(p)
      <4>1. PICK rank \in [StageNames(p) -> DOMAIN p] :
              \A n \in DOMAIN p : \A dep \in Range(Dependencies(p[n])) : dep \in DOMAIN rank
        BY <3>1 DEF IsAcyclic, StageNames
      <4> QED BY <4>1
    <3>3. IsWellNamed(p)
      BY <3>1, <3>2 DEF IsWellNamed, Distinct, StageNames
    <3> QED BY <1>4, <3>3
  <2>3. Ended'
    BY <1>1, <2>1, <2>2 DEF Ended
  <2>4. Searching' /\ Merging'
    BY <2>1 DEF Searching, Merging
  <2> QED BY <1>2, <2>3, <2>4 DEF PipelineInv
<1> QED BY <1>3, <1>4

LEMMA StageStep ==
    ASSUME PipelineInv, SkipStage \/ MergeStage
    PROVE  PipelineInv'
<1> DEFINE p == pipeline
           name == Head(todo)
<1>1. pc = "stages" /\ todo # <<>>
  BY DEF SkipStage, MergeStage
<1>2. /\ p \in Pipelines /\ IsWellNamed(p) /\ IsAcyclic(p)
      /\ kept => p \in users
      /\ outcome = "none" /\ IsRest(p, todo, results)
      /\ OneUser => Sound(p, results, {})
      /\ OneUser /\ kept => Agree(results, completed)
  BY <1>1 DEF PipelineInv, Merging
<1>3. /\ name \in StageNames(p) /\ name \notin DOMAIN results
      /\ Needs(p, name) \subseteq DOMAIN results
      /\ \A v : IsRest(p, Tail(todo), Put(results, name, v))
  BY <1>1, <1>2, StageDone
<1>4. Checkpointed /\ Distinct(p)
  BY <1>2, WellNamed DEF PipelineInv
<1>5. OneUser /\ kept => Sound(p, completed, {"failed_at"}) /\ "failed_at" \notin StageNames(p)
  BY <1>2, <1>4 DEF Checkpointed, OneUser
<1>6. OneUser /\ kept => MergeOf(p, name, completed) = MergeOf(p, name, results)
  <2>1. SUFFICES ASSUME OneUser, kept PROVE MergeOf(p, name, completed) = MergeOf(p, name, results)
    OBVIOUS
  <2>2. \A dep \in Needs(p, name) : completed[dep] = results[dep]
    BY <1>2, <1>3, <2>1 DEF Agree
  <2> QED BY <1>2, <1>3, <2>2, MergeDependsOnNeeds
<1>7. \A v : OneUser /\ v = MergeOf(p, name, results) => Sound(p, Put(results, name, v), {})
  BY <1>2, <1>3, SoundPut
<1>8. \A v : \A c : Agree(results, c) /\ name \in DOMAIN c /\ c[name] = v
                      => Agree(Put(results, name, v), c)
  BY DEF Agree, Put
<1>9. CASE SkipStage
  <2> DEFINE v == completed[name]
  <2>1. /\ IsDone(name) /\ results' = Put(results, name, v) /\ todo' = Tail(todo)
        /\ UNCHANGED <<file, pc, completed, pipeline, kept, outcome, users>>
    BY <1>9 DEF SkipStage, files
  <2>2. kept /\ name \in DOMAIN completed
    BY <2>1 DEF IsDone
  <2>3. OneUser' <=> OneUser
    BY <2>1 DEF OneUser
  <2>4. OneUser => v = MergeOf(p, name, results)
    BY <1>3, <1>5, <1>6, <2>2 DEF Sound
  <2>5. OneUser => Sound(p, results', {}) /\ Agree(results', completed)
    <3>1. SUFFICES ASSUME OneUser PROVE Sound(p, results', {}) /\ Agree(results', completed)
      OBVIOUS
    <3>2. Agree(results, completed)
      BY <1>2, <2>2, <3>1
    <3> HIDE DEF v, p, name
    <3>3. completed[name] = v
      BY DEF v
    <3> QED BY <1>7, <1>8, <2>1, <2>2, <2>4, <3>1, <3>2, <3>3
  <2>6. IsRest(p, todo', results')
    BY <1>3, <2>1
  <2> HIDE DEF v
  <2>7. Merging'
    BY <1>1, <1>2, <2>1, <2>3, <2>5, <2>6 DEF Merging
  <2>8. Searching' /\ Ended'
    BY <1>1, <1>2, <2>1 DEF Searching, Ended
  <2>9. Checkpointed'
    BY <1>4, <2>1, SameCheckpoint
  <2> QED BY <2>7, <2>8, <2>9 DEF PipelineInv
<1>10. CASE MergeStage
  <2> DEFINE s == StageOf(p, name)
             v == MergeOf(p, name, results)
  <2>1. IsResolved(s.models) /\ IsResolved(s.base)
    BY <1>2, <1>3, InputsOf DEF IsResolved
  <2>2. v = Merged(s.how, Resolve(s.models), IF IsResolved(s.base) THEN Resolve(s.base) ELSE <<>>)
    BY <2>1 DEF MergeOf, Of, Resolve
  <2>3. /\ ~ IsDone(name) /\ results' = Put(results, name, v) /\ todo' = Tail(todo)
        /\ completed' = IF kept THEN Put(completed, name, v) ELSE completed
        /\ pc' = IF kept THEN "save" ELSE "stages"
        /\ UNCHANGED <<file, pipeline, kept, outcome, users>>
    BY <1>10, <2>1, <2>2 DEF MergeStage, files
  <2> HIDE DEF v, s
  <2>4. OneUser' <=> OneUser
    BY <2>3 DEF OneUser
  <2>5. OneUser => Sound(p, results', {})
    BY <1>7, <2>3 DEF v
  <2>6. OneUser /\ kept => Agree(results', completed')
    <3>1. SUFFICES ASSUME OneUser, kept PROVE Agree(results', completed')
      OBVIOUS
    <3>2. completed' = Put(completed, name, v) /\ Agree(results, completed)
      BY <1>2, <2>3, <3>1
    <3>3. Agree(results, Put(completed, name, v))
      BY <1>3, <3>2 DEF Agree, Put
    <3>4. name \in DOMAIN Put(completed, name, v) /\ Put(completed, name, v)[name] = v
      BY DEF Put
    <3> HIDE DEF name, p
    <3> QED BY <1>8, <2>3, <3>2, <3>3, <3>4
  <2>7. IsRest(p, todo', results')
    BY <1>3, <2>3
  <2>8. Merging'
    BY <1>2, <2>3, <2>4, <2>5, <2>6, <2>7 DEF Merging
  <2>9. Searching' /\ Ended'
    BY <1>2, <2>3 DEF Searching, Ended
  <2>10. Checkpointed'
    <3>1. CASE ~ kept
      BY <1>4, <2>3, <3>1, SameCheckpoint
    <3>2. CASE kept
      <4>1. SUFFICES ASSUME NEW q \in Pipelines, users \subseteq {q},
                            "failed_at" \notin StageNames(q)
                     PROVE  Sound(q, completed', {"failed_at"}) /\ Sound(q, file.data, {"failed_at"})
        BY <2>3 DEF Checkpointed
      <4>2. q = p /\ OneUser
        BY <1>2, <3>2, <4>1 DEF OneUser
      <4>3. Sound(q, file.data, {"failed_at"})
        BY <1>4, <4>1 DEF Checkpointed
      <4>4. name \notin DOMAIN completed
        BY <2>3, <3>2 DEF IsDone
      <4>5. Needs(p, name) \subseteq DOMAIN completed
        BY <1>2, <1>3, <3>2, <4>2 DEF Agree
      <4>6. v = MergeOf(p, name, completed)
        BY <1>6, <3>2, <4>2 DEF v
      <4>7. Sound(p, Put(completed, name, v), {"failed_at"})
        BY <1>2, <1>3, <1>5, <3>2, <4>2, <4>4, <4>5, <4>6, SoundPut
      <4> QED BY <2>3, <3>2, <4>2, <4>3, <4>7
    <3> QED BY <3>1, <3>2
  <2> QED BY <2>8, <2>9, <2>10 DEF PipelineInv
<1> QED BY <1>9, <1>10

LEMMA FailStep ==
    ASSUME PipelineInv, FailStage
    PROVE  PipelineInv'
<1> DEFINE p == pipeline
<1>1. /\ pc = "stages" /\ outcome' = "failed"
      /\ completed' = IF kept THEN Put(completed, "failed_at", Error) ELSE completed
      /\ pc' = IF kept THEN "save" ELSE "ready"
      /\ UNCHANGED <<file, pipeline, kept, todo, results, users>>
  BY DEF FailStage, files, work
<1>2. /\ p \in Pipelines /\ IsWellNamed(p) /\ IsAcyclic(p)
      /\ kept => p \in users
      /\ outcome = "none" /\ IsRest(p, todo, results)
      /\ OneUser => Sound(p, results, {})
      /\ OneUser /\ kept => Agree(results, completed)
  BY <1>1 DEF PipelineInv, Merging
<1>3. Checkpointed
  BY DEF PipelineInv
<1>4. OneUser' <=> OneUser
  BY <1>1 DEF OneUser
<1>5. OneUser /\ kept => Agree(results, Put(completed, "failed_at", Error))
  <2>1. SUFFICES ASSUME OneUser, kept PROVE Agree(results, Put(completed, "failed_at", Error))
    OBVIOUS
  <2>2. "failed_at" \notin DOMAIN results
    BY <1>2, <2>1 DEF OneUser, IsRest
  <2> QED BY <1>2, <2>1, <2>2 DEF Agree, Put
<1>6. Merging'
  BY <1>1, <1>2, <1>4, <1>5 DEF Merging
<1>7. Searching' /\ Ended'
  BY <1>1 DEF Searching, Ended
<1>8. Checkpointed'
  <2>1. CASE ~ kept
    BY <1>1, <1>3, <2>1, SameCheckpoint
  <2>2. CASE kept
    <3>1. SUFFICES ASSUME NEW q \in Pipelines, users \subseteq {q}, "failed_at" \notin StageNames(q)
                   PROVE  Sound(q, completed', {"failed_at"}) /\ Sound(q, file.data, {"failed_at"})
      BY <1>1 DEF Checkpointed
    <3>2. Sound(q, file.data, {"failed_at"}) /\ Sound(q, completed, {"failed_at"})
      BY <1>3, <3>1 DEF Checkpointed
    <3>3. IsWellNamed(q)
      BY <1>2, <2>2, <3>1
    <3> QED BY <1>1, <2>2, <3>1, <3>2, <3>3, SoundMarked
  <2> QED BY <2>1, <2>2
<1> QED BY <1>6, <1>7, <1>8 DEF PipelineInv

LEMMA SaveStep ==
    ASSUME PipelineInv, OpenFile \/ WriteFile
    PROVE  PipelineInv'
<1>1. /\ pc \in {"save", "write"} /\ pc' \in {"write", "stages", "ready"}
      /\ pc' = "stages" => outcome # "failed"
      /\ UNCHANGED <<completed, pipeline, kept, todo, results, outcome, users>>
  BY DEF OpenFile, WriteFile, work
<1>2. \/ file'.data = EmptyDict
      \/ file'.data = completed
      \/ file' = file
  BY DEF OpenFile, WriteFile, Broken
<1>3. Checkpointed'
  BY <1>1, <1>2, NoDict DEF PipelineInv, Checkpointed
<1>4. OneUser' <=> OneUser
  BY <1>1 DEF OneUser
<1>5. Merging'
  BY <1>1, <1>4 DEF PipelineInv, Merging
<1>6. Searching' /\ Ended'
  BY <1>1, <1>4 DEF PipelineInv, Searching, Ended
<1> QED BY <1>3, <1>5, <1>6 DEF PipelineInv

LEMMA ReturnStep ==
    ASSUME PipelineInv, Return
    PROVE  PipelineInv'
<1>1. /\ pc = "stages" /\ todo = <<>> /\ pc' = "ready" /\ outcome' = "done"
      /\ UNCHANGED <<file, completed, pipeline, kept, results, users>>
  BY DEF Return, files, work
<1>2. /\ pipeline \in Pipelines /\ IsWellNamed(pipeline) /\ IsAcyclic(pipeline)
      /\ IsRest(pipeline, todo, results)
      /\ OneUser => Sound(pipeline, results, {})
  BY <1>1 DEF PipelineInv, Merging
<1>3. DOMAIN results = StageNames(pipeline) /\ IsDict(results)
  <2>1. Range(<<>>) = {}
    BY DEF Range
  <2> QED BY <1>1, <1>2, <2>1 DEF IsRest
<1>4. OneUser' <=> OneUser
  BY <1>1 DEF OneUser
<1>5. Ended'
  BY <1>1, <1>2, <1>3, <1>4 DEF Ended
<1>6. Searching' /\ Merging'
  BY <1>1 DEF Searching, Merging
<1>7. Checkpointed'
  BY <1>1, SameCheckpoint DEF PipelineInv
<1> QED BY <1>5, <1>6, <1>7 DEF PipelineInv

LEMMA RestartStep ==
    ASSUME PipelineInv, Start \/ Rollback \/ Crash
    PROVE  PipelineInv'
<1>1. pc' \in {"ready", "down"} /\ UNCHANGED <<pipeline, kept>>
  BY DEF Start, Rollback, Crash, work
<1>2. Searching' /\ Merging'
  BY <1>1 DEF Searching, Merging
<1>3. \/ completed' = EmptyDict
      \/ completed' = file.data
  BY DEF Start, Rollback, Crash, Load
<1>4. \/ file' = file /\ users' = users
      \/ file' = NoFile /\ users' = {}
  BY DEF Start, Rollback, Crash, files
<1>5. Checkpointed'
  <2>1. CASE file' = file /\ users' = users
    BY <1>3, <2>1, NoDict DEF PipelineInv, Checkpointed
  <2>2. CASE file' = NoFile /\ users' = {}
    <3>1. completed' = EmptyDict \/ UNCHANGED <<file, users>>
      BY DEF Start, Rollback, Crash, files
    <3>2. CASE completed' = EmptyDict
      BY <2>2, <3>2, NoDict DEF Checkpointed, NoFile
    <3>3. CASE UNCHANGED <<file, users>>
      BY <1>3, <3>3, NoDict DEF PipelineInv, Checkpointed
    <3> QED BY <3>1, <3>2, <3>3
  <2> QED BY <1>4, <2>1, <2>2
<1>6. outcome' = "none" \/ (outcome' = outcome /\ results' = results)
  BY DEF Start, Rollback, Crash, work
<1>7. OneUser' => OneUser
  <2>1. users' = users \/ users' = {}
    BY <1>4
  <2> QED BY <1>1, <2>1 DEF OneUser
<1>8. Ended'
  BY <1>1, <1>6, <1>7 DEF PipelineInv, Ended
<1> QED BY <1>2, <1>5, <1>8 DEF PipelineInv

LEMMA NextPipeline == PipelineInv /\ [Next]_vars => PipelineInv'
<1> SUFFICES ASSUME PipelineInv, [Next]_vars PROVE PipelineInv'
  OBVIOUS
<1>1. CASE UNCHANGED vars
  <2>1. OneUser' <=> OneUser
    BY <1>1 DEF vars, work, OneUser
  <2>2. UNCHANGED <<file, pc, completed, pipeline, kept, stack, todo, results, outcome, users>>
    BY <1>1 DEF vars, files, work
  <2>3. Checkpointed'
    BY <2>2, SameCheckpoint DEF PipelineInv
  <2>4. Searching' /\ Merging' /\ Ended'
    BY <2>1, <2>2 DEF PipelineInv, Searching, Merging, Ended
  <2> QED BY <2>3, <2>4 DEF PipelineInv
<1>2. CASE \E p \in Pipelines, withCheckpoint \in BOOLEAN : Execute(p, withCheckpoint)
  BY <1>2, ExecuteStep
<1> QED BY <1>1, <1>2, SearchStep, StageStep, FailStep, SaveStep, ReturnStep, RestartStep
        DEF Next

(* execute() gives the models that the stages define, for any pipelines,    *)
(* any checkpoint that one of them alone used, and whatever failed and      *)
(* crashed before; it refuses the pipelines that define none.               *)
THEOREM PipelineGivesItsStages == Spec => []ResultsAsDefined
<1>1. PipelineInv => ResultsAsDefined
  <2> SUFFICES ASSUME PipelineInv PROVE ResultsAsDefined
    OBVIOUS
  <2>1. Ended
    BY DEF PipelineInv
  <2>2. ASSUME outcome = "done" PROVE Distinct(pipeline) /\ IsAcyclic(pipeline)
    BY <2>1, <2>2, WellNamed DEF Ended
  <2>3. ASSUME outcome = "done", OneUser
        PROVE  results = ResultsOf(pipeline)
    BY <2>1, <2>3, ResultsSolve DEF Ended
  <2> QED BY <2>1, <2>2, <2>3 DEF ResultsAsDefined, Ended, Distinct, OneUser, StageNames
<1> QED BY <1>1, InitPipeline, NextPipeline, PTL DEF Spec

=============================================================================
