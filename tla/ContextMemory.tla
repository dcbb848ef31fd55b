---------------------------- MODULE ContextMemory ----------------------------
(***************************************************************************)
(* Agents whose memories, dicts of facts, are merged by a ContextMerge     *)
(* (crdt_merge/context/merge.py) with a budget and a minimum of            *)
(* confidence, and archived in blocks by a ContextConsolidator             *)
(* (consolidator.py).  The id of a fact is a hash of its text: two chunks  *)
(* of one id are of the same fact, and conflict strategies never run.      *)
(*                                                                         *)
(* The bloom filter of a merge does not change its result.  The one of     *)
(* merge_blocks drops facts that it contains: LongLived = TRUE is a caller *)
(* who keeps it for the next call.  It is modelled as a set of facts.      *)
(***************************************************************************)
EXTENDS Listing, SequencesExt, FiniteSetsExt

CONSTANTS
    Thinker,          \* agents with memories
    Fact,             \* texts, integers in the order of strings
    Confidence, Tag,
    Budget,           \* budget, or NoBudget
    NoBudget,
    MinConfidence,
    BlockSize,        \* block_size
    LongLived,        \* TRUE: callers reuse the bloom filter of merge_blocks
    MaxLearned        \* bound: memories that agents learn

ASSUME ContextMemoryAssumption ==
    /\ Fact \subseteq Int /\ Confidence \subseteq Nat /\ MinConfidence \in Nat
    /\ Budget \in Nat \cup {NoBudget} /\ NoBudget \notin Nat
    /\ BlockSize \in Nat \ {0} /\ LongLived \in BOOLEAN

VARIABLES
    held,      \* held[a]: list of memories [fact, confidence, time, tags]
    archive,   \* archive[a]: blocks [memories, index]
    bloom,     \* bloom[a]: facts that went through merge_blocks
    learned,   \* history: learned[a], memories in the causal past of held[a]
    stored     \* history: stored[a], memories in the causal past of archive[a]

memoryVars == <<held, archive, bloom, learned, stored>>

MemoryInit ==
    /\ held = [a \in Thinker |-> <<>>]
    /\ archive = [a \in Thinker |-> <<>>]
    /\ bloom = [a \in Thinker |-> {}]
    /\ learned = [a \in Thinker |-> {}]
    /\ stored = [a \in Thinker |-> {}]

-----------------------------------------------------------------------------
(* The confidence is that of the later memory. *)
JoinLatest(m, n) ==
    [fact |-> m.fact, confidence |-> IF m.time > n.time THEN m.confidence ELSE n.confidence,
     time |-> Max({m.time, n.time}), tags |-> m.tags \cup n.tags]

(* MemorySidecar.merge for two memories of one fact *)
Join(m, n) ==
    [fact |-> m.fact, confidence |-> Max({m.confidence, n.confidence}),
     time |-> Max({m.time, n.time}), tags |-> m.tags \cup n.tags]

(* One more memory for a dict of facts *)
Remember(known, m) ==
    IF \E i \in DOMAIN known : known[i].fact = m.fact
    THEN [i \in DOMAIN known |->
            IF known[i].fact = m.fact THEN Join(known[i], m) ELSE known[i]]
    ELSE Append(known, m)

(* A dict of facts, in the order in which they came *)
Gather(list) == FoldLeft(Remember, <<>>, list)

(* The budget goes to the most confident, equals in the order of the dict. *)
WithinBudget(list) ==
    LET better(i, j) ==
          list[i].confidence > list[j].confidence
            \/ (list[i].confidence = list[j].confidence /\ i < j)
    IN IF Budget = NoBudget THEN ToSet(list)
       ELSE {list[j] : j \in {k \in DOMAIN list :
                                Cardinality({i \in DOMAIN list : better(i, k)}) < Budget}}

(* ContextMerge.merge, and a step of merge_multi *)
MergeMemories(a, b) ==
    LET all == Gather(a \o b)
        kept == WithinBudget(At(all, {i \in DOMAIN all : all[i].confidence >= MinConfidence}))
        facts == InOrder({m.fact : m \in kept})
    IN [n \in DOMAIN facts |-> CHOOSE m \in kept : m.fact = facts[n]]

(* consolidate(): blocks keep repetitions, their index does not. *)
Consolidate(list) ==
    LET part(n) ==
          SubSeq(list, (n - 1) * BlockSize + 1,
                 IF n * BlockSize < Len(list) THEN n * BlockSize ELSE Len(list))
    IN [n \in 1 .. (Len(list) + BlockSize - 1) \div BlockSize |->
          [memories |-> part(n), index |-> ToSet(Gather(part(n)))]]

AddMemories(list, block) == list \o block.memories

AllMemories(blocks) == FoldLeft(AddMemories, <<>>, blocks)

(* merge_blocks(): what the filter contains goes on only if it was met in   *)
(* these blocks.                                                            *)
MergeBlocks(x, y, known) ==
    LET list == AllMemories(x \o y)
    IN Consolidate(Gather(At(list, {i \in DOMAIN list : list[i].fact \notin known})))

-----------------------------------------------------------------------------
AllLearned == UNION {learned[a] : a \in Thinker}

Learn(a, m) ==
    /\ Cardinality(AllLearned) < MaxLearned
    /\ held' = [held EXCEPT ![a] = Append(@, m)]
    /\ learned' = [learned EXCEPT ![a] = @ \cup {m}]
    /\ UNCHANGED <<archive, bloom, stored>>

MergeFrom(a, b) ==
    /\ held' = [held EXCEPT ![a] = MergeMemories(@, held[b])]
    /\ learned' = [learned EXCEPT ![a] = @ \cup learned[b]]
    /\ UNCHANGED <<archive, bloom, stored>>

(* merge_blocks of the archive of a with other blocks, which hold past *)
StoreBlocks(a, blocks, past) ==
    LET merged == MergeBlocks(archive[a], blocks, bloom[a])
        facts == UNION {{m.fact : m \in ToSet(merged[n].memories)} : n \in DOMAIN merged}
    IN /\ archive' = [archive EXCEPT ![a] = merged]
       /\ bloom' = [bloom EXCEPT ![a] = IF LongLived THEN @ \cup facts ELSE @]
       /\ stored' = [stored EXCEPT ![a] = @ \cup past]
       /\ UNCHANGED <<held, learned>>

ArchiveHeld(a) == StoreBlocks(a, Consolidate(held[a]), ToSet(held[a]))

ArchiveFrom(a, b) == StoreBlocks(a, archive[b], stored[b])

(* Memories are learned at different times. *)
MemoryNext ==
    \E a \in Thinker :
        \/ \E f \in Fact, c \in Confidence, t \in Tag :
             Learn(a, [fact |-> f, confidence |-> c, time |-> Cardinality(AllLearned) + 1,
                       tags |-> {t}])
        \/ \E b \in Thinker \ {a} : MergeFrom(a, b) \/ ArchiveFrom(a, b)
        \/ ArchiveHeld(a)

MemorySpec == MemoryInit /\ [][MemoryNext]_memoryVars

-----------------------------------------------------------------------------
(* Properties *)

JoinAll(memories) == ToSet(Gather(SetToSeq(memories)))

(* A merge that cuts to the budget, or drops what is not confident enough,  *)
(* never costs a better memory later: in every order and grouping of        *)
(* merges, what is left has the confidence that all of the past gives it,   *)
(* and nothing better is missing.  Without a budget and a minimum it is all *)
(* of the past.                                                             *)
BestAreKept ==
    \A a \in Thinker :
        LET view == ToSet(MergeMemories(held[a], <<>>))
            all == {m \in JoinAll(learned[a]) : m.confidence >= MinConfidence}
            missing == {m \in all : \A n \in view : n.fact # m.fact}
        IN /\ \A n \in view : \E m \in all : n.fact = m.fact /\ n.confidence = m.confidence
           /\ \A m \in missing : \A n \in view : n.confidence >= m.confidence
           /\ missing # {} => Cardinality(view) = Budget
           /\ Budget = NoBudget /\ MinConfidence = 0 => view = all

(* Blocks that are merged in any order hold each fact that was stored once, *)
(* with all that was stored about it, and find it in their index.           *)
ArchiveHoldsAll ==
    \A a \in Thinker :
        ~LongLived =>
            LET blocks == archive[a]
            IN /\ UNION {blocks[n].index : n \in DOMAIN blocks} = JoinAll(stored[a])
               /\ \A n \in DOMAIN blocks : ToSet(blocks[n].memories) = blocks[n].index
               /\ Len(AllMemories(blocks)) = Cardinality(JoinAll(stored[a]))

ContextOfHistory == BestAreKept /\ ArchiveHoldsAll

=============================================================================
