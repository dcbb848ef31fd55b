# TLA+ verification of crdt-merge

crdt-merge is a Python library of conflict-free replicated data types and of
protocols around them: anti-entropy gossip, mergeable model contributions,
agent memory, a trust lattice, and adapters to tables, files and tools. These
modules model the parts in which replicas interact, check them with TLC on
small instances, and prove with TLAPS what can be proved for every instance.

Contents: inventory, plan, modules and runs, bounds, fairness, proofs,
disagreements between code and documentation, what is not modelled.

## 1. Inventory

Line numbers refer to `src/crdt_merge/`.

| Component | State | Operations | Interacts with |
|---|---|---|---|
| `clocks.py` VectorClock | dict node -> counter (zeroes stripped) | increment, merge, compare | gossip, e4 |
| `clocks.py` DottedVersionVector | base clock, one dot | advance, merge, descends | nobody |
| `gossip.py` GossipState | `_entries` (key -> value, clock, tombstone), `_clock` | update, delete, digest, anti-entropy push/pull, get/apply entries, merge | peers through the caller's transport; agentic; CLI |
| `model/crdt_state.py` CRDTMergeState | `_contributions` (one per model id), `_tombstones`, base, `_active_cache` | add, add_batch, remove, merge, merge_many, resolve | peers through snapshots (`to_dict`) |
| `core.py` GCounter, PNCounter, LWWRegister, ORSet, LWWMap | per-node counts; value, time, node; element -> tags and tombstones; registers and tombstone times | increment, set, add, remove, delete, merge | agentic |
| `agentic.py` AgentState, SharedKnowledge, RateLimiter, AgentGossipBridge | facts (LWWMap), tags (ORSet), counters (PNCounter), bounded message log | add_fact, transaction, merge, ... | core CRDTs, gossip |
| `e4/` trust: typed_trust, delta_trust_lattice, causal_trust_clock, adaptive_verification, pco, integration/gossip_bridge | evidence per dimension and observer, circuit breaker, two queues, Merkle trust context | observe, receive, verify, drain, merge | clocks, gossip payloads |
| `e4/integration/agent_bridge.py` TrustAgentState | entries, losing versions, tombstones | put, delete, merge_context, snapshot, load_snapshot | the trust lattice decides its conflicts |
| `e4/resilience/` | epochs with evidence counts; key chains and revocations; partitions | advance, merge, prune; register, revoke, rotate; reconcile | e4 trust |
| `delta.py` DeltaStore | current records and hashes, version | ingest, apply, compose | a receiver's records |
| `streaming.py`, `async_merge.py` | bounded queue, producer thread; merge-join cursors | merge_stream, merge_sorted_stream | iterators of the caller |
| `dataframe.py`, `parallel.py` | none; a pool of threads for one call | merge, parallel_merge | tables of the caller |
| `provenance.py`, `unmerge.py` | the log of a merge | merge_with_provenance, unmerge, verify_unmerge | the log goes from one to the other |
| `context/` | memories with sidecars; blocks with an index; a bloom filter | merge, merge_multi, consolidate, merge_blocks | agents that hand their memories over |
| `model/pipeline.py` | stage results, checkpoint file | execute, mark_done, mark_failed, rollback | ModelCRDT |
| `merkle.py`, `audit.py`, `rbac.py`, `observability.py`, `encryption.py` | trees and logs, some under a lock | build, diff, append, verify | the merge functions |
| `cli/` | a JSON file per gossip state | load, change, save | gossip, delta, merge |
| formats, accelerators, tensors, reports | none that outlives a call, or an external system's | pure functions and adapters | |

Hard behaviours, and what makes each component correct:

* **Gossip** has no transport of its own. Digests, requests and entries may be
  lost, repeated, delayed and reordered, and each is computed from a store that
  may have changed when it arrives. Correct means: no causally newer entry is
  lost, a node's clock covers what it stores (or its next write is refused by
  its peers), nodes that were handed the same entries hold the same ones (the
  code keeps the first and the third for keys with one writer), and repeated
  synchronisation brings all stores together.
* **CRDTMergeState** mixes an OR-Set of tags, a per-id version conflict and a
  cache. Correct means: tombstones are final, the cache shows what is held,
  nothing is lost without a reason, replicas that heard the same show the same,
  a removed contribution stays out, and merge is a join.
* **Core CRDTs and AgentState**: strong convergence for every order of merges;
  a stale replica resurrects nothing; no increment is lost.
* **E4 trust**: scores count the evidence that was heard; quarantine lasts, and
  a quarantined source is refused but where a tripped breaker says otherwise.
  **TrustAgentState**: a deletion holds
  against what it observed and nothing else, whatever trust each peer has.
* **E4 resilience**: pruning loses nothing within the window; registries that
  heard of the same revocations verify with the same key.
* **DeltaStore**: the receiver that applies every delta in order has the
  sender's records. **Streaming**: every input row is in the output, and the
  consumer terminates. **Pipeline**: after a crash a completed stage is done.
* **Tables**: threads change nothing but the order of rows; a merge that keeps
  provenance comes to the values of the merge, as far as both read them alike;
  unmerge leaves what the other source had. **Context**:
  a budget in every step keeps what it would keep at the end.

`PROJECT.json` lists every hazard at its line, with the properties that cover
it, or why none does yet.

## 2. Plan

The order is by how much of the library depends on the behaviour.

1. Done: `Clocks`, `Gossip`, `GossipOwned` with the abstract `VersionedMap`,
   `GossipMerge`.
2. Done: `MergeState`, with `MergeStateProofs`; `GossipProofs` (with the
   refinement of `VersionedMap` for every number of nodes).
3. Done: `CoreCRDTs` and `AgentState`, which composes them. The specification
   that replicas are compared with is the history of operations in their causal
   past.
4. Done: `TypedTrust`, `TrustLattice` and `TrustContext`, which composes the
   lattice with the memory of an agent; `Epochs` and `KeyRegistry` beside them.
5. Done: `StreamMerge`, `DeltaShipping`, `Pipeline`; `Tables`, with
   `ParallelMerge` and `Provenance` on top of it; `ContextMemory`.
6. Done: proofs of the other components: `AgentProofs`, `PeerProofs`,
   `TrustProofs`, `JobProofs`, `TableProofs`.
7. Done: mixed deployments: `GossipMerge` runs `GossipState.merge` and restarts
   from older files beside the anti-entropy and the replays of `Gossip`.

The modules that are proved about declare no RECURSIVE operator, keep
parameters as constants with named assumptions, and have one action per
operation.

## 3. Modules

| Module | Models | State in the code |
|---|---|---|
| `Clocks` | `clocks.py` VectorClock, and the string order that `gossip.py` `_should_update` uses for ties | a clock is a total function; zero counters are stripped in the code, so absent is zero |
| `Gossip` | `gossip.py` anti-entropy | `store` = `_entries`, `clock` = `_clock`, `net` = messages of the caller |
| `VersionedMap` | the promise to readers of keys with one writer | - |
| `GossipOwned` | `Gossip` with one writer per key, and the refinement mapping to `VersionedMap` | - |
| `GossipMerge` | `Gossip` with `GossipState.merge`, `to_dict`, `from_dict` beside its actions | `files` = saved forms |
| `MergeState` | `model/crdt_state.py` CRDTMergeState | `state` = `_contributions`, `_tombstones`, `base`; `cache` = `_active_cache` and `_cache_valid`; `snapshots` = `to_dict` forms |
| `Dicts` | dicts of the language | a function on what the dict holds |
| `CoreCRDTs` | `core.py`: GCounter, PNCounter, LWWRegister, ORSet, LWWMap, as operators | one record or function per object |
| `AgentState` | `agentic.py` AgentState, SharedKnowledge, RateLimiter | `agent` = the four members and the limiter; `shared` = dict forms |
| `TypedTrust` | `e4/typed_trust.py`, as operators | dimension -> observer -> amount |
| `TrustLattice` | `e4/delta_trust_lattice.py`, `e4/adaptive_verification.py`, `e4/integration/gossip_bridge.py`, `verify` of `e4/pco.py` | `node[p]` = the objects of a peer; `made`, `payloads` = what callers carry |
| `TrustContext` | `e4/integration/agent_bridge.py` TrustAgentState, on top of `TrustLattice` | `memory` = `_entries`, `_shadow`, `_tombs` |
| `Epochs` | `e4/resilience/epoch_protocol.py` | `epochs[p]` = an EpochState; `sent` = states on their way |
| `KeyRegistry` | `e4/resilience/key_manager.py` | `registry` = PeerKeyRegistry; `current` = `_current_key` |
| `StreamMerge` | `streaming.py` | locals of the generator and of its thread |
| `DeltaShipping` | `delta.py` | `current`, `version` = DeltaStore; `wire` = deltas; `receiver` = records |
| `Pipeline` | `model/pipeline.py` | locals of `execute()`, `_completed`, the file |
| `Tables` | `dataframe.py` merge, as operators | a row is a key and a dict of cells |
| `ParallelMerge` | `parallel.py`, on `Tables` | `pool` = futures, `rows` = `merged_records` |
| `Provenance` | `provenance.py` and the UnmergeEngine of `unmerge.py`, on `Tables` | `joined` = rows and log; `cleaned` = what unmerge returns |
| `ContextMemory` | `context/merge.py`, `consolidator.py`, `sidecar.py` | `held` = memories; `archive` = blocks; `bloom` = the filter |
| `MCGossip`, `MCGossipMerge`, `MCMergeState`, `MCAgentState`, `MCTrust`, `MCJobs` | instances for TLC | - |
| `Listing` | `sorted()` of distinct numbers and list comprehensions, which several files use | - |
| `Folding` | what `FoldLeft`, `FoldFunction`, sums of finite sets and numbers in order do, by induction on length and size | - |
| `GossipProofs`, `MergeStateProofs`, `AgentProofs`, `TrustProofs`, `PeerProofs`, `JobProofs`, `TableProofs` | theorems of the components | - |

### Gossip

An entry's digest hashes its value, clock and tombstone, so a digest is the set
of entries it was taken from. (Values of one text, such as 1 and "1", have one
hash; entries that differ in nothing else have equal clocks, so sending them, as
the model does, changes no store.) `Update`, `UpdateReplay` and `Delete` are `update()` without and
with `clock=`, and `delete()`. Every local write ticks the node clock first; an
update is stored only if `_should_update` lets it in, a delete is stored
always. `SendDigest`, `ReceiveDigest`, `ReceivePull` and `ReceiveEntries` are
`digest()`, `anti_entropy_push_pull()`, `get_entries()` and `apply_entries()`.
`Receive` may leave the message in the network, which delivers it again, and
`Lose` drops it. `UpdateReplay` takes the event from a message on its way to the
node, which is what the docstring of `update()` describes.

`SyncPair` is the pairwise synchronisation of the repository's tests and guide
(`src/tests/test_gossip.py`, `_sync_pair`) as one step.

`GossipMerge` adds `Merge`, `Save` and `Restart`. `merge()` compares
`str(value)`, which does not tell all values apart: `Text[v]` is the place of the
text of v in the string order, and two values may have one. Each side keeps its
own of such a tie.

`seen` and `replayed` are history variables. `replayed` names the keys that were
written with an external clock; the properties that the code gives up for them
say so.

### MergeState

A contribution's content is an integer in the order of `merkle_hash`, which the
code compares when versions are equal. Users choose id, version, content and
time; the tag is fresh (`uuid4`). `Add` is an `add()` that is accepted; one
that is not changes nothing and is left out. `AddBatch` is `add_batch()` of two
items, of which the second may raise. `Merge` takes a live replica or a
snapshot, as old as it may be. `MergeMany` assigns `merge_many([r, m, n])` to r.
`Read` is every reader that goes through `_active_contributions` and fills the
cache. `seen` holds what a replica accepted or received, `gone` what it had seen
of a model id when it removed it.

### Core CRDTs and AgentState

Each type of `core.py` is a value and its operations are operators; `AgentState`
applies them as the class does. A history variable holds for every agent the
operations of its causal past, and the properties compare the agent with what
these operations mean: an add-wins set, the write with the latest time, the
number of increments. `Begin`, `Commit` and `Rollback` are `transaction()`,
between which the other agents go on. `Share` is `to_dict()`; a shared form may
be absorbed late, twice, or never. `Careless` lets callers write with older
timestamps and share inside transactions.

### Trust

A delta is known by the evidence that it carries. What the receiver finds out
about its signature, its Merkle root and its clock is the number of
verification levels it passes, a free choice when it is made; whether the
injected encoder yields evidence that verifies is another. `Observe`,
`ReceiveTrustDelta`, `MergeLattice`, `PrepareSync`, `ReceiveSync`,
`RunAsyncFollowup`, `Cooldown` and `ResetBreaker` are the methods of these names.
The breaker keeps its velocities and its test against mean and deviation, in
integers. `known` and `delivered` record which evidence a peer has, and whether
it came in a delta.

`TrustContext` adds a `TrustAgentState` for each peer. Conflicts between
versions are decided by the trust that the peer has at that moment, then by
time; the losers stay as shadows, since trust may change. `past` is the history
of puts and deletions a memory has heard of.

### Resilience

`Epochs` leaves time out: an advance is possible at any moment. `heard` is the
evidence in the causal past of a state. `KeyRegistry` has managers, which rotate
and revoke, and plain registries, which merge. A key is dated by the registry
that imports it (`from_public` sets `created_at`), which the model keeps: a
chain is a set of keys with the times of this registry, the key number being the
order in which they were made.

### Streams, deltas, pipelines

`StreamMerge` names rows by their positions, in the sources and in the output: a
place of the output is a batch and a position in it, and `RowsConserved` speaks
of places. `PutRow`, `PutEnd` and
`SourceRaises` are the thread; `TakeRow`, `TakeEnd`, `DrainRow`, `Finish` the
generator of `merge_stream`; `JoinRow`, `RaiseUnsorted`, `Finish` that of
`merge_sorted_stream`; `Close` the caller who drops it. `DeltaShipping` ingests
any table, composes neighbouring deltas on the way, with the name of the key
column, and delivers the last one again. `Pops[name]` is what `apply_delta` takes
for a removed name: that text, and the integer it spells. `Pipeline` splits `_save` where the file is empty (`OpenFile`,
`WriteFile`) and lets the process crash at every step; a model is the term of
the merges that made it, so that two models are equal only if they were made in
the same way. The two searches of `_detect_cycles` and `_topological_sort` are
one, run twice (`pc` is "detect", then "sort"): `stack` holds the calls of
`dfs`, which go on to the next name (`Descend`) or return (`Backtrack`); the
names on the stack are `path` and `temp`, those that were returned from are
`todo`, and both together are `visited` of the first search.

### Tables, provenance, unmerge

Each conversion of the code is a constant of its own: of a value, `Text` is the
place of its `str()` in the order of strings, `Norm` what `merge()` compares (the
NFC of a text, minus infinity for NaN), `Moment` what `_parse_timestamp` reads and
`Number` what `float()` does, where it raises not; of a key, `NFC` is the normal
form. So two values may have one text, and a date may be a time for `merge()` and
an error for `merge_with_provenance`, which leaves no result then. Values of `NaN`
are not equal to themselves. `ParallelMerge` starts with the chunks
and lets the threads finish, or raise, in any order. `MergeWithProvenance` has
its own index, columns, timestamps and comparison of values, as the code has: that
it comes to the rows of `MergeTables` is a property, and has conditions.
`Reconstruct` and `VerifyUnmerge` take b's value for the winner, as the code does.

### Context memories

Agents learn memories, hand them over in any order (`MergeFrom` is a step of
`merge_multi` whose result is kept) and archive what they hold. `learned` and
`stored` are the memories in the causal past. The id of a fact is a hash of its
text, so memories with one id are of one fact and differ in their sidecars.

## 4. Runs

Passing:

* **GossipShared** (Spec, asynchronous; 2 nodes, a key that both write and one
  that node 1 writes, 2 writes per node, 2 messages in flight). Type and clock
  soundness, nothing invented, the node clock covers the store, equal clocks mean
  equal entries, and the local write propagates, for both keys; no causal loss and
  convergence for the key of one writer, beside writes of the other key that move
  the same clocks. For the shared key these two fail, with two nodes already
  (section 7, 1). 2 nodes with 2 writes each give concurrent, dominated and equal clocks, tombstones over
  updates and updates over tombstones; 2 messages let a request and an answer
  cross and a stale answer arrive after a newer one.
* **GossipOwned** (SyncSpec; 3 nodes, 2 keys with their owners, 2 writes per
  node). The promises to readers are those of `VersionedMap`. The third node hears of versions indirectly and in another order.
  The synchronisation implements `VersionedMap` (refinement), and the stores
  become equal for good.
* **GossipMergeLaws** (MergeSpec; 2 nodes and a file of the first, 1 key, 2
  values of one text, above the text of None, one write each and one more of the
  node that was restarted, 1 message in flight). The laws of `merge()` over all
  triples of states at nodes and in the file, beside anti-entropy and replays, and
  after a node started again from an old file and gave a count to a second write;
  and its clocks. The laws are exact but for one case, which the run has: two
  different values of one text, of which each side keeps its own.
* **MergeState** (2 replicas, 1 model id, 2 versions, 2 contents, 2 adds, 1
  snapshot). Two adds give equal versions with different content, supersession,
  and re-adds; a snapshot is the stale state. One id is enough, since the
  operations on different ids share only the cache and the tombstones; the
  theorems hold for any number.

* **Agents** (2 agents, one with a smaller log and a rate limiter; one tag, one
  fact key, one counter). Tags and facts are what the causal past says, counters
  are exact while an id has one user, the newest messages are kept, and shared
  knowledge does not depend on the order of merges. Beside the agents, in
  behaviours of their own: context memories (2 agents, 2 facts, 3 confidences,
  a budget of 1 and a minimum of 2, 3 memories, blocks of 2), of which the best
  are kept in every order, and whose archive has each fact once; epochs (2 peers
  with windows 1 and 0, 2 epochs, 2 records each, 2 states on their way), whose
  counts are between what any one peer recorded and what all did; and key
  registries (one owner with 2 keys, two registries, 4 imports, 1 restart), which
  take the owner's current key or none once they have all its revocations.
* **Trust** (2 peers, 3 subjects, 2 pieces of evidence, 1 payload; 1 key, 3
  writes, 1 dict form). One piece of evidence puts a peer into quarantine, the
  other makes one trusted; deltas come repeatedly, the breaker trips. Whom a
  peer condemned stays in quarantine. The lattice refuses quarantined sources; the
  verifier accepts one if the breaker is tripped, the delta passes every check and
  its originator is not quarantined, which the run reaches. A score counts all that a peer applied
  itself and nothing that it did not hear of, and exactly that if it spread by
  merges of lattices. Memories hold what no observed deletion or later write
  removed, and the same in every order of exchanges.
* **Jobs** (up to 3 rows a side over 2 keys, queue of one, batches of two; 3
  record keys, the numbers 1 and 2 and the text "01", which names 1 too, 2 records
  at once, 3 versions; 3 pipelines and 5 that are
  refused, 2 crashes, 3 calls). Rows come out once and in full batches, unsorted
  sources are refused wherever the order breaks, the generator ends, the
  receiver is in step, pipelines give the models that their stages define, and
  no saved stage is merged again. Tables (up to 2 rows on each side, 2 keys, one
  that is not in normal form and one that is missing, with and without
  timestamps, chunks of one key; 10 values, among them NaN, 1 and "1", an accent
  in one character and in two, a date and a Decimal): threads change the order of
  rows only, a merge with provenance that does not raise gives the rows of the
  merge, up to normal forms, where both read the same times or, without times,
  order texts alike, and unmerge gives back the other table if the second source
  won the conflicts. The parts share no state and are in one run.

Violations, each of a sentence in the repository (section 7):
**GossipTiebreak**, **GossipReplay**, **MergeStateResurrects**,
**MergeStateBatch**, **UnmergeForgets**.

`CHECK_DEADLOCK` is off everywhere: the users may stop writing.

The mutants in `PROJECT.json` change a definition as a plausible bug would (a
dropped tiebreak, tombstones assigned instead of united, a cache kept over a
remove, ...), and each property fails for at least one.

## 5. Bounds

`MaxCount` (local writes of a node), `MaxInFlight` (messages), `MaxAdds` (tags)
and `MaxSnapshots` bound what the code leaves unbounded. Counters stay below 10,
where the order of decimal strings is the order of numbers; above, the tiebreak
of the code changes its order once more. The proofs hold for every value of
these bounds.

Four more restrictions keep the products of independent parts small.

* `MCGossipMerge`: the file is one of node 1, which restarts from it once node 2
  knows of an event that the file lacks; each node writes once, and node 1 again
  after the restart (`FileOfOne`).
* `MCAgentState` lets a behaviour use one of tags, facts, counters and log beside
  the exchange of states (`OnePart`): no operation reads two of them. While an
  agent is inside a transaction the other one waits (`Undisturbed`): what happens
  there is seen by nobody before it ends. An agent that has seen no operation
  sends nothing, and the third form that is sent is one with counters.
* `MCTrust`: a memory reads only the scores of the lattice, and scores change by
  observation and merge (`ScoresOnly`). So a behaviour that uses memories has one
  observation, no delta that is received and no payload; what deltas do is in the
  others. Payloads and memories are sent by peer 1 (`LatticeStep`, `MemoryStep`).
* `MCAgentState` and `MCJobs` hold modules that share no state, so a behaviour
  uses one of them. Context memories are merged, or archived as they were
  learned (`MergedOrArchived`). A second row on the right is there for the two
  keys in order; rows with the other keys have one value. Rows with the unusual
  values (`OddTables`) are in tables of one row beside each other: conversions are
  of one pair of cells. Nothing is ingested once a name is mistaken, when
  `ReceiverInStep` says nothing any more (`MCDelta`); `MaxRecords` bounds a table.

Two keys of an owner are enough for two to arrive in either order; two rows of
one key on each side for every pairing of duplicates; a queue of one is the
tightest; a third row makes a second batch. Two crashes let one fall into the
run that resumes after the first.

## 6. Fairness

Safety is checked without fairness. The library schedules nothing: the guide
tells the caller to keep synchronising with its peers. `SyncSpec` states just
that, weak fairness of the synchronisation of every pair, and `EventuallyEqual` says what the caller gets once writes stop (`MaxCount`
stops them). Nothing is assumed fair over the lossy network.

`StreamSpec` is fair to the producer thread, which the system schedules, and to
the generator, whose caller asks for the next batch until it closes it. Raising
and closing are not fair. Nothing in the repository calls `run_async_followup`
or runs a pipeline again, so no fairness is assumed for them, and no liveness is
claimed.

## 7. Disagreements between code and documentation

Shown by runs:

1. `gossip.py:391-392` "all nodes converge to the same value regardless of
   message order". The string order of concurrent clocks does not extend the
   causal order, so three entries can replace each other in a cycle
   (GossipTiebreak, one key and three writers). Two writers of a key are enough
   when other keys move the clocks: b writes {b:1}, takes another key from a and
   writes {a:1, b:2}; a writes {a:2} and takes {b:1} over it by string. b then
   takes {a:2}, which is concurrent and above its own by string, and gets {b:1}
   back, which is above {a:2}. It now holds an entry older than its last write,
   and a node that got the same entries in another order holds another one.
2. `gossip.py:192-194`, `218-219`: an external clock is merged into the entry
   and not into the node clock; a later delete does not propagate
   (GossipReplay).
3. `model/crdt_state.py:532-533`: after a remove, an older add comes back from a
   snapshot that still holds the superseded version (MergeStateResurrects).
4. `model/crdt_state.py:347-348`: a batch that raises leaves a stale cache
   (MergeStateBatch).
5. `unmerge.py:163-165` "the dataset as it would have looked had that source
   never participated": unmerge takes the value of every conflict for b's, and
   the merge stores the winner's. Where a won, removing b puts b's value in, and
   removing a leaves a's; `verify_unmerge` reports success (UnmergeForgets).

Met while modelling, reproduced with the library, without a run of their own:

* `crdt_state.py:556-558` and `628-629`: associativity, and `merge_many` equal
  to a chain, fail when a removed version supersedes a live one: whichever
  merge comes first drops the loser. `MergeGroups` (in `OrderFree`) is the part that holds.
* `crdt_state.py:233-234`: under FIRST_WRITE_WINS each side keeps its own, and
  under LAST_WRITE_WINS so do equal timestamps.
* `merge_many([s])` returns `s` itself.
* `guides/gossip-serverless-sync.md:68` "conflict resolved by VectorClock
  comparison": `merge()` compares values, and brings back a value that its own
  writer has replaced. A deployment that mixes `merge()` with anti-entropy can
  end with different values under equal clocks, which anti-entropy drops as
  equal on both sides (`gossip.py:272-273` says they are resolved).
* `gossip.py:431` "Satisfies: commutative, associative, idempotent": `merge()`
  compares `str(value)` with `>=`, so of 1 and "1" each side keeps its own
  (`MergeCommutes`, the second conjunct). The clocks are joined on both sides and
  `digest()` hashes the same text (but for floats), so anti-entropy takes the two
  nodes to be in agreement.
* A node that `from_dict` brings back from an older file counts anew from the
  file's clock. Its writes have clocks that its peers know, and anti-entropy drops
  them as equal.
* Replicas built with different base models never agree on one
  (`crdt_state.py:614`).
* `core.py`, `agentic.py`: with timestamps that go back (`Careless`),
  `LWWMap.set` and `delete` replace a later write here and lose elsewhere. States
  shared inside a transaction that is rolled back come back, and counts with
  them. Two agents that merged share the id `a+b` and lose increments. Merged ids
  depend on the grouping of merges, `from_dict` gives logs the default cap, and
  `merge` drops the rate limiter.
* `docs/e4/E4-SECURITY-MODEL.md:386` "T_d(p) is monotonically non-increasing over
  time": the first evidence on a dimension moves its trust from 0.5 to one minus
  the amount. With five dimensions at zero that lifts a quarantine.
* `pco.py:132`, `docs/e4.md:513` and `E4-DEVELOPER-GUIDE.md:141`, "reject
  unconditionally" at level 3: with a tripped breaker
  (`adaptive_verification.py:139`) the verifier puts level 2 in the place of
  level 3 too, and takes a quarantined source's delta that passes the checks if its
  originator is not quarantined (`QuarantineHolds`, the last conjunct).
* `adaptive_verification.py` `run_async_followup`, `E4-SECURITY-MODEL.md:53,178`,
  "Failures trigger trust drops": counter-evidence carries 33 zero bytes as its
  proof, which never verifies, so nothing is recorded. Nor is what the default
  encoder decodes, so `receive_trust_delta` refuses every delta of it, after it
  has queued the delta. Evidence of kind merkle_divergence can never be recorded
  (`record_evidence` verifies it without a root).
* The lattice's queue for full verification is emptied by `prepare_sync` alone,
  which sends the deltas on; each receiver queues and sends them again, and counts
  the evidence again. `merge` of lattices drops the queue and the log.
* `epoch_protocol.py:31` "no data loss, just epoch renumbering": the counts of two
  peers for one epoch are joined by maximum.
* `key_manager.py` "the one with the later creation timestamp wins": an imported
  key has the time of its import, in each registry another. A manager that
  starts again does not revoke its old key.
* `streaming.py`, "update if later rows have new columns": the cached columns
  grow only when a pair has more columns than before, so a pair with other
  columns in the same number loses some. A source that raises leaves the generator
  waiting for ever; a closed generator leaves the thread blocked.
* `delta.py:357` "First call returns None": so does the call after the store was
  emptied. Removals travel as strings: 1 goes with "1" and with "01", and a key of
  another type, a float, is never removed (`Mistaken`). Nothing looks at versions.
* `delta.py:262` "delta(1→2) ⊔ delta(2→3) == delta(1→3)": without `key`, the
  default and what the command line uses, records are told apart by a hash of
  their contents (`delta.py:289`). A record that is added and then modified is
  in the composition twice, and `apply_delta` ends with the older one; one that is
  added and then removed stays. The module has compositions with `key` only.
* `model/pipeline.py` "resumed from the last completed stage": `_save` truncates
  the file first, and a crash in between loses every stage. `completed_stages`
  lists the failure mark, `is_consistent` stays false after a run that completed,
  and a stage named `failed_at` is taken for done. A checkpoint knows stages by
  name, so an edited pipeline gets old models.
* `parallel.py` groups keys as they are written and `merge()` by their normal
  forms, so texts that are equal in NFC stay apart in different chunks; a chunk
  looks for `_ts` in its own first rows. Both differ from the sequential merge.
* `provenance.py:258` "the same merge as crdt_merge.merge()": timestamps go
  through `float()` (`210-211`), which raises on ISO texts, dates and None where
  `merge()` reads a time or 0 (`dataframe.py:54-93`), and reads a Decimal where
  `merge()` takes 0. Values are compared as they are written (`225`), those of
  `merge()` in normal form (`dataframe.py:399-410`): without timestamps, of a
  decomposed é and "f" the merge keeps the first and this the second, and of NaN and 5
  the merge keeps 5 and this NaN. Of texts with one normal form each may keep
  another. A NaN that wins is logged with the tuple of both as what lost, which
  `unmerge` of b then puts into the row. It also does not look for `_ts`, takes the columns of merged rows from the first pair that meets
  (`303-304`), compares keys as they are written, and of two rows with one key
  in the first table leaves the second unmerged.
* `dataframe.py:399` "non-NaN always wins over NaN": NaN is compared as the text
  "-inf", which is above "-5"; and with timestamps a tie is decided by the raw text
  "nan", which is above those of all numbers. Rows without a key that print alike,
  such as 1 and "1", are duplicates to `_dedup_records`, and one of them is dropped.
* `context/consolidator.py:284-290`: a bloom filter that is passed to a second call
  of `merge_blocks` holds what the first call archived, and drops it.
  `evict_expired` never evicts a memory that is a dict, whose `ttl` is taken for
  metadata (`context/merge.py:203`).

## 8. Proofs

`tlapm` checks every proof; nothing is assumed but the named assumptions of the
modules, which TLC evaluates in the runs: what the constants are (sets of
numbers where the code compares, positive sizes), and nothing about the
behaviour. Theorems that need more say so in their statement: one writer of a key
(`SingleWriter`, `OneWriter` for all keys), a conflict policy, one base model, batches that do not raise,
callers that are not careless.

**GossipProofs** (any nodes, keys, writers, losses and repetitions). Every step
of either specification is one of three kinds, which the lemmas `Steps` and
`SyncSteps` establish: a write (`Writes`), a batch taken in by some nodes
(`TakeIn`: `apply_entries` at one node, a synchronisation of two), or a send
(`Sends`). The invariant `SoundInv` is the conjunction of the type invariant
and four properties that need each other. The clock of a new entry is new
because no entry anywhere counts an event of the writer that has not happened
(`ClockSound`), and that stays so because messages carry known entries only
(`NothingInvented`); hence a clock identifies an entry (`SameClockSameEntry`).
A store stays within the clock of its node (`StoreWithinClock`), so the next
local write is after what it replaces: `WritesPropagate` is the action property
`LocalWritePropagates`. No part of this uses the tiebreak, so it holds beyond
one-digit counters.

`MergeIsLawful` and `MergeMovesForward` are about `GossipMerge`, with anti-entropy,
replays and restarts. The laws hold of any stores with one entry per key, for any
`Text`; nothing is assumed of it but that texts are ordered, so values may share
one. The invariant `MergeInv` adds that the clock of a node, and of a file, is
above all its entries but those of replayed keys; it stays so because `merge`
joins both clocks, and an old file has an old store with its old clock. Clocks
are not sound here, nor do they identify an entry: that is what restarts break.

The last part of **GossipProofs** is about keys with exactly one writer
(`SingleWriter`); other keys may have any, and share the clocks. The
invariant `OwnedInv` adds that the writer of such a key has seen all its entries
and covers their clocks (`OwnerKnows`), that its entries are never
concurrent (`Chain`), and that a node holds an entry at or above everything it
was handed of the key (`CoversSeen`). `NoCausalLoss` and `OwnedKeyConvergence` are
not inductive: they speak of what is held now, and only `CoversSeen` says what
becomes of an entry when a batch replaces it. With `Chain`, `_should_update`
refuses an entry only for one at or above it. A replay joins the clock of an
entry that its writer covers already, so it is an ordinary write here. From the
invariant: `NothingNewerIsLost`, `NodesConverge`, and, where all keys have one
writer (`OneWriter`), `OwnedImplementsMap`, for which a write maps to `Publish`, a
batch to `Adopt` and a send to a stutter. Keys with two writers are excluded for a
reason: the string tiebreak loses newer entries of them (section 7, 1).

**MergeStateProofs** (every conflict policy, any replicas, ids and snapshots).
`SoundInv` says of every replica and every snapshot that it holds only what it
has seen, nothing that it has a tombstone for, and one contribution per id;
that all tags are below the next one; and that a tag names one contribution.
Snapshots are in it because an old one can be merged at any time. It gives
`TypeCorrect`, `NoneTombstoned` and `TombstonesAreKept`. `CacheIsCoherent`
assumes that no batch item raises, the case that MergeStateBatch refutes.

`CoverInv`: everything that a replica or a snapshot has seen is covered by
something it has seen and holds or has a tombstone for. Covering is a preorder
unless the policy is LAST_WRITE_WINS, where `add()` replaces by arrival and
`merge()` by time; hence the assumption of `NothingIsLost`. Under
HIGHEST_VERSION two contributions that cover each other look the same, which
gives `ReplicasConverge`. `RemovedStaysOut` follows the tombstones of the moment
of the remove through later merges. `MergesAreOrderFree` proves the laws that
hold of any states in which no removed contribution supersedes a live one: each
chain of merges ends in the best of the contributions that are alive. It is
stated for replicas that were built for one base model: with two, they never
agree on one (section 7).

**AgentProofs** (any agents, elements, keys and counters). The state of an
agent, the copy that its transaction saved and the forms that were shared are
all views: a state with the operations of its past. Every action makes at most
one view that is new in content, by copying one, joining two, or applying one
operation to one (`Made`); this is proved once, and each property is an
invariant of all views that these three keep. `TagInv`: an element's tags are
those added and not removed in the past, and tombstones are the removed ones.
For facts and counters callers are not careless. `CareInv` then says that what
an agent has published, all but an open transaction, is all that others can
have of it, and that nobody else has a count of its that it does not have itself.
`FactInv` (a register is the latest write by time and id, a tombstone the
latest deletion) and `CountInv` (a slot is at most the number of its counts, and
equal to it while one agent used the id) rest on it.
`LogView`: a log has, of the messages of its past, all those that have fewer
newer ones than every cap; so a log that is cut to any of the caps keeps them,
and the later cuts, to other caps, of merges with other logs do too.
`SharedKnowledgeIsOrderFree` needs `FactInv` too: two writes of one time and id
would be merged by arrival.

**TrustProofs** (any peers, subjects and evidence; memories with any keys).
`LatticeInv` says of every peer that each slot of each score is `Justified` by
the evidence that the peer knows, that evidence which reached it by merges alone
is the beginning of what the peer it came from applied (`Ordered`: of the
evidence of one peer that two states have, one has all that the other has, so
the maximum of their slots is the larger set's), and that
all in circulation comes from deltas that were made. A slot may count
repeated deltas again, so it is exact only without them. `QuarantineIsKept`
follows: a slot is at least what the peer applied itself, a full slot in every
dimension leaves no trust, and the originator of a delta is a peer, which has a
score, so the full check does look at it.
`ContextInv`: tags are unique; a memory that no loaded snapshot reached has the
tombstones of its past and just the versions that its past leaves, and one
that did has versions of real writes only. The visible version exists because
the conflict rule, in whatever way it weighs trust, is total and transitive on
versions with different tags. `MemoriesMergeInAnyOrder` then is an equation of
unions. `Folding` has the facts about folds and sums these proofs use; each
takes the least length, or size, at which it would fail.

**PeerProofs** (any managers, windows, owners and holders; any agents, memories,
budgets and sizes of a block). `EpochInv` says
of the peers' states and of every state on its way the same (`Counted`), and that
what it has of another peer is the beginning of what that peer recorded
(`Beginning`): the evidence of two states for one peer and epoch is then
nested, so the larger count is that of the larger set. `KeyInv`: a chain has one
key of each number, and an owner that never started again has revoked all its
keys but the last. So a registry with all revocations has at most that one left,
whatever times it gave to the keys.

For contexts, `Totals(M)` is all that a set of memories has of each fact, and
`GatheredAll` says that the dict of a merge has the totals of its list, each
once. What is left after a merge alone says too little: a memory may be missing
although nothing that is held now is better, because what was better was
joined since. `MemoryInv` says of the list an agent holds (`HeldView`) that
nothing in it is above what the past gives (`Within`), and that the best of
each fact of the past is in it with its confidence or is crowded out
(`BestStay`): other facts, as many as the budget, are as confident there. Crowds
only grow in a merge (`CrowdGrows`), and what a budget keeps of a list with a
crowd is all as confident as the crowd (`CrowdFills`, from the ranks of
`RankedFirst`). An archive is the blocks of one list that has each fact once and
is the totals of what was stored (`ArchiveView`); blocks cover the list without
overlapping (`PartIs`, `PlaceInBlock`), for lists of every length.

**JobProofs** (sources of any length, any queue and batches; any records; any
pipelines).
`StreamInv`: the rows taken so far are in the output once, those that
`merge_sorted_stream` has left on the right are the last ones, and no row of the
left that was taken has the key of one that is left on the right. This is what
keeps a pair from being missed, and it fails on unsorted sources or a repeated
key on the right, which `RowsConserved` excludes for the sorted merge. `Checked` keeps what
the generator has compared, and gives `UnsortedIsNoticed` without these
conditions. `SourceAssumption` says that sources are sequences with keys that
can be compared. `DeltaInv`: there is a sequence of records that begins with the
receiver's, ends with the store's, and goes from each to the next by a delta on
its way (`Track`). It is kept, where no name is mistaken, because the delta that `ingest` computes takes the
old records to the new ones, because two composed deltas do together what they
do one after the other, and because a delta applied twice does what it does
once; each is a lemma on the operators, key by key. What `Pops` says is read only
in `Applied`: of keys that are not mistaken, those go whose names are removed.

For pipelines, `PipelineInv` has a part for each phase. In a search (`IsStack`),
what a call wants is done, called next, or still to be looked at, so that what
`dfs` returned from is an order in which each name comes after what it needs
(`IsOrder`); and however stages could be ranked, each call is of a lower one.
A name that is met on the stack then leaves no ranking, and a search that ends
has ranked all stages. While stages run (`IsRest`), what is left of the order
needs only what is before it or has a result. `Checkpointed` says of the
process and of the file, when one pipeline alone used them, that each result
but the mark of a failure is merged from results that are there too (`Sound`),
whatever crashed or failed in between. With a ranking, these equations have one
solution (`ResultsUnique`), `ResultsOf`. `PipelineAssumption` says that stages
are lists with at most one base. `SavedInv`: without a crash in a save, the
process that goes on has all that was saved, and so has the file.

**TableProofs** (any tables, any size of a chunk, any order of the threads). It
assumes that a table is a list of rows whose keys are texts or missing and whose
cells are values or None (`IsTable`), that normal forms of keys are their own, and
of the conversions that they are functions: nothing relates `Text`, `Norm`,
`Moment` and `Number`. `MergeHolds` and `MergeDistinct` say of two tables
which rows their merge has, each of them once; of rows without a key the first of
each text is left (`DedupHolds`). A chunk takes the keys whose
number is in its range, so the chunks divide the keys (`IsNumbering`).
`ParallelInv`: the rows so far are those of the chunks whose future was taken,
each once (`Collected`). The rows of all chunks are those of the sequential
merge as soon as equal keys are written alike and the first rows of every chunk
tell about timestamps what the first rows of the tables do; they are compared by
what they show and how often, because a chunk may know fewer columns and writes
its rows in an order of its own. For `merge_with_provenance`, `IsJoin` says that
the row and the record of a key are at one place, and that the columns that the
first pair fixes are all the columns, as the rows of one table have the same
ones; `Decide` then picks a value of the normal form of the one that `MergeCell`
picks (`CellAgrees`): both have one rule for timestamps, and without them texts and
normal forms have one order. `IsLeft` and
`IsKept` are what the engine drops and keeps of a row, from which the other
source's rows are recovered.

What stays with TLC, and why:

* Liveness (`EventuallyEqual`, `StreamEnds`): the provers know no fairness.
* That the searches of `Pipeline` end: the invariant says what is so when they do.

`TombstonesGrow` is proved and has no run.

## 9. Not modelled

Strategies that compute tensors or rows, file formats, accelerators, the hub,
reports and visualisation have no state that a replica shares, or compute on
floats; the encryption and signature code is bytes. Object identity, threads
that share a `CRDTMergeState` without a lock (the class forbids it), the
string order of counters of several digits, and files of the command line (loaded,
changed and saved without a lock) are
outside the modules. The causal trust clock and the trust-bound Merkle tree are
read by deltas alone, whose verdict is a free choice. The other detectors and
monitors of `e4/resilience` are sequential arithmetic of one peer over floats.
`PROJECT.json` gives the reason for each component.
