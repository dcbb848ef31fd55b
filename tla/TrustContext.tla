---------------------------- MODULE TrustContext ----------------------------
(***************************************************************************)
(* The context memory of an agent, TrustAgentState of                      *)
(* crdt_merge/e4/integration/agent_bridge.py, beside the trust lattice     *)
(* that decides which of several concurrent writes of a key is visible.    *)
(* A write has a unique tag, here the number of the operation; it is also  *)
(* the value.  A state travels as to_dict and is read with from_dict.      *)
(*                                                                         *)
(* The visible entry is chosen when the versions of its key are installed, *)
(* and stays when the lattice changes afterwards.                          *)
(***************************************************************************)
EXTENDS TrustLattice

CONSTANTS
    Key,
    Time,          \* timestamps of writes
    Unbound,       \* peers whose memory has no trust lattice
    Weighted,      \* trust_weight_context
    MaxWrites,     \* bound: puts, deletes and restores
    MaxForms       \* bound: states that were sent

ASSUME ContextAssumption ==
    /\ Peer \subseteq Int /\ Subject \subseteq Int /\ Time \subseteq Nat
    /\ Unbound \subseteq Peer
    /\ Weighted \in BOOLEAN

VARIABLES
    memory,     \* memory[p]: entries (the visible write of a key), shadow, tombs
    snapshots,  \* snapshots[p]: results of snapshot() that p keeps
    forms,      \* to_dict forms that were sent
    writes,     \* number of operations so far
    past        \* history: past[p], operations in the causal past of p's memory

contextVars == <<memory, snapshots, forms, writes, past>>
vars == <<node, made, payloads, memory, snapshots, forms, writes, past>>

ContextInit ==
    /\ memory = [p \in Peer |-> [entries |-> EmptyDict, shadow |-> EmptyDict, tombs |-> {}]]
    /\ snapshots = [p \in Peer |-> {}]
    /\ forms = {}
    /\ writes = 0
    /\ past = [p \in Peer |-> {}]

-----------------------------------------------------------------------------
ResolveTrust(p, peer) ==
    IF p \in Unbound THEN ProbationTrust * Cardinality(Dimension)
    ELSE OverallTrust(node[p].scores[peer])

LiveTrust(p, w) == IF p \in Unbound THEN w.trust ELSE ResolveTrust(p, w.peer)

LaterWrite(v, w) ==
    \/ v.time > w.time
    \/ v.time = w.time /\ v.peer > w.peer
    \/ v.time = w.time /\ v.peer = w.peer /\ v.tag > w.tag

(* _resolve_conflict in the eyes of p *)
Beats(p, v, w) ==
    LET tv == IF Weighted THEN LiveTrust(p, v) ELSE 0
        tw == IF Weighted THEN LiveTrust(p, w) ELSE 0
    IN tv > tw \/ (tv = tw /\ LaterWrite(v, w))

Versions(m, k) ==
    LookUp(m.shadow, k, {}) \cup (IF k \in DOMAIN m.entries THEN {m.entries[k]} ELSE {})

(* The fold of the code over the versions finds the one that beats all      *)
(* others.                                                                  *)
Winner(p, versions) == CHOOSE v \in versions : \A w \in versions \ {v} : Beats(p, v, w)

(* _install of a set of versions that is not empty *)
Install(p, m, k, versions) ==
    LET losers == versions \ {Winner(p, versions)}
    IN [m EXCEPT !.entries = Put(@, k, Winner(p, versions)),
                 !.shadow = IF losers = {} THEN Drop(@, k) ELSE Put(@, k, losers)]

(* p operates on its memory: op goes to the history, m is the result. *)
Operate(p, m, op) ==
    /\ writes < MaxWrites
    /\ writes' = writes + 1
    /\ memory' = [memory EXCEPT ![p] = m]
    /\ past' = [past EXCEPT ![p] = @ \cup {op}]
    /\ UNCHANGED <<snapshots, forms>>

(* put(): earlier writes of the same peer that are here become tombstones.  *)
PutEntry(p, k, peer, t) ==
    LET m == memory[p]
        w == [key |-> k, peer |-> peer, time |-> t, tag |-> writes + 1,
              trust |-> ResolveTrust(p, peer)]
        superseded == {v \in Versions(m, k) : v.peer = peer}
        tags == {v.tag : v \in superseded}
    IN Operate(p, Install(p, [m EXCEPT !.tombs = @ \cup tags], k,
                          (Versions(m, k) \ superseded) \cup {w}),
               [kind |-> "put", write |-> w, tags |-> tags])

DeleteEntry(p, k) ==
    LET m == memory[p]
        tags == {v.tag : v \in Versions(m, k)}
    IN Operate(p, [m EXCEPT !.tombs = @ \cup tags, !.entries = Drop(@, k),
                            !.shadow = Drop(@, k)],
               [kind |-> "delete", number |-> writes + 1, tags |-> tags])

TakeSnapshot(p) ==
    /\ snapshots' = [snapshots EXCEPT ![p] = {memory[p].entries}]
    /\ UNCHANGED <<memory, forms, writes, past>>

(* load_snapshot(): the losers of conflicts are gone, tombstones are kept.  *)
LoadSnapshot(p) ==
    \E entries \in snapshots[p] :
        Operate(p, [memory[p] EXCEPT !.entries = entries, !.shadow = EmptyDict],
                [kind |-> "restore", number |-> writes + 1, tags |-> {}])

-----------------------------------------------------------------------------
(* Tombstones of the other do not reach what is here. *)
LiveVersionsOwn(a, b, k) ==
    {v \in Versions(b, k) : v.tag \notin a.tombs \cup b.tombs} \cup Versions(a, k)

LiveVersions(a, b, k) ==
    {v \in Versions(a, k) \cup Versions(b, k) : v.tag \notin a.tombs \cup b.tombs}

KeysOf(m) == DOMAIN m.entries \cup DOMAIN m.shadow

(* Installs versions[k] for every key into an empty memory *)
InstallAll(p, tombs, versions) ==
    LET live == {k \in DOMAIN versions : versions[k] # {}}
        contested == {k \in live : Cardinality(versions[k]) > 1}
    IN [entries |-> [k \in live |-> Winner(p, versions[k])],
        shadow |-> [k \in contested |-> versions[k] \ {Winner(p, versions[k])}],
        tombs |-> tombs]

(* The tombstones of the other filter its versions, and are forgotten. *)
MergeContextForgetful(p, a, b) ==
    InstallAll(p, a.tombs, [k \in KeysOf(a) \cup KeysOf(b) |-> LiveVersions(a, b, k)])

MergeContext(p, a, b) ==
    InstallAll(p, a.tombs \cup b.tombs,
               [k \in KeysOf(a) \cup KeysOf(b) |-> LiveVersions(a, b, k)])

(* from_dict(to_dict(m)) with the lattice of p *)
ReadForm(p, m) ==
    InstallAll(p, m.tombs,
               [k \in KeysOf(m) |-> {v \in Versions(m, k) : v.tag \notin m.tombs}])

FormOf(p) == [memory |-> memory[p], past |-> past[p]]

SendForm(p) ==
    /\ Cardinality(forms) < MaxForms
    /\ forms' = forms \cup {FormOf(p)}
    /\ UNCHANGED <<memory, snapshots, writes, past>>

(* A peer in the same process is read as it is. *)
AbsorbForm(p, form) ==
    /\ memory' = [memory EXCEPT ![p] = MergeContext(p, @, ReadForm(p, form.memory))]
    /\ past' = [past EXCEPT ![p] = @ \cup form.past]
    /\ UNCHANGED <<snapshots, forms, writes>>

ContextNext ==
    \E p \in Peer :
        \/ \E k \in Key, peer \in Peer, t \in Time : PutEntry(p, k, peer, t)
        \/ \E k \in Key : DeleteEntry(p, k)
        \/ TakeSnapshot(p) \/ LoadSnapshot(p)
        \/ SendForm(p)
        \/ \E form \in forms \cup {FormOf(q) : q \in Peer \ {p}} : AbsorbForm(p, form)

Init == TrustInit /\ ContextInit

Next ==
    \/ TrustNext /\ UNCHANGED contextVars
    \/ ContextNext /\ UNCHANGED trustVars

Spec == Init /\ [][Next]_vars

-----------------------------------------------------------------------------
(* Properties *)

Weight(known) == SumOf([x \in known |-> x.evidence.amount])

(* Trust follows evidence: what a slot of a score counts is evidence of     *)
(* that observer in the causal past, at least all that the peer applied     *)
(* itself, and exactly all of it once if it spread by merges of lattices    *)
(* from one peer.  Evidence in deltas may count more than once.             *)
EvidenceOfHistory ==
    \A p \in Peer, s \in Subject, d \in Dimension, o \in Subject :
        LET slot == Slot(node[p].scores[s], d, o)
            about == {x \in node[p].known : x.evidence.target = s
                         /\ x.evidence.dimension = d /\ x.evidence.observer = o}
        IN /\ slot > 0 <=> about # {}
           /\ slot >= Weight({x \in about : x.by = p})
           /\ about \cap node[p].delivered = {} /\ Cardinality({x.by : x \in about}) = 1
                => slot = Weight(about)

Quarantined(p, s) == VerificationLevel(node[p].scores[s]) = 3

(* What p applied itself makes one observer's case against s complete in    *)
(* every dimension.                                                         *)
Condemned(p, s) ==
    \A d \in Dimension : \E o \in Subject :
        Weight({x \in node[p].known :
                  /\ x.evidence.target = s /\ x.evidence.dimension = d
                  /\ x.evidence.observer = o /\ x.by = p}) >= One

(* Whom a peer condemned stays in quarantine, whatever lattices, deltas and *)
(* resets follow.  The lattice takes no delta from a quarantined source.    *)
(* The verifier takes one in one case: the breaker is tripped, which puts   *)
(* level 2 in the place of level 3, the delta passes every check and its    *)
(* originator is not quarantined.                                           *)
QuarantineHolds ==
    \A p \in Peer :
        /\ \A s \in Subject : Condemned(p, s) => Quarantined(p, s)
        /\ \A delta \in made : Quarantined(p, delta.source) =>
             /\ ~LatticeAccepts(node[p], delta)
             /\ VerifierAccepts(node[p], delta)
                  <=> /\ node[p].tripped
                      /\ delta.passes = 3
                      /\ ~Quarantined(p, delta.originator)

(* Deletions replicate and nothing comes back: whatever the order of        *)
(* exchanges, the versions of a key are the writes of the causal past that  *)
(* no deletion and no later put there had observed (load_snapshot aside).   *)
LiveOfHistory ==
    \A p \in Peer, k \in Key :
        (\A op \in past[p] : op.kind # "restore") =>
            Versions(memory[p], k)
              = {w \in {op.write : op \in {x \in past[p] : x.kind = "put"}} :
                    w.key = k /\ \A op \in past[p] : w.tag \notin op.tags}

(* What an agent sees after merging two states with its own does not depend *)
(* on their order or grouping, although their visible entries were chosen   *)
(* under other trust, or loaded from a snapshot.                            *)
ContextOrderFree ==
    LET states == {memory[p] : p \in Peer} \cup {form.memory : form \in forms}
    IN \A p \in Peer : \A a, b \in states \ {memory[p]} :
         LET M(x, y) == MergeContext(p, x, y)
             m == memory[p]
         IN M(m, a) = M(a, m) /\ M(M(m, a), b) = M(m, M(a, b))

=============================================================================
