---------------------------- MODULE KeyRegistry ----------------------------
(***************************************************************************)
(* KeyManager and PeerKeyRegistry of crdt_merge/e4/resilience/             *)
(* key_manager.py.  Managers rotate and revoke their keys; the public      *)
(* halves and the revocations reach the registries of others one by one,   *)
(* in any order, repeatedly or never, or by merges of whole registries.    *)
(*                                                                         *)
(* A key is the n-th of its owner, under one scheme; signing and proofs of *)
(* revocations, which no registry looks at, are left out.  An imported key *)
(* is created, for the registry, when from_public builds it.               *)
(***************************************************************************)
EXTENDS Integers, FiniteSets

CONSTANTS
    Owner,          \* peers with a KeyManager
    Holder,         \* registries without one, which merge with others
    MaxKeys,        \* bound: keys of one owner
    MaxImports,     \* bound: keys that are registered by others
    MaxRestarts     \* bound: managers that are built anew

ASSUME KeyAssumption ==
    /\ Owner \cap Holder = {}
    /\ MaxKeys \in Nat \ {0} /\ MaxImports \in Nat /\ MaxRestarts \in Nat

VARIABLES
    registry,   \* registry[r].keys[o]: set of [n, created], the chain;
                \* registry[r].revoked: set of [owner, n, successor]
    current,    \* current[o]: number of _current_key
    issued,     \* revocations that were made
    keys,       \* keys[o]: number of keys that o generated
    now,        \* time, of one clock
    imports, restarted

keyVars == <<registry, current, issued, keys, now, imports, restarted>>

Registry == Owner \cup Holder

NewRegistry == [keys |-> [o \in Owner |-> {}], revoked |-> {}]

(* KeyManager.__init__ registers the first key. *)
KeyInit ==
    /\ registry = [r \in Registry |->
                      IF r \in Owner
                      THEN [NewRegistry EXCEPT !.keys[r] = {[n |-> 1, created |-> 0]}]
                      ELSE NewRegistry]
    /\ current = [o \in Owner |-> 1]
    /\ issued = {}
    /\ keys = [o \in Owner |-> 1]
    /\ now = 0 /\ imports = 0 /\ restarted = {}

Numbers(chain) == {k.n : k \in chain}

(* register: a key that is known stays as it is.  All keys of an owner have *)
(* one scheme here, and none is refused.                                    *)
Register(chain, key) == IF key.n \in Numbers(chain) THEN chain ELSE chain \cup {key}

RevokedNumbers(reg, o) == {r.n : r \in {x \in reg.revoked : x.owner = o}}

(* The key that was created last: no two in a chain have one time. *)
NewestOf(chain) ==
    (CHOOSE k \in chain : \A j \in chain : j.created <= k.created).n

(* The newest key, if it is not revoked; 0 for None *)
CurrentKeyNewest(reg, o) ==
    IF reg.keys[o] = {} \/ NewestOf(reg.keys[o]) \in RevokedNumbers(reg, o)
    THEN 0 ELSE NewestOf(reg.keys[o])

(* current_key: the newest key that is not revoked; 0 for None *)
CurrentKey(reg, o) ==
    LET valid == {k \in reg.keys[o] : k.n \notin RevokedNumbers(reg, o)}
    IN IF valid = {} THEN 0 ELSE NewestOf(valid)

Revocation(o, successor) == [owner |-> o, n |-> current[o], successor |-> successor]

(* rotate_key: the key may be revoked already. *)
Rotate(o) ==
    LET n == keys[o] + 1
        revocation == Revocation(o, n)
    IN /\ n <= MaxKeys
       /\ keys' = [keys EXCEPT ![o] = n]
       /\ now' = now + 1
       /\ registry' = [registry EXCEPT
              ![o].revoked = @ \cup {revocation},
              ![o].keys[o] = Register(@, [n |-> n, created |-> now + 1])]
       /\ issued' = issued \cup {revocation}
       /\ current' = [current EXCEPT ![o] = n]
       /\ UNCHANGED <<imports, restarted>>

(* emergency_revoke: the manager goes on with the key that it revoked. *)
EmergencyRevoke(o) ==
    LET revocation == Revocation(o, 0)
    IN /\ issued' = issued \cup {revocation}
       /\ registry' = [registry EXCEPT ![o].revoked = @ \cup {revocation}]
       /\ UNCHANGED <<current, keys, now, imports, restarted>>

(* A process that starts again has a new key, and a registry of it alone.   *)
Restart(o) ==
    /\ Cardinality(restarted) < MaxRestarts /\ keys[o] < MaxKeys
    /\ restarted' = restarted \cup {o}
    /\ keys' = [keys EXCEPT ![o] = @ + 1]
    /\ now' = now + 1
    /\ current' = [current EXCEPT ![o] = keys[o] + 1]
    /\ registry' = [registry EXCEPT
           ![o] = [NewRegistry EXCEPT
                      !.keys[o] = {[n |-> keys[o] + 1, created |-> now + 1]}]]
    /\ UNCHANGED <<issued, imports>>

(* from_public and register, of a key that its owner exported once *)
ImportKey(r, o, n) ==
    /\ r # o /\ imports < MaxImports
    /\ n \notin Numbers(registry[r].keys[o])
    /\ imports' = imports + 1
    /\ now' = now + 1
    /\ registry' = [registry EXCEPT
           ![r].keys[o] = Register(@, [n |-> n, created |-> now + 1])]
    /\ UNCHANGED <<current, issued, keys, restarted>>

ImportRevocation(r, revocation) ==
    /\ registry' = [registry EXCEPT ![r].revoked = @ \cup {revocation}]
    /\ UNCHANGED <<current, issued, keys, now, imports, restarted>>

(* PeerKeyRegistry.merge: a key that both have is the one of self. *)
MergeRegistries(a, b) ==
    [keys |-> [o \in Owner |->
                  a.keys[o] \cup {k \in b.keys[o] : k.n \notin Numbers(a.keys[o])}],
     revoked |-> a.revoked \cup b.revoked]

MergeRegistry(h, r) ==
    /\ registry' = [registry EXCEPT ![h] = MergeRegistries(@, registry[r])]
    /\ UNCHANGED <<current, issued, keys, now, imports, restarted>>

KeyNext ==
    \/ \E o \in Owner : Rotate(o) \/ EmergencyRevoke(o) \/ Restart(o)
    \/ \E r \in Registry, o \in Owner : \E n \in 1 .. keys[o] : ImportKey(r, o, n)
    \/ \E r \in Registry, revocation \in issued : ImportRevocation(r, revocation)
    \/ \E h \in Holder : \E r \in Registry \ {h} : MergeRegistry(h, r)

KeySpec == KeyInit /\ [][KeyNext]_keyVars

-----------------------------------------------------------------------------
(* Properties *)

(* A registry that has all revocations of a peer verifies with that peer's  *)
(* current key, or with none if it does not have it or it is revoked: in    *)
(* whatever order keys and revocations came, though the registries date one *)
(* key differently.  A peer that started again is an exception, whose old   *)
(* key nobody revokes.                                                      *)
RegistriesAgree ==
    \A r \in Registry, o \in Owner :
        LET reg == registry[r]
        IN o \notin restarted /\ {x \in issued : x.owner = o} \subseteq reg.revoked =>
             CurrentKey(reg, o) =
                 IF current[o] \in Numbers(reg.keys[o]) \ RevokedNumbers(reg, o)
                 THEN current[o] ELSE 0

=============================================================================
