------------------------------- MODULE Clocks -------------------------------
(***************************************************************************)
(* Vector clocks of crdt_merge/clocks.py.                                  *)
(*                                                                         *)
(* VectorClock strips zero counters when it is built, so a node that is    *)
(* absent and a node whose counter is 0 are the same clock: the total      *)
(* function [Node -> Nat] is the canonical form of the dict.               *)
(***************************************************************************)
EXTENDS Integers

CONSTANT Node   \* node identifiers, integers in the order of the strings

ASSUME NodeAssumption == Node \subseteq Int

Clock == [Node -> Nat]

ZeroClock == [n \in Node |-> 0]

(* VectorClock.increment *)
Tick(c, n) == [c EXCEPT ![n] = @ + 1]

Higher(a, b) == IF a >= b THEN a ELSE b

(* VectorClock.merge: element-wise maximum *)
Join(c, d) == [n \in Node |-> Higher(c[n], d[n])]

Leq(c, d) == \A n \in Node : c[n] <= d[n]

(* VectorClock.compare: BEFORE and CONCURRENT *)
Before(c, d) == Leq(c, d) /\ c # d

Concurrent(c, d) == ~Leq(c, d) /\ ~Leq(d, c)

(***************************************************************************)
(* The order of str(sorted(clock.items())), which _should_update uses to   *)
(* break ties between concurrent clocks.  The two strings agree up to the  *)
(* first node whose counters differ.  A clock without that node goes on    *)
(* with a later node or with the closing bracket, and both are above the   *)
(* earlier node of the other string: absent is above every counter.  Two   *)
(* counters compare as decimal strings, which is their numeric order as    *)
(* long as they have one digit; the configurations keep them below 10.     *)
(***************************************************************************)
StringAbove(c, d) ==
    \E n \in Node :
        /\ \A m \in Node : m < n => c[m] = d[m]
        /\ c[n] # d[n]
        /\ d[n] # 0
        /\ c[n] = 0 \/ c[n] > d[n]
=============================================================================
