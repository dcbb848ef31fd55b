------------------------------ MODULE Listing ------------------------------
(* Lists that Python's sorted() and list comprehensions make: some numbers  *)
(* in order, and some items of a list in their order.                       *)
EXTENDS Integers, FiniteSets, Sequences

(* sorted() of distinct numbers: each has as many up to it as its place.    *)
InOrder(S) ==
    [n \in 1 .. Cardinality(S) |-> CHOOSE x \in S : Cardinality({y \in S : y <= x}) = n]

(* [s[i] for i in places], in the order of s *)
At(s, places) == [n \in 1 .. Cardinality(places) |-> s[InOrder(places)[n]]]

=============================================================================
