------------------------------- MODULE Places -------------------------------
(***************************************************************************)
(* What a loop or a comprehension with a condition leaves of a list: the   *)
(* items at some of its places, in their order.                            *)
(***************************************************************************)
EXTENDS Integers, Sequences, FiniteSets

(* The place in a set of places that has k - 1 others before it.           *)
Nth(places, k) == CHOOSE i \in places : Cardinality({j \in places : j <= i}) = k

AtPlaces(s, places) == [k \in 1..Cardinality(places) |-> s[Nth(places, k)]]
=============================================================================
