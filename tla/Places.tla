------------------------------- MODULE Places -------------------------------
(* What a list comprehension with a condition keeps: the chosen places of a *)
(* sequence, in order.                                                      *)
EXTENDS Naturals, FiniteSets

Nth(places, k) == CHOOSE i \in places : Cardinality(places \cap 1..i) = k

Chosen(s, places) == [k \in 1..Cardinality(places) |-> s[Nth(places, k)]]
=============================================================================
