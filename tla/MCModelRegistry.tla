-------------------------- MODULE MCModelRegistry --------------------------
(* One provider, one preset, two bindings of one target, four calls.          *)
EXTENDS Registry, TLC

CONSTANTS v1, m1, b1, b2, t1, q1, q2, q3, q4

MCEdits == {q1, q2, q3, q4}
Symmetric == Permutations(MCEdits) \cup Permutations({b1, b2})

=============================================================================
