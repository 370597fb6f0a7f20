--------------------------- MODULE MCRunLifecycle ---------------------------
(* Instances of RunLifecycle for TLC.                                        *)
EXTENDS RunLifecycle, TLC

CONSTANTS e1, e2, c1, q1, q2, p1

MCEvents == {e1, e2}
MCChildren == {c1}
MCParentOf == [c \in Children |-> e1]
MCThreadOf == [r \in Events \cup Children |-> IF r \in Events THEN "t1" ELSE "t2"]
MCStops == {p1}
MCRequests == {q1, q2}

Symmetric == Permutations(MCRequests)
=============================================================================
