-------------------------- MODULE MCThreadPipeline --------------------------
(* Instances of ThreadPipeline for TLC.                                     *)
EXTENDS ThreadPipeline, TLC

CONSTANTS t1, t2, r1, r2, r3, n1, o1, o2, o3

\* All that is said is said to t1; replies may go to t2.
MCThreadOf == [w \in Writers |-> t1]

\* Seconds: the summarizing and the recording run share one.
SharedSeconds == [w \in Writers |-> IF w \in {r1, r3} THEN 1 ELSE 2]

\* Every writer has its own second.
Order == <<r1, r2, r3, n1>>
DistinctStamps == [w \in Writers |-> CHOOSE i \in 1..4 : Order[i] = w]

ObjectSymmetry == Permutations(Objects)
=============================================================================
