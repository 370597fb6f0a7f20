----------------------------- MODULE MCDelivery -----------------------------
(* Instance of Delivery for TLC: a reply of two messages, and a get_msg.     *)
EXTENDS Delivery

CONSTANTS m1, m2, q1, reply, lookup

MCPlan == [b \in Batches |-> IF b = reply THEN <<m1, m2>> ELSE <<q1>>]
=============================================================================
