----------------------------- MODULE MCLtmIngest -----------------------------
(* Instances of LtmIngest for TLC.                                           *)
EXTENDS LtmIngest

MCTwo == {1, 2}
=============================================================================
