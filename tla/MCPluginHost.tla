---------------------------- MODULE MCPluginHost ----------------------------
(* Two plugins, one of which may refuse to be registered, and overlapping    *)
(* calls.                                                                    *)
EXTENDS PluginHost, TLC

CONSTANTS sure, clumsy, q1, q2, q3

MCOrder == <<clumsy, sure>>
MCCalls == {q1, q2, q3}
Symmetric == Permutations(MCCalls)

=============================================================================
