------------------------------ MODULE RunPromise ------------------------------
(***************************************************************************)
(* What the run manager and the approval calls promise of a run, whatever  *)
(* tasks, crashes and repeated calls there are: it is opened once, waits   *)
(* until it is approved or refused, an approval is good for one call of    *)
(* the tool, and nothing happens to it after its end.  An operator may stop *)
(* a run by force at any time; the work on it is not told, so that it may  *)
(* still use the approval it has, ask, or end.  RunLifecycle implements it. *)
(***************************************************************************)
EXTENDS Integers

CONSTANT Runs

VARIABLES
    state,    \* "new", "working", "waiting" or "done"
    granted,  \* runs with an approval that has not been used
    calls,    \* how often the tool of a run was called after an approval
    refused,  \* how often an approval of a run was rejected
    stopped   \* runs an operator has stopped by force

vars == <<state, granted, calls, refused, stopped>>

Init ==
    /\ state = [r \in Runs |-> "new"] /\ granted = {}
    /\ calls = [r \in Runs |-> 0] /\ refused = [r \in Runs |-> 0] /\ stopped = {}

Move(r, from, to) == state[r] = from /\ state' = [state EXCEPT ![r] = to]

Open(r) == Move(r, "new", "working") /\ UNCHANGED <<granted, calls, refused, stopped>>

\* What works on a run: nobody does after its end, unless it was stopped.
Worked(r) == state[r] = "working" \/ (state[r] = "done" /\ r \in stopped)

Ask(r) ==
    /\ Worked(r) /\ state' = [state EXCEPT ![r] = "waiting"]
    /\ UNCHANGED <<granted, calls, refused, stopped>>

Grant(r) == Move(r, "waiting", "working") /\ granted' = granted \cup {r} /\ UNCHANGED <<calls, refused, stopped>>

\* Nothing but a refusal or a stop ends a wait without an approval.
Refuse(r) ==
    /\ Move(r, "waiting", "done")
    /\ refused' = [refused EXCEPT ![r] = @ + 1] /\ UNCHANGED <<granted, calls, stopped>>

\* The handler of the tool starts; the approval is used up.
CallTool(r) ==
    /\ Worked(r) /\ r \in granted
    /\ granted' = granted \ {r} /\ calls' = [calls EXCEPT ![r] = @ + 1]
    /\ UNCHANGED <<state, refused, stopped>>

\* Whoever works on the run ends it, and an approval not used lapses.
Finish(r) ==
    /\ Worked(r) /\ state' = [state EXCEPT ![r] = "done"]
    /\ granted' = granted \ {r} /\ UNCHANGED <<calls, refused, stopped>>

\* An operator stops all runs of a thread.
Stop(S) ==
    /\ \A r \in S : state[r] # "new"
    /\ state' = [r \in Runs |-> IF r \in S THEN "done" ELSE state[r]]
    /\ stopped' = stopped \cup S /\ UNCHANGED <<granted, calls, refused>>

\* The process dies: approvals in progress are lost, the runs are not.
Forget == granted' = {} /\ UNCHANGED <<state, calls, refused, stopped>>

Next ==
    \/ \E r \in Runs : Open(r) \/ Ask(r) \/ Grant(r) \/ Refuse(r) \/ CallTool(r) \/ Finish(r)
    \/ \E S \in SUBSET Runs : Stop(S)
    \/ Forget

Spec == Init /\ [][Next]_vars
=============================================================================
