----------------------------- MODULE MCScheduler -----------------------------
(* Instance of Scheduler for TLC.                                           *)
EXTENDS Scheduler

CONSTANTS once, every, e1, e2, e3

\* once: a one-shot, as a conversation wake-up; every: a recurring task.
MCSchedule ==
    [t \in Tasks |->
        IF t = once THEN [kind |-> "one_shot", at |-> 2] ELSE [kind |-> "interval", sec |-> 1]]
MCOwner == [t \in Tasks |-> IF t = every THEN "plugin" ELSE "conversation"]
MCCronNext(s, n) == ((n \div s) + 1) * s
=============================================================================
