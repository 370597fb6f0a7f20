------------------------------ MODULE Scheduler ------------------------------
(***************************************************************************)
(* RuntimeScheduler: timed tasks held in a dict and a lazily cleaned heap, *)
(* served by one asyncio worker, mirrored in the scheduled_tasks table.    *)
(*                                                                         *)
(* One asyncio loop runs everything, and the sqlite calls never suspend,   *)
(* so a whole public call (memory and row) is one step.  The worker is the *)
(* only task that spans several steps: while it is "running" nobody else   *)
(* on the loop moves, but time passes and the process may crash.           *)
(*                                                                         *)
(* A task id always comes with the same schedule: ids are fresh uuids      *)
(* (service.py) or the literal "ltm_backup" (app.py).                      *)
(*                                                                         *)
(* Definitions marked FAULT are faulty variants of the definition that     *)
(* follows them; they show that a property can fail.                       *)
(***************************************************************************)
EXTENDS Integers, FiniteSets

CONSTANTS
    Tasks,         \* task ids
    Entries,       \* _HeapEntry objects (bound: how many exist at a time)
    Schedule,      \* task -> its ScheduleType
    Persist,       \* tasks registered with persist=True
    FireOnce,      \* tasks whose misfire_policy is "fire_once", not "skip"
    Owner,         \* task -> owner
    Rebindable,    \* tasks whose callback the resolver can rebuild
    CronNext(_, _),\* croniter(...).get_next (external)
    None,
    Faulty,        \* tasks whose sqlite calls may raise
    MaxTime,       \* bound on the clock
    MaxCallbacks   \* bound on unfinished callbacks of a re-registered task

ScheduleTypes ==
    [kind : {"one_shot"}, at : Nat] \cup [kind : {"interval", "cron"}, sec : Nat \ {0}]

ASSUME ScheduleAssumption ==
    /\ Schedule \in [Tasks -> ScheduleTypes]
    /\ Persist \subseteq Tasks /\ FireOnce \subseteq Tasks /\ Rebindable \subseteq Tasks
    /\ MaxTime \in Nat /\ MaxCallbacks \in Nat /\ Faulty \subseteq Tasks
    /\ None \notin Nat /\ None \notin Entries /\ None \notin Tasks

ASSUME CronAssumption ==
    \A t \in Tasks, n \in 0..MaxTime : Schedule[t].kind = "cron" =>
        CronNext(Schedule[t].sec, n) \in Nat /\ CronNext(Schedule[t].sec, n) > n

VARIABLES
    tasks,      \* keys of self._tasks
    rec,        \* their _TaskRecord: enabled, next_fire_at, heap_entry, callback
    heap,       \* self._heap
    entry,      \* the _HeapEntry objects
    rows,       \* task ids of table scheduled_tasks
    row,        \* their enabled and next_fire_at columns
    now,        \* time.time()
    started,    \* self._started
    stop,       \* where stop() is; "no" iff not self._stopping
    worker,     \* the worker task
    wake,       \* self._wake_event
    deadline,   \* timeout of the worker's wait
    callbacks,  \* self._running_callbacks, counted per task
    fires,      \* history: firings of a one-shot since it was registered, up to 2
    failed      \* history: tasks whose last store write raised

memory == <<tasks, rec, heap, entry>>
table == <<rows, row>>
loop == <<started, stop, worker, wake, deadline>>
vars == <<memory, table, now, loop, callbacks, fires, failed>>

OneShot(t) == Schedule[t].kind = "one_shot"
Blank == [enabled |-> FALSE, next |-> None, entry |-> None, callback |-> FALSE]
BlankRow == [enabled |-> FALSE, next |-> None]
BlankEntry == [task |-> None, at |-> 0, cancelled |-> TRUE]

\* A record that waits for its fire time in heap entry e, and one that does not.
Armed(r, at, e) == [enabled |-> TRUE, next |-> at, entry |-> e, callback |-> r.callback]
Disarmed(r) == [enabled |-> FALSE, next |-> None, entry |-> None, callback |-> r.callback]

TypeOK ==
    /\ tasks \subseteq Tasks /\ rows \subseteq Persist
    /\ rec \in [Tasks -> [enabled : BOOLEAN, next : Nat \cup {None},
                          entry : Entries \cup {None}, callback : BOOLEAN]]
    /\ row \in [Tasks -> [enabled : BOOLEAN, next : Nat \cup {None}]]
    /\ heap \subseteq Entries
    /\ entry \in [Entries -> [task : Tasks \cup {None}, at : Nat, cancelled : BOOLEAN]]
    /\ now \in 0..MaxTime /\ started \in BOOLEAN /\ wake \in BOOLEAN
    /\ stop \in {"no", "worker", "callbacks", "raised"}
    /\ worker \in {"none", "waiting", "running", "dead"}
    /\ deadline \in Nat \cup {None}
    /\ callbacks \in [Tasks -> Nat] /\ fires \in [Tasks -> Nat]
    /\ failed \subseteq Tasks

-----------------------------------------------------------------------------
(* Fire times: _compute_initial_fire, _compute_next_fire,                   *)
(* _compute_resumed_fire and _advance_to_future.                            *)

NextAfter(t) ==
    IF Schedule[t].kind = "cron" THEN CronNext(Schedule[t].sec, now) ELSE now + Schedule[t].sec

InitialFire(t) == IF OneShot(t) THEN Schedule[t].at ELSE NextAfter(t)

NextFire(t) == IF OneShot(t) THEN None ELSE NextAfter(t)

\* FAULT: an expired one-shot can be switched on again.
AlwaysResumable(t) == TRUE

Resumable(t) == OneShot(t) => Schedule[t].at > now

ResumedFire(t) == InitialFire(t)

-----------------------------------------------------------------------------
(* The heap.  An entry object is reusable once nothing refers to it.        *)

Free == {e \in Entries : e \notin heap /\ \A t \in tasks : rec[t].entry # e}

Pushed(e, t, at) == [entry EXCEPT ![e] = [task |-> t, at |-> at, cancelled |-> FALSE]]

\* FAULT: the old entry stays live in the heap.
NotCancelled(S) == entry

\* Marks the entries of the tasks in S cancelled; the worker pops them later.
Cancelled(S) ==
    [e \in Entries |->
        IF \E t \in S : rec[t].entry = e
        THEN [task |-> entry[e].task, at |-> entry[e].at, cancelled |-> TRUE]
        ELSE entry[e]]

Earliest(e) == e \in heap /\ \A f \in heap : entry[e].at <= entry[f].at

-----------------------------------------------------------------------------
(* The store.  A call that raises leaves the table as it was.               *)

StoreOutcomes(t) == IF t \in Faulty \cap Persist THEN BOOLEAN ELSE {TRUE}

\* FAULT: the enabled column is not written.
UpdatedNextOnly(t, ok, r) ==
    /\ row' = IF ok /\ t \in rows THEN [row EXCEPT ![t] = [enabled |-> row[t].enabled, next |-> r.next]]
              ELSE row
    /\ failed' = IF ~ok THEN failed \cup {t} ELSE IF t \in rows THEN failed \ {t} ELSE failed

\* UPDATE ... WHERE task_id = t
Updated(t, ok, r) ==
    /\ row' = IF ok /\ t \in rows THEN [row EXCEPT ![t] = r] ELSE row
    /\ failed' = IF ~ok THEN failed \cup {t} ELSE IF t \in rows THEN failed \ {t} ELSE failed

-----------------------------------------------------------------------------
Init ==
    /\ tasks = {} /\ rec = [t \in Tasks |-> Blank]
    /\ heap = {} /\ entry = [e \in Entries |-> BlankEntry]
    /\ rows = {} /\ row = [t \in Tasks |-> BlankRow]
    /\ now = 0 /\ started = FALSE /\ stop = "no"
    /\ worker = "none" /\ wake = FALSE /\ deadline = None
    /\ callbacks = [t \in Tasks |-> 0] /\ fires = [t \in Tasks |-> 0]
    /\ failed = {}

\* Another coroutine can run only while the worker is suspended.
LoopFree == worker # "running"

\* A known task keeps its fire time (rec[t] is Blank for an unknown one).
RegisteredFire(t) == IF rec[t].next # None THEN rec[t].next ELSE InitialFire(t)

\* The row is written before the new entry is pushed: if upsert raises, the
\* old entry is already cancelled and the new record has none.
RegisterWith(t, e, ok) ==
    /\ tasks' = tasks \cup {t}
    /\ rec' = [rec EXCEPT ![t] = [enabled |-> TRUE, next |-> RegisteredFire(t), callback |-> TRUE,
                                  entry |-> IF ok THEN e ELSE None]]
    /\ heap' = IF ok THEN heap \cup {e} ELSE heap
    /\ entry' = [Cancelled({t}) EXCEPT ![e] =
          IF ok THEN [task |-> t, at |-> RegisteredFire(t), cancelled |-> FALSE] ELSE @]
    /\ rows' = IF ok THEN rows \cup ({t} \cap Persist) ELSE rows
    /\ row' = IF ok /\ t \in Persist
              THEN [row EXCEPT ![t] = [enabled |-> TRUE, next |-> RegisteredFire(t)]] ELSE row
    /\ failed' = IF ok THEN failed \ {t} ELSE failed \cup {t}
    /\ wake' = (wake \/ ok)
    /\ fires' = [fires EXCEPT ![t] = 0]
    /\ UNCHANGED <<now, started, stop, worker, deadline, callbacks>>

Register(t) ==
    /\ LoopFree /\ callbacks[t] < MaxCallbacks
    /\ \E e \in Free, ok \in StoreOutcomes(t) : RegisterWith(t, e, ok)

Cancel(t) ==
    /\ LoopFree /\ t \in tasks
    /\ tasks' = tasks \ {t}
    /\ rec' = [rec EXCEPT ![t] = Blank]
    /\ entry' = Cancelled({t})
    /\ \E ok \in StoreOutcomes(t) :
        /\ rows' = IF ok THEN rows \ {t} ELSE rows
        /\ row' = IF ok THEN [row EXCEPT ![t] = BlankRow] ELSE row
        /\ failed' = IF ok THEN failed \ {t} ELSE failed \cup {t}
        /\ wake' = (wake \/ ok)
    /\ UNCHANGED <<heap, now, started, stop, worker, deadline, callbacks, fires>>

Disable(t) ==
    /\ LoopFree /\ t \in tasks /\ rec[t].enabled
    /\ entry' = Cancelled({t})
    /\ rec' = [rec EXCEPT ![t] = Disarmed(rec[t])]
    /\ \E ok \in StoreOutcomes(t) :
        /\ Updated(t, ok, BlankRow)
        /\ wake' = (wake \/ ok)
    /\ UNCHANGED <<tasks, heap, rows, now, started, stop, worker, deadline, callbacks, fires>>

\* An expired one-shot raises ValueError before anything has changed.
Enable(t) ==
    /\ LoopFree /\ t \in tasks /\ ~rec[t].enabled /\ Resumable(t)
    /\ \E e \in Free, ok \in StoreOutcomes(t) :
        /\ rec' = [rec EXCEPT ![t] = Armed(rec[t], ResumedFire(t), e)]
        /\ entry' = Pushed(e, t, ResumedFire(t))
        /\ heap' = heap \cup {e}
        /\ Updated(t, ok, [enabled |-> TRUE, next |-> ResumedFire(t)])
        /\ wake' = (wake \/ ok)
    /\ UNCHANGED <<tasks, rows, now, started, stop, worker, deadline, callbacks, fires>>

Owned(o) == {t \in Tasks : Owner[t] = o}

\* The tasks in gone leave memory, the rows in deleted the table; deleting
\* those in raised failed.
Unregistered(gone, deleted, raised) ==
    /\ tasks' = tasks \ gone /\ entry' = Cancelled(tasks \cap gone)
    /\ rows' = rows \ deleted
    /\ rec' = [t \in Tasks |-> IF t \in tasks' THEN rec[t] ELSE Blank]
    /\ row' = [t \in Tasks |-> IF t \in rows' THEN row[t] ELSE BlankRow]
    /\ failed' = (failed \ deleted) \cup raised
    /\ wake' = (wake \/ tasks \cap deleted # {})
    /\ UNCHANGED <<heap, now, started, stop, worker, deadline, callbacks, fires>>

\* Cancels the owner's tasks one by one, then deletes the owner's rows.  If
\* deleting the row of t raises, the tasks in Done are already gone and t has
\* left memory only; if the last call raises, the rows of tasks that are not in
\* memory stay.
UnregisterByOwner(o) ==
    /\ LoopFree
    /\ LET mine == tasks \cap Owned(o) IN
       \/ Unregistered(Owned(o), Owned(o), {})
       \/ \E t \in mine, Done \in SUBSET mine :
            /\ FALSE \in StoreOutcomes(t) /\ t \notin Done
            /\ Unregistered(Done \cup {t}, Done, {t})
       \/ Owned(o) \cap Faulty \cap Persist # {} /\ Unregistered(mine, mine, {})

-----------------------------------------------------------------------------
(* start(): recover the rows that are not in memory, then start the worker. *)

Recovered == rows \ tasks

Misfired(t) == row[t].enabled /\ row[t].next # None /\ row[t].next < now

RecoveredEnabled(t) ==
    row[t].enabled /\ ~(Misfired(t) /\ OneShot(t) /\ t \notin FireOnce)

RecoveredNext(t) ==
    IF ~RecoveredEnabled(t) THEN None
    ELSE IF Misfired(t) THEN (IF t \in FireOnce THEN now ELSE NextAfter(t))
    ELSE IF row[t].next = None THEN ResumedFire(t)
    ELSE row[t].next

\* What recovery writes back: a skipped misfire, and a missing fire time.
Rewritten(t) == (Misfired(t) /\ t \notin FireOnce) \/ (row[t].enabled /\ row[t].next = None)

RecoveredRow(t) ==
    IF Rewritten(t) THEN [enabled |-> RecoveredEnabled(t), next |-> RecoveredNext(t)] ELSE row[t]

\* _compute_resumed_fire raises for such a row, and start() with it.
StartRaises ==
    \E t \in Recovered : row[t].enabled /\ row[t].next = None /\ ~Resumable(t)

\* The rows of R come into memory; if bound, callbacks are then rebuilt.
Recover(R, bound) ==
    /\ LET queued == {t \in R : RecoveredEnabled(t)} IN
       \E f \in [queued -> Free] :
        /\ \A s, t \in queued : f[s] = f[t] => s = t
        /\ tasks' = tasks \cup R
        /\ rec' = [t \in Tasks |->
              IF t \in R
              THEN [enabled |-> RecoveredEnabled(t), next |-> RecoveredNext(t),
                    entry |-> IF t \in queued THEN f[t] ELSE None, callback |-> bound /\ t \in Rebindable]
              ELSE [enabled |-> rec[t].enabled, next |-> rec[t].next, entry |-> rec[t].entry,
                    callback |-> rec[t].callback \/ (bound /\ t \in tasks \cap Rebindable)]]
        /\ entry' = [e \in Entries |->
              IF \E t \in queued : f[t] = e
              THEN LET t == CHOOSE x \in queued : f[x] = e
                   IN [task |-> t, at |-> RecoveredNext(t), cancelled |-> FALSE]
              ELSE entry[e]]
        /\ heap' = heap \cup {f[t] : t \in queued}
    /\ row' = [t \in Tasks |-> IF t \in R THEN RecoveredRow(t) ELSE row[t]]
    /\ failed' = failed \ R
    /\ UNCHANGED <<rows, now, stop, wake, deadline, callbacks, fires>>

Start ==
    /\ ~started /\ LoopFree /\ ~StartRaises
    /\ Recover(Recovered, TRUE)
    /\ started' = TRUE /\ worker' = "running"

\* Writing back the row of t raises, and start() with it; the rows before it
\* are in memory by then.
StartFails ==
    /\ ~started /\ LoopFree /\ ~StartRaises
    /\ \E t \in Recovered, Done \in SUBSET Recovered :
        /\ Rewritten(t) /\ FALSE \in StoreOutcomes(t) /\ t \notin Done
        /\ Recover(Done, FALSE)
    /\ UNCHANGED <<started, worker>>

-----------------------------------------------------------------------------
(* _worker_loop: one action per way through the loop body.                  *)

Serving == worker = "running" /\ stop = "no"

Wait(until) ==
    /\ wake' = FALSE /\ worker' = "waiting" /\ deadline' = until
    /\ UNCHANGED <<memory, table, now, started, stop, callbacks, fires, failed>>

WorkerIdle == Serving /\ heap = {} /\ Wait(None)

WorkerSleep ==
    /\ Serving
    /\ \E e \in heap : Earliest(e) /\ ~entry[e].cancelled /\ entry[e].at > now /\ Wait(entry[e].at)


WorkerWake ==
    /\ worker = "waiting"
    /\ wake \/ (deadline # None /\ deadline <= now)
    /\ worker' = "running" /\ deadline' = None
    /\ UNCHANGED <<memory, table, now, started, stop, wake, callbacks, fires, failed>>

WorkerPop ==
    /\ Serving
    /\ \E e \in heap :
        /\ Earliest(e)
        /\ \/ entry[e].cancelled
           \/ entry[e].at <= now /\ ~(entry[e].task \in tasks /\ rec[entry[e].task].enabled)
        /\ heap' = heap \ {e}
        /\ entry' = [entry EXCEPT ![e] = BlankEntry]
    /\ UNCHANGED <<tasks, rec, table, now, loop, callbacks, fires, failed>>

\* e is popped; for a recurring task it also stands for the entry pushed next.
FireWith(t, e, ok) ==
    /\ heap' = IF NextFire(t) = None THEN heap \ {e} ELSE heap
    /\ entry' = [entry EXCEPT ![e] =
          IF NextFire(t) = None THEN BlankEntry
          ELSE [task |-> t, at |-> NextFire(t), cancelled |-> FALSE]]
    /\ rec' = [rec EXCEPT ![t] =
          IF NextFire(t) = None THEN Disarmed(rec[t]) ELSE Armed(rec[t], NextFire(t), e)]
    /\ Updated(t, ok, [enabled |-> NextFire(t) # None, next |-> NextFire(t)])
    /\ worker' = IF ok THEN worker ELSE "dead"
    /\ callbacks' = [callbacks EXCEPT ![t] = @ + (IF rec[t].callback THEN 1 ELSE 0)]
    /\ fires' = [fires EXCEPT ![t] = IF OneShot(t) /\ @ < 2 THEN @ + 1 ELSE @]
    /\ UNCHANGED <<tasks, rows, now, started, stop, wake, deadline>>

\* The callback task is created first, but it cannot run before the worker
\* suspends, that is after the new state is in the table.  A store call that
\* raises ends the worker.
WorkerFire(t) ==
    /\ Serving /\ t \in tasks /\ rec[t].enabled
    /\ \E e \in heap, ok \in StoreOutcomes(t) :
        /\ Earliest(e) /\ ~entry[e].cancelled /\ entry[e].at <= now /\ entry[e].task = t
        /\ FireWith(t, e, ok)

WorkerExit ==
    /\ worker = "running" /\ stop # "no"
    /\ worker' = "none"
    /\ UNCHANGED <<memory, table, now, started, stop, wake, deadline, callbacks, fires, failed>>

\* _execute_callback returns; an exception of the callback is caught there.
CallbackDone(t) ==
    /\ LoopFree /\ callbacks[t] > 0
    /\ callbacks' = [callbacks EXCEPT ![t] = @ - 1]
    /\ UNCHANGED <<memory, table, now, loop, fires, failed>>

-----------------------------------------------------------------------------
(* stop(): wake the worker, wait for it, then wait for the callbacks.       *)

StopBegin ==
    /\ started /\ LoopFree /\ stop = "no"
    /\ stop' = "worker" /\ wake' = TRUE
    /\ UNCHANGED <<memory, table, now, started, worker, deadline, callbacks, fires, failed>>

\* await self._worker_task raises what killed the worker.
StopJoin ==
    /\ stop = "worker" /\ worker \in {"none", "dead"}
    /\ stop' = IF worker = "dead" THEN "raised" ELSE "callbacks"
    /\ UNCHANGED <<memory, table, now, started, worker, wake, deadline, callbacks, fires, failed>>

\* FAULT: running callbacks are not awaited.
StopEndEarly ==
    /\ stop = "callbacks"
    /\ started' = FALSE /\ stop' = "no"
    /\ UNCHANGED <<memory, table, now, worker, wake, deadline, callbacks, fires, failed>>

StopEnd ==
    /\ stop = "callbacks" /\ \A t \in Tasks : callbacks[t] = 0
    /\ started' = FALSE /\ stop' = "no"
    /\ UNCHANGED <<memory, table, now, worker, wake, deadline, callbacks, fires, failed>>

-----------------------------------------------------------------------------
Tick ==
    /\ now < MaxTime /\ now' = now + 1
    /\ UNCHANGED <<memory, table, loop, callbacks, fires, failed>>

\* The process dies and a new RuntimeScheduler is built on the same table.
Crash ==
    /\ tasks' = {} /\ rec' = [t \in Tasks |-> Blank]
    /\ heap' = {} /\ entry' = [e \in Entries |-> BlankEntry]
    /\ started' = FALSE /\ stop' = "no"
    /\ worker' = "none" /\ wake' = FALSE /\ deadline' = None
    /\ callbacks' = [t \in Tasks |-> 0]
    /\ UNCHANGED <<table, now, fires, failed>>

Worker ==
    \/ WorkerIdle \/ WorkerSleep \/ WorkerWake \/ WorkerPop \/ WorkerExit
    \/ \E t \in Tasks : WorkerFire(t)

Public(t) == Register(t) \/ Cancel(t) \/ Disable(t) \/ Enable(t)

Stopping == StopJoin \/ StopEnd

Next ==
    \/ \E t \in Tasks : Public(t) \/ CallbackDone(t)
    \/ \E o \in {Owner[t] : t \in Tasks} : UnregisterByOwner(o)
    \/ Start \/ StartFails \/ StopBegin \/ Stopping \/ Worker \/ Tick \/ Crash

Spec == Init /\ [][Next]_vars

\* The loop keeps running its ready tasks, and callbacks return: they are
\* pipeline runs, whose model and gateway calls time out.
FairSpec ==
    /\ Spec
    /\ WF_vars(Worker) /\ WF_vars(Stopping)
    /\ \A t \in Tasks : WF_vars(CallbackDone(t))

-----------------------------------------------------------------------------
(* Properties.                                                              *)

\* Heap and records agree although cancel, disable and re-register only mark
\* entries: an uncancelled entry is the current entry of an enabled record,
\* with that record's fire time, and an enabled record has such an entry
\* unless the register call that made it raised.
HeapMatchesRecords ==
    /\ \A e \in heap : ~entry[e].cancelled =>
        LET t == entry[e].task IN
        t \in tasks /\ rec[t].enabled /\ rec[t].entry = e /\ rec[t].next = entry[e].at
    /\ \A t \in tasks : rec[t].enabled =>
        \/ rec[t].entry \in heap /\ ~entry[rec[t].entry].cancelled /\ entry[rec[t].entry].task = t
        \/ t \in failed /\ rec[t].entry = None

Agree(t) ==
    /\ row[t].enabled = rec[t].enabled
    /\ \/ row[t].next = rec[t].next
       \/ t \in FireOnce /\ row[t].enabled /\ row[t].next < rec[t].next

\* The table always says what a restart needs: unless a store call raised,
\* a persisted task is in memory iff it is in the table, with the same
\* enabled flag and fire time (fire_once recovery may fire a late task "now"
\* without writing that down).  And start() never meets an enabled row it
\* cannot resume (an expired one-shot without a fire time), which would make
\* every later boot fail, whatever calls raised.
TableMatchesMemory ==
    /\ ~StartRaises
    /\ \A t \in Persist \ failed :
        /\ t \in tasks => t \in rows /\ Agree(t)
        /\ started => (t \in rows => t \in tasks)

\* Strengthening used by the proofs: what records and rows that are absent or
\* disabled look like, and how far a stop() under way has got.
RecordShape ==
    \A t \in Tasks :
        /\ t \notin tasks => rec[t] = Blank
        /\ ~rec[t].enabled => rec[t].next = None /\ rec[t].entry = None
        /\ rec[t].enabled => rec[t].next # None

RowShape ==
    \A t \in Tasks :
        /\ t \notin rows => ~row[t].enabled
        /\ row[t].enabled <=> row[t].next # None

StopShape ==
    /\ stop # "no" => started
    /\ stop = "callbacks" => worker = "none"

\* No crash, restart, disable/enable or misfire recovery makes a one-shot fire
\* twice: the worker persists the tombstone before the callback can run (where
\* sqlite lets it).
OneShotFiresOnce == \A t \in Tasks \ Faulty : fires[t] <= 1

\* Once stop() has returned no callback is left and none can be created until
\* the next start(), so plugin teardown is not disturbed by timed tasks.
QuietWhenStopped ==
    ~started => (worker = "none" /\ \A t \in Tasks : callbacks[t] = 0)

Due(t) == started /\ stop = "no" /\ worker # "dead" /\ t \in tasks /\ rec[t].enabled
          /\ rec[t].next <= now /\ t \notin failed

=============================================================================
