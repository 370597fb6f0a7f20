----------------------------- MODULE LtmIngest -----------------------------
(***************************************************************************)
(* The write line of long-term memory.  Facts (rows of channel_events and  *)
(* messages) are saved by the pipeline and the outbox, which then mark the *)
(* thread dirty.  One worker takes a dirty thread, reads what lies past    *)
(* its two cursors, has it extracted window by window, and moves the       *)
(* cursors.  A task of start() scans the stored threads once for those     *)
(* that a former process left behind.                                      *)
(*                                                                         *)
(* facts, stored, cursor, remembered and failed are tables and survive a   *)
(* crash.  Saving a fact and marking its thread is one step: the SQLite    *)
(* stores do not suspend.  Calls of the LTM store run in a worker thread   *)
(* and suspend, and so do the extraction and embedding models.             *)
(*                                                                         *)
(* FAULT marks faulty variants of the definition that follows.             *)
(***************************************************************************)
EXTENDS FactWindows

CONSTANTS
    Threads,      \* numbered in the order of their ids
    Size,         \* LtmWritePort.window_size
    Overlap,      \* LtmWritePort.overlap_size
    MaxFacts,     \* bound: facts per thread and table
    MaxTime,      \* bound: timestamps
    MaxFailures,  \* bound: exceptions of models and stores
    MaxStops      \* bound: how often the process dies or is stopped

ASSUME IngestAssumption ==
    /\ Threads \subseteq Nat /\ Size \in Int /\ Overlap \in Int
    /\ MaxFacts \in Nat /\ MaxTime \in Nat /\ MaxFailures \in Nat /\ MaxStops \in Nat

Kinds == {"event", "message"}

VARIABLES
    facts,       \* thread -> table -> timestamps of its rows, in sequence order
    stored,      \* threads with a row in the threads table
    cursor,      \* thread -> ThreadLtmCursor (no row and None are 0)
    remembered,  \* thread -> facts of the windows that became entries
    failed,      \* thread -> facts of the windows in failed_windows
    started,
    stop,        \* stop(): "no", "cancelling" the scan, "waiting" for the worker
    dirty,       \* _dirty_threads
    wake,        \* _wake_event
    worker,      \* where _worker_loop is
    job,         \* its locals: the thread, delta.facts, where the next window starts, delta.max_*
    scan,        \* where _startup_reconcile is
    listed,      \* its threads that it has not looked at
    look,        \* the thread it looks at and the cursor it read
    left,        \* history: threads that were behind when the last process ended
    missed,      \* history: threads whose last attempt or scan failed
    failures, stops

tables == <<facts, stored, cursor, remembered, failed>>
signals == <<dirty, wake>>
work == <<worker, job>>
scanning == <<scan, listed, look>>
histories == <<left, missed>>
bounds == <<failures, stops>>
vars == <<tables, started, stop, signals, work, scanning, histories, bounds>>

Stopping == stop # "no"
Zero == [k \in Kinds |-> 0]
NoLook == [thread |-> 0, cursor |-> Zero]
NoJob == [thread |-> 0, batch |-> <<>>, start |-> 0, next |-> Zero]

\* What get_thread_delta reads: the rows of both tables past a cursor.
Past(t, c) == {f \in Kinds \X (1..MaxFacts) : c[f[1]] < f[2] /\ f[2] <= Len(facts[t][f[1]])}

\* Its sort key: timestamp, events before messages, sequence.
Before(t, f, g) ==
    LET at(h) == facts[t][h[1]][h[2]]
    IN \/ at(f) < at(g)
       \/ at(f) = at(g) /\ f[1] = "event" /\ g[1] = "message"
       \/ at(f) = at(g) /\ f[1] = g[1] /\ f[2] < g[2]

\* The ways to lay out a set of facts by that key (there is one).
Orders(t, fs) ==
    {s \in [1..Cardinality(fs) -> fs] :
        /\ \A f \in fs : \E i \in DOMAIN s : s[i] = f
        /\ \A i, j \in DOMAIN s : i < j => Before(t, s[i], s[j])}

\* delta.max_event_id and max_message_id.
NextCursor(t, c) ==
    [k \in Kinds |-> IF Len(facts[t][k]) > c[k] THEN Len(facts[t][k]) ELSE c[k]]

Behind(t) == Past(t, cursor[t]) # {}

TypeOK ==
    /\ facts \in [Threads -> [Kinds -> Seq(1..MaxTime)]]
    /\ \A t \in Threads, k \in Kinds : Len(facts[t][k]) <= MaxFacts
    /\ stored \subseteq Threads /\ dirty \subseteq Threads /\ listed \subseteq Threads
    /\ left \subseteq Threads /\ missed \subseteq Threads
    /\ cursor \in [Threads -> [Kinds -> 0..MaxFacts]]
    /\ remembered \in [Threads -> SUBSET (Kinds \X (1..MaxFacts))]
    /\ failed \in [Threads -> SUBSET (Kinds \X (1..MaxFacts))]
    /\ started \in BOOLEAN /\ wake \in BOOLEAN
    /\ stop \in {"no", "cancelling", "waiting"}
    /\ worker \in {"off", "top", "asleep", "load", "windows", "cursor"}
    /\ job.start \in Nat /\ job.next \in [Kinds -> 0..MaxFacts]
    /\ worker \in {"load", "windows", "cursor"} => job.thread \in Threads
    /\ scan \in {"off", "list", "next", "check", "done"}
    /\ failures \in 0..MaxFailures /\ stops \in 0..MaxStops

Init ==
    /\ facts = [t \in Threads |-> [k \in Kinds |-> <<>>]]
    /\ cursor = [t \in Threads |-> Zero]
    /\ remembered = [t \in Threads |-> {}] /\ failed = [t \in Threads |-> {}]
    /\ stored = {} /\ dirty = {} /\ listed = {} /\ left = {} /\ missed = {}
    /\ started = FALSE /\ wake = FALSE /\ stop = "no"
    /\ worker = "off" /\ job = NoJob /\ scan = "off" /\ look = NoLook
    /\ failures = 0 /\ stops = 0

-----------------------------------------------------------------------------
(* What the rest of the runtime does.                                        *)

\* FAULT: the set is updated and the event is not.
MarkDirtySilently(t) ==
    /\ dirty' = dirty \cup {t} /\ wake' = wake
    /\ left' = left \ {t} /\ missed' = missed \ {t}

\* mark_dirty.  A new signal makes up for what was missed.
MarkDirty(t) ==
    /\ dirty' = dirty \cup {t} /\ wake' = TRUE
    /\ left' = left \ {t} /\ missed' = missed \ {t}

\* The pipeline stores an event, or the outbox a message it delivered.  The
\* tasks of a stopped runtime may still do so.  Platforms choose the
\* timestamps, so they need not grow.
SaveFact(t, k, at) ==
    /\ Len(facts[t][k]) < MaxFacts
    /\ facts' = [facts EXCEPT ![t][k] = Append(@, at)]
    /\ MarkDirty(t)
    /\ UNCHANGED <<stored, cursor, remembered, failed, started, stop, work, scanning, bounds>>

\* ThreadManager.save at the end of the thread's first run, which began with
\* a fact of this process.
SaveThread(t) ==
    /\ \E k \in Kinds : facts[t][k] # <<>>
    /\ t \notin left /\ t \notin stored /\ stored' = stored \cup {t}
    /\ UNCHANGED <<facts, cursor, remembered, failed, started, stop, signals, work, scanning, histories, bounds>>

-----------------------------------------------------------------------------
(* start and stop.                                                           *)

Start ==
    /\ ~ started /\ started' = TRUE /\ stop' = "no"
    /\ worker' = "top" /\ scan' = "list" /\ listed' = {}
    /\ UNCHANGED <<tables, signals, job, look, histories, bounds>>

\* stop() cancels the scan and awaits it ...
StopBegin ==
    /\ started /\ ~ Stopping /\ stops < MaxStops
    /\ stop' = "cancelling" /\ stops' = stops + 1
    /\ UNCHANGED <<tables, started, signals, work, scanning, histories, failures>>

\* ... wakes the worker and awaits it ...
StopWake ==
    /\ stop = "cancelling" /\ stop' = "waiting"
    /\ scan' = "off" /\ listed' = {} /\ look' = NoLook /\ wake' = TRUE
    /\ UNCHANGED <<tables, started, dirty, work, histories, bounds>>

\* ... and drops the signals that are left.
StopEnd ==
    /\ stop = "waiting" /\ worker = "off"
    /\ dirty' = {} /\ wake' = FALSE /\ started' = FALSE /\ stop' = "no"
    /\ left' = {t \in Threads : Behind(t)} /\ missed' = {}
    /\ UNCHANGED <<tables, work, scanning, bounds>>

Crash ==
    /\ started /\ stops < MaxStops /\ stops' = stops + 1
    /\ dirty' = {} /\ wake' = FALSE /\ started' = FALSE /\ stop' = "no"
    /\ worker' = "off" /\ job' = NoJob /\ scan' = "off" /\ listed' = {} /\ look' = NoLook
    /\ left' = {t \in Threads : Behind(t)} /\ missed' = {}
    /\ UNCHANGED <<tables, failures>>

-----------------------------------------------------------------------------
(* _worker_loop, _process_thread and LtmWritePort.ingest_thread_delta.       *)

\* _take_next_dirty_thread removes the thread before its facts are read.
Take(t) == dirty' = dirty \ {t}

WorkerTakes ==
    /\ worker = "top" /\ ~ Stopping
    /\ \E t \in dirty :
        /\ \A u \in dirty : t <= u
        /\ Take(t) /\ job' = [NoJob EXCEPT !.thread = t]
    /\ worker' = "load"
    /\ UNCHANGED <<tables, started, stop, wake, scanning, histories, bounds>>

\* The loop clears the event and sleeps only if nothing came in before that;
\* the three statements do not suspend.
WorkerSleeps ==
    /\ worker = "top" /\ ~ Stopping /\ dirty = {}
    /\ wake' = FALSE /\ worker' = "asleep"
    /\ UNCHANGED <<tables, started, stop, dirty, job, scanning, histories, bounds>>

WorkerWakes ==
    /\ worker = "asleep" /\ wake /\ worker' = "top"
    /\ UNCHANGED <<tables, started, stop, signals, job, scanning, histories, bounds>>

WorkerEnds ==
    /\ worker = "top" /\ Stopping /\ worker' = "off"
    /\ UNCHANGED <<tables, started, stop, signals, job, scanning, histories, bounds>>

\* load_cursor returns and get_thread_delta reads both tables.
Load ==
    /\ worker = "load"
    /\ LET t == job.thread
       IN IF Behind(t)
          THEN \E s \in Orders(t, Past(t, cursor[t])) :
                /\ worker' = "windows"
                /\ job' = [thread |-> t, batch |-> s, start |-> 0, next |-> NextCursor(t, cursor[t])]
          ELSE worker' = "top" /\ job' = NoJob
    /\ UNCHANGED <<tables, started, stop, signals, scanning, histories, bounds>>

\* The facts of the window the loop is at.
Window == {job.batch[i] : i \in WindowAt(job.start, WindowSize(Size), Len(job.batch))}

NextWindow ==
    IF job.start + WindowSize(Size) >= Len(job.batch)
    THEN worker' = "cursor" /\ job' = job
    ELSE worker' = worker /\ job' = [job EXCEPT !.start = @ + StepSize(Size, Overlap)]

\* The window is extracted, embedded and stored.
WindowStored ==
    /\ worker = "windows"
    /\ remembered' = [remembered EXCEPT ![job.thread] = @ \cup Window]
    /\ NextWindow
    /\ UNCHANGED <<facts, stored, cursor, failed, started, stop, signals, scanning, histories, bounds>>

\* FAULT: the failed window is skipped without a record.
WindowFailsUnrecorded ==
    /\ worker = "windows" /\ failures < MaxFailures /\ failures' = failures + 1
    /\ NextWindow
    /\ UNCHANGED <<tables, started, stop, signals, scanning, histories, stops>>

\* One of the three raises and the window is recorded as failed.  A store that
\* raises after it rewrote its table has stored the entries.
WindowFails ==
    /\ worker = "windows" /\ failures < MaxFailures /\ failures' = failures + 1
    /\ failed' = [failed EXCEPT ![job.thread] = @ \cup Window]
    /\ \/ UNCHANGED remembered
       \/ remembered' = [remembered EXCEPT ![job.thread] = @ \cup Window]
    /\ NextWindow
    /\ UNCHANGED <<facts, stored, cursor, started, stop, signals, scanning, histories, stops>>

\* FAULT: the cursor as it is now, with what arrived during the extraction.
SavedNow(t) == [k \in Kinds |-> Len(facts[t][k])]

\* The cursor comes from the delta.
Saved(t) == job.next

\* FAULT: the thread is clean once its cursor is saved.
SaveCursorClean ==
    /\ worker = "cursor" /\ dirty' = dirty \ {job.thread}
    /\ cursor' = [cursor EXCEPT ![job.thread] = Saved(job.thread)]
    /\ worker' = "top" /\ job' = NoJob
    /\ UNCHANGED <<facts, stored, remembered, failed, started, stop, wake, scanning, histories, bounds>>

SaveCursor ==
    /\ worker = "cursor"
    /\ cursor' = [cursor EXCEPT ![job.thread] = Saved(job.thread)]
    /\ worker' = "top" /\ job' = NoJob
    /\ UNCHANGED <<facts, stored, remembered, failed, started, stop, signals, scanning, histories, bounds>>

\* Reading the cursor or the delta raises, the failed window cannot be
\* recorded, or the cursor cannot be saved: the thread is given up until the
\* next signal.
GiveUp ==
    /\ worker \in {"load", "windows", "cursor"}
    /\ failures < MaxFailures /\ failures' = failures + 1
    /\ missed' = missed \cup {job.thread}
    /\ worker' = "top" /\ job' = NoJob
    /\ UNCHANGED <<tables, started, stop, signals, scanning, left, stops>>

-----------------------------------------------------------------------------
(* _startup_reconcile.                                                       *)

ScanList ==
    /\ scan = "list" /\ ~ Stopping
    /\ listed' = stored /\ scan' = "next"
    /\ UNCHANGED <<tables, started, stop, signals, work, look, histories, bounds>>

\* The cursor of the next thread is read, in a worker thread ...
ScanRead(t) ==
    /\ scan = "next" /\ ~ Stopping /\ t \in listed
    /\ look' = [thread |-> t, cursor |-> cursor[t]] /\ scan' = "check"
    /\ listed' = listed \ {t}
    /\ UNCHANGED <<tables, started, stop, signals, work, histories, bounds>>

\* ... and compared with the tables when the read returns, by when the worker
\* may have moved it.
ScanCheck ==
    /\ scan = "check" /\ scan' = "next" /\ look' = NoLook
    /\ IF Past(look.thread, look.cursor) # {}
       THEN MarkDirty(look.thread)
       ELSE UNCHANGED <<signals, histories>>
    /\ UNCHANGED <<tables, started, stop, work, listed, bounds>>

\* Listing the threads raises, or what is done for one of them.
ScanFails ==
    /\ failures < MaxFailures /\ failures' = failures + 1
    /\ \/ scan = "list" /\ scan' = "off" /\ missed' = missed \cup left /\ left' = {}
       \/ scan = "check" /\ scan' = "next"
          /\ missed' = missed \cup {look.thread} /\ left' = left \ {look.thread}
    /\ look' = NoLook
    /\ UNCHANGED <<tables, started, stop, signals, work, listed, stops>>

ScanEnds ==
    /\ scan = "next" /\ (Stopping \/ listed = {})
    /\ scan' = IF Stopping THEN "off" ELSE "done"
    /\ UNCHANGED <<tables, started, stop, signals, work, listed, look, histories, bounds>>

-----------------------------------------------------------------------------
Worker ==
    \/ WorkerTakes \/ WorkerSleeps \/ WorkerWakes \/ WorkerEnds
    \/ Load \/ WindowStored \/ WindowFails \/ SaveCursor \/ GiveUp

Scan == ScanList \/ (\E t \in Threads : ScanRead(t)) \/ ScanCheck \/ ScanFails \/ ScanEnds

Next ==
    \/ \E t \in Threads, k \in Kinds, at \in 1..MaxTime : SaveFact(t, k, at)
    \/ \E t \in Threads : SaveThread(t)
    \/ Start \/ StopBegin \/ StopWake \/ StopEnd \/ Crash
    \/ Worker \/ Scan

Spec == Init /\ [][Next]_vars

\* The event loop runs every task that can run, and the models answer or time
\* out.
FairSpec == Spec /\ WF_vars(Worker) /\ WF_vars(Scan) /\ WF_vars(StopWake \/ StopEnd)

-----------------------------------------------------------------------------
(* Properties.                                                               *)

\* The facts a cursor has passed: nothing looks at them again.
Passed(t) == {f \in Kinds \X (1..MaxFacts) : f[2] <= cursor[t][f[1]]}

\* The cursor that the worker will leave behind if nothing goes wrong.
Aim(t) ==
    IF worker \in {"windows", "cursor"} /\ job.thread = t THEN job.next ELSE cursor[t]

\* save_cursor after ingest_thread_delta: no fact is passed over, whatever is
\* saved while the models work and wherever the process dies; each one became
\* entries or is in a failed window's record.
NothingSkipped == \A t \in Threads : Passed(t) \subseteq remembered[t] \cup failed[t]

\* mark_dirty against the worker: a fact that no attempt has covered has a
\* signal, is about to be read, or its thread's last attempt failed or was cut
\* short by the end of the process.
NoLostSignal ==
    started => \A t \in Threads :
        Past(t, Aim(t)) # {} =>
            t \in dirty \cup left \cup missed \/ (worker = "load" /\ job.thread = t)

\* clear() and wait() of _worker_loop: the worker never sleeps over a signal
\* or over stop().
AwakeForWork == worker = "asleep" /\ (dirty # {} \/ stop = "waiting") => wake

\* save_cursor: neither cursor ever goes back.
CursorsAdvance ==
    [][\A t \in Threads, k \in Kinds : cursor'[t][k] >= cursor[t][k]]_vars

(* _startup_reconcile: a scan that ends found every thread that had a row  *)
(* when it began and was left behind by the former process.                 *)
StoredThreadsFound ==
    scan = "done" => \A t \in left \cap stored : ~ Behind(t)

\* _startup_reconcile and _worker_loop: the scan finds what the former process
\* left behind, and once no more facts come every thread with a signal is
\* brought up to date or has failed.
Drains ==
    /\ []StoredThreadsFound
    /\ <>[](started => dirty = {} /\ \A t \in Threads : Behind(t) => t \in left \cup missed)

=============================================================================
