--------------------------- MODULE ThreadPipeline ---------------------------
(***************************************************************************)
(* Conversation threads under concurrent runs.  handle_event opens one run *)
(* per event; the runs of a thread append to the same ThreadState, compact *)
(* it with a summary that may take an LLM call, and write the delivered    *)
(* replies back.  StoreBackedThreadManager caches the ThreadState objects  *)
(* and mirrors them in the threads table.                                  *)
(*                                                                         *)
(* A step is what the loop does between two suspension points.  Hooks,     *)
(* workspace preparation, the summarizer, the agent and the gateway        *)
(* suspend; the thread locks and the stores do not.  Writing the thread    *)
(* and then the final run status are two steps, with only a crash allowed  *)
(* between them.                                                           *)
(*                                                                         *)
(* FAULT marks faulty variants of the definition that follows.             *)
(***************************************************************************)
EXTENDS Integers, Sequences, FiniteSets

CONSTANTS
    Threads,
    Runs,        \* events that open a run
    Notes,       \* notifications posted by the control plane
    ThreadOf,    \* run or notification -> thread
    Stamp,       \* run -> event.timestamp, notification -> time.time(), in seconds
    RecordOnly,  \* runs routed with run_mode "record_only"
    Summarizes,  \* runs whose agent compacts by "summarize", not "truncate"
    Objects,     \* ThreadState objects (bound: how many are alive at a time)
    None

Writers == Runs \cup Notes

ASSUME PipelineAssumption ==
    /\ ThreadOf \in [Writers -> Threads] /\ Stamp \in [Writers -> Nat]
    /\ RecordOnly \subseteq Runs /\ Summarizes \subseteq Runs
    /\ Runs \cap Notes = {}
    /\ None \notin Objects

Messages == [role : {"user", "assistant"}, from : Writers]
User(r) == [role |-> "user", from |-> r]
Reply(w) == [role |-> "assistant", from |-> w]

\* A summary is the set of messages it speaks about; "" is {}.
ThreadStates == [msgs : Seq(Messages), summary : SUBSET Messages, last : Nat]
Thread(m, s, l) == [msgs |-> m, summary |-> s, last |-> l]
NewThread == Thread(<<>>, {}, 0)

ASSUME NoneAssumption == None \notin ThreadStates

VARIABLES
    obj,      \* the ThreadState objects
    cache,    \* StoreBackedThreadManager._threads
    store,    \* table threads
    pc,       \* where each run is
    held,     \* ctx.thread of each run
    snap,     \* its compaction_snapshot
    kept,     \* compressed_messages of its compaction
    context,  \* history: effective_compacted_messages given to the agent
    sent,     \* history: threads that got a reply of the run
    notes,    \* notifications already posted
    dropped,  \* history: messages of a thread an applied compaction dropped
    torn      \* history: threads listed while a run of theirs was active, or
              \* compacted over messages the summarizer had not seen

data == <<obj, cache, store, dropped>>
vars == <<data, pc, held, snap, kept, context, sent, notes, torn>>

Suspended == {"preparing", "compacting", "agent", "crashed"}
Marking == {"finishing", "failing"}
Ended == {"completed", "failed", "interrupted"}
Active(r) == pc[r] \in Suspended \cup Marking

TypeOK ==
    /\ obj \in [Objects -> ThreadStates]
    /\ cache \in [Threads -> Objects \cup {None}]
    /\ store \in [Threads -> ThreadStates \cup {None}]
    /\ pc \in [Runs -> {"idle"} \cup Suspended \cup Marking \cup Ended]
    /\ held \in [Runs -> Objects \cup {None}]
    /\ \A r \in Runs : Active(r) => held[r] \in Objects
    /\ snap \in [Runs -> ThreadStates]
    /\ kept \in [Runs -> Seq(Messages)] /\ context \in [Runs -> Seq(Messages)]
    /\ sent \in [Runs -> SUBSET Threads] /\ notes \subseteq Notes
    /\ dropped \in [Threads -> SUBSET Messages] /\ torn \subseteq Threads

Elements(s) == {s[i] : i \in DOMAIN s}

\* Nobody else runs between a run's last save and its final status.
LoopFree == \A r \in Runs : pc[r] \notin Marking

-----------------------------------------------------------------------------
(* StoreBackedThreadManager.                                                *)

Free == {o \in Objects : (\A t \in Threads : cache[t] # o) /\ (\A r \in Runs : held[r] # o)}

\* New objects for the threads in T.
Allocations(T) == {f \in [T -> Free] : \A s, t \in T : f[s] = f[t] => s = t}

StateFromRecord(t) == IF store[t] = None THEN NewThread ELSE store[t]

Loaded(t, o) == IF cache[t] # None THEN obj[o] ELSE StateFromRecord(t)

Raised(th, stamp) == Thread(th.msgs, th.summary, IF stamp > th.last THEN stamp ELSE th.last)

\* get_or_create(t) returns o: the cached object, or a new one.
GetOrCreate(t, o) == o = cache[t] \/ (cache[t] = None /\ o \in Free)

-----------------------------------------------------------------------------
(* ContextCompactor.                                                        *)

\* A turn is a user message and what follows it up to the next one.
TurnAt(s, i) == Cardinality({j \in 1..i : s[j].role = "user"})

\* FAULT: the newest turn may be dropped as well.
AnyTurns(s) == SUBSET {TurnAt(s, i) : i \in DOMAIN s}

\* _fit_turns_to_budget: which turns fit is up to the budget, but the newest
\* one is always kept.
FittingTurns(s) ==
    {K \in SUBSET {TurnAt(s, i) : i \in DOMAIN s} : TurnAt(s, Len(s)) \in K}

\* What is left of s at the positions J, in order.
At(s, J) ==
    [k \in 1..Cardinality(J) |-> s[CHOOSE j \in J : Cardinality({i \in J : i <= j}) = k]]

\* What compaction may leave of s, s itself included (always sequences of
\* messages; said for the proofs).
Compactions(s) ==
    {u \in {At(s, {j \in DOMAIN s : TurnAt(s, j) \in K}) : K \in FittingTurns(s)} : u \in Seq(Messages)}

\* FAULT: the time of the last event is not compared.
MatchesNoTime(r) ==
    /\ Len(obj[held[r]].msgs) = Len(snap[r].msgs)
    /\ obj[held[r]].summary = snap[r].summary

\* The three checks of apply_to_thread.
Matches(r) ==
    /\ Len(obj[held[r]].msgs) = Len(snap[r].msgs)
    /\ obj[held[r]].last = snap[r].last
    /\ obj[held[r]].summary = snap[r].summary

-----------------------------------------------------------------------------
Init ==
    /\ obj = [o \in Objects |-> NewThread]
    /\ cache = [t \in Threads |-> None] /\ store = [t \in Threads |-> None]
    /\ pc = [r \in Runs |-> "idle"] /\ held = [r \in Runs |-> None]
    /\ snap = [r \in Runs |-> NewThread]
    /\ kept = [r \in Runs |-> <<>>] /\ context = [r \in Runs |-> <<>>]
    /\ sent = [r \in Runs |-> {}] /\ notes = {}
    /\ dropped = [t \in Threads |-> {}] /\ torn = {}

\* handle_event up to the first hook.  The run fails at once when its agent
\* or model cannot be resolved or the event cannot be saved.
HandleEvent(r) ==
    /\ LoopFree /\ pc[r] = "idle"
    /\ \E o \in Objects, next \in {"preparing", "failed"} :
        /\ GetOrCreate(ThreadOf[r], o)
        /\ obj' = [obj EXCEPT ![o] = Raised(Loaded(ThreadOf[r], o), Stamp[r])]
        /\ cache' = [cache EXCEPT ![ThreadOf[r]] = o]
        /\ held' = [held EXCEPT ![r] = IF next = "failed" THEN None ELSE o]
        /\ pc' = [pc EXCEPT ![r] = next]
    /\ UNCHANGED <<store, dropped, snap, kept, context, sent, notes, torn>>

Appended(r) == Append(obj[held[r]].msgs, User(r))

\* thread_manager.save(ctx.thread), the object then being th.
Save(r, th) ==
    /\ cache' = [cache EXCEPT ![ThreadOf[r]] = held[r]]
    /\ store' = [store EXCEPT ![ThreadOf[r]] = th]

RecordMessage(r) ==
    /\ LoopFree /\ pc[r] = "preparing" /\ r \in RecordOnly
    /\ LET th == Thread(Appended(r), obj[held[r]].summary, Stamp[r]) IN
        /\ obj' = [obj EXCEPT ![held[r]] = th]
        /\ Save(r, th)
    /\ pc' = [pc EXCEPT ![r] = "finishing"]
    /\ UNCHANGED <<dropped, held, snap, kept, context, sent, notes, torn>>

\* Compaction without a summarizer call: nothing suspends, so the thread is
\* still the snapshot and the result is applied.
CompactNow(r) ==
    /\ LoopFree /\ pc[r] = "preparing" /\ r \notin RecordOnly
    /\ \E u \in Compactions(Appended(r)) :
        /\ r \in Summarizes => u = Appended(r)
        /\ obj' = [obj EXCEPT ![held[r]] = Thread(u, obj[held[r]].summary, Stamp[r])]
        /\ context' = [context EXCEPT ![r] = u]
        /\ dropped' = [dropped EXCEPT ![ThreadOf[r]] = @ \cup (Elements(Appended(r)) \ Elements(u))]
    /\ pc' = [pc EXCEPT ![r] = "agent"]
    /\ UNCHANGED <<cache, store, held, snap, kept, sent, notes, torn>>

\* The snapshot is over budget: the summarizer's model is called.
CompactBegin(r) ==
    /\ LoopFree /\ pc[r] = "preparing" /\ r \in Summarizes \ RecordOnly
    /\ \E u \in Compactions(Appended(r)) :
        /\ u # Appended(r)
        /\ kept' = [kept EXCEPT ![r] = u]
    /\ LET th == Thread(Appended(r), obj[held[r]].summary, Stamp[r]) IN
        /\ obj' = [obj EXCEPT ![held[r]] = th]
        /\ snap' = [snap EXCEPT ![r] = th]
    /\ pc' = [pc EXCEPT ![r] = "compacting"]
    /\ UNCHANGED <<cache, store, dropped, held, context, sent, notes, torn>>

Lost(r) == Elements(snap[r].msgs) \ Elements(kept[r])

\* The summarizer returns, with an empty text if every model failed; the run
\* uses the result even if the thread has changed and does not take it.
CompactEnd(r) ==
    /\ LoopFree /\ pc[r] = "compacting"
    /\ \E s \in {snap[r].summary, snap[r].summary \cup Lost(r)} :
        obj' = IF Matches(r)
               THEN [obj EXCEPT ![held[r]] = Thread(kept[r], s, obj[held[r]].last)]
               ELSE obj
    /\ dropped' = IF Matches(r)
                  THEN [dropped EXCEPT ![ThreadOf[r]] = @ \cup Lost(r)] ELSE dropped
    /\ torn' = torn \cup {t \in {ThreadOf[r]} : Matches(r) /\ obj[held[r]].msgs # snap[r].msgs}
    /\ context' = [context EXCEPT ![r] = kept[r]]
    /\ pc' = [pc EXCEPT ![r] = "agent"]
    /\ UNCHANGED <<cache, store, held, snap, kept, sent, notes>>

\* ctx.thread after the reply to the run's own thread, if there is one.
OwnThread(r, D) ==
    IF ThreadOf[r] \in D
    THEN Thread(Append(obj[held[r]].msgs, Reply(r)), obj[held[r]].summary, Stamp[r])
    ELSE obj[held[r]]

Destination(t, new) == IF cache[t] = None THEN new[t] ELSE cache[t]

OtherThread(r, t) ==
    LET old == IF cache[t] = None THEN StateFromRecord(t) ELSE obj[cache[t]]
    IN Thread(Append(old.msgs, Reply(r)), old.summary, Stamp[r])

\* _update_thread_after_send, for replies to the threads in D.
DeliverTo(r, D, new) ==
    /\ obj' = [o \in Objects |->
          IF o = held[r] THEN OwnThread(r, D)
          ELSE IF \E t \in D \ {ThreadOf[r]} : Destination(t, new) = o
          THEN OtherThread(r, CHOOSE t \in D \ {ThreadOf[r]} : Destination(t, new) = o)
          ELSE obj[o]]
    /\ cache' = [t \in Threads |->
          IF t = ThreadOf[r] THEN held[r] ELSE IF t \in D THEN Destination(t, new) ELSE cache[t]]
    /\ store' = [t \in Threads |->
          IF t = ThreadOf[r] THEN OwnThread(r, D) ELSE IF t \in D THEN OtherThread(r, t) ELSE store[t]]
    /\ sent' = [sent EXCEPT ![r] = D]

\* The agent has answered and the outbox has delivered to the threads in D:
\* none, the run's own, others.
Deliver(r) ==
    /\ LoopFree /\ pc[r] = "agent"
    /\ \E D \in SUBSET Threads :
       \E new \in Allocations({t \in D \ {ThreadOf[r]} : cache[t] = None}) : DeliverTo(r, D, new)
    /\ pc' = [pc EXCEPT ![r] = "finishing"]
    /\ UNCHANGED <<dropped, held, snap, kept, context, notes, torn>>

\* An exception in a hook, in preparation, compaction, the agent or the outbox.
Raise(r) ==
    /\ LoopFree /\ pc[r] \in {"preparing", "compacting", "agent"}
    /\ pc' = [pc EXCEPT ![r] = "crashed"]
    /\ UNCHANGED <<data, held, snap, kept, context, sent, notes, torn>>

\* FAULT: the thread is not saved after an exception.
SaveNothing(r) ==
    /\ LoopFree /\ pc[r] = "crashed"
    /\ pc' = [pc EXCEPT ![r] = "failing"]
    /\ UNCHANGED <<data, held, snap, kept, context, sent, notes, torn>>

\* The error hooks are over.
SaveThreadSafely(r) ==
    /\ LoopFree /\ pc[r] = "crashed"
    /\ Save(r, obj[held[r]])
    /\ pc' = [pc EXCEPT ![r] = "failing"]
    /\ UNCHANGED <<obj, dropped, held, snap, kept, context, sent, notes, torn>>

\* mark_completed and the other ends of _finish_run, or mark_failed.
FinishRun(r) ==
    /\ pc[r] \in Marking
    /\ pc' = [pc EXCEPT ![r] = IF pc[r] = "finishing" THEN "completed" ELSE "failed"]
    /\ held' = [held EXCEPT ![r] = None]
    /\ UNCHANGED <<data, snap, kept, context, sent, notes, torn>>

\* _append_sent_message_to_thread
Notify(n) ==
    /\ LoopFree /\ n \notin notes
    /\ notes' = notes \cup {n}
    /\ \E o \in Objects :
        /\ GetOrCreate(ThreadOf[n], o)
        /\ LET old == Loaded(ThreadOf[n], o)
               th == Thread(Append(old.msgs, Reply(n)), old.summary, Stamp[n]) IN
            /\ obj' = [obj EXCEPT ![o] = th]
            /\ store' = [store EXCEPT ![ThreadOf[n]] = th]
        /\ cache' = [cache EXCEPT ![ThreadOf[n]] = o]
    /\ UNCHANGED <<dropped, pc, held, snap, kept, context, sent, torn>>

\* list_threads rebuilds every stored ThreadState and puts it in the cache.
ListThreads ==
    /\ LoopFree
    /\ \E new \in Allocations({t \in Threads : store[t] # None}) :
        /\ cache' = [t \in Threads |-> IF store[t] # None THEN new[t] ELSE cache[t]]
        /\ obj' = [o \in Objects |->
              IF \E t \in DOMAIN new : new[t] = o
              THEN store[CHOOSE t \in DOMAIN new : new[t] = o] ELSE obj[o]]
        /\ torn' = torn \cup {t \in DOMAIN new : \E r \in Runs : ThreadOf[r] = t /\ Active(r)}
    /\ UNCHANGED <<store, dropped, pc, held, snap, kept, context, sent, notes>>

\* The process dies; recover_active_runs marks what was running interrupted.
Crash ==
    /\ cache' = [t \in Threads |-> None]
    /\ pc' = [r \in Runs |-> IF Active(r) THEN "interrupted" ELSE pc[r]]
    /\ held' = [r \in Runs |-> None]
    /\ UNCHANGED <<obj, store, dropped, snap, kept, context, sent, notes, torn>>

Next ==
    \/ \E r \in Runs :
        \/ HandleEvent(r) \/ RecordMessage(r) \/ CompactNow(r) \/ CompactBegin(r)
        \/ CompactEnd(r) \/ Deliver(r) \/ Raise(r) \/ SaveThreadSafely(r) \/ FinishRun(r)
    \/ \E n \in Notes : Notify(n)
    \/ ListThreads \/ Crash

Spec == Init /\ [][Next]_vars

-----------------------------------------------------------------------------
(* Properties.                                                              *)

\* The events and notifications so far, and those of the second of run r.
Begun == {r \in Runs : pc[r] # "idle"} \cup notes
Shared(r) == \E w \in Begun \ {r} : Stamp[w] = Stamp[r]

\* apply_to_thread compares a count, a time in seconds and a summary: when it
\* accepts, the thread holds exactly the messages of the snapshot, so that the
\* compressed list overwrites no concurrent write, unless another event or
\* notification has come in the same second.
NoStaleOverwrite ==
    \A r \in Runs : pc[r] = "compacting" /\ Matches(r) =>
        obj[held[r]].msgs = snap[r].msgs \/ Shared(r)

ExtendsSnapshot(r) ==
    /\ Len(snap[r].msgs) <= Len(obj[held[r]].msgs)
    /\ \A i \in 1..Len(snap[r].msgs) : obj[held[r]].msgs[i] = snap[r].msgs[i]

\* Why the time is the check that matters: as long as the thread's last event
\* is the one a compacting run has appended, no run of another second has
\* touched the thread, which therefore extends the snapshot of the run.
SnapshotIsPrefix ==
    \A r \in Runs : pc[r] = "compacting" =>
        /\ snap[r].last = Stamp[r]
        /\ obj[held[r]].last = Stamp[r] => ExtendsSnapshot(r) \/ Shared(r)

\* Message m of thread t survives a crash: it is in the stored thread, unless an
\* applied compaction saw and dropped it.
Survives(m, t) == m \in Elements(StateFromRecord(t).msgs) \cup dropped[t]

\* Once a run is marked completed, its user message and every reply it
\* delivered survive a crash.
DurableWhenDone ==
    \A r \in Runs : pc[r] = "completed" =>
        Survives(User(r), ThreadOf[r]) /\ \A t \in sent[r] : Survives(Reply(r), t)

(* A thread no run is working on has nothing unsaved, whichever way its runs *)
(* ended. *)
Saved(t) ==
    (cache[t] # None /\ \A r \in Runs : ThreadOf[r] = t => ~Active(r))
        => obj[cache[t]].msgs = StateFromRecord(t).msgs

\* Every thread that was never listed during a run of its own nor compacted over
\* what the summarizer had not seen: the table has what completed runs have said
\* to it, and all there is once its runs are over, whatever becomes of other
\* threads.
NothingUnsaved ==
    /\ \A r \in Runs : pc[r] = "completed" =>
          /\ ThreadOf[r] \notin torn => Survives(User(r), ThreadOf[r])
          /\ \A t \in sent[r] \ torn : Survives(Reply(r), t)
    /\ \A t \in Threads \ torn : Saved(t)

\* Whatever the concurrent runs do to the thread, the history given to the
\* agent contains the message it is to answer.
OwnMessageInContext ==
    \A r \in Runs : pc[r] = "agent" => User(r) \in Elements(context[r])
=============================================================================
