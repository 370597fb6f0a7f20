--------------------------- MODULE SchedulerProofs ---------------------------
(* Proofs about Scheduler, for every set of tasks, schedules and entries.   *)
EXTENDS Scheduler, TLAPS

-----------------------------------------------------------------------------
(* Fire times.                                                              *)

\* The helpers that compute a fire time return a number (a one-shot's own
\* time, or a later time for a recurring task).
LEMMA FireTimes ==
    ASSUME TypeOK, NEW t \in Tasks
    PROVE  /\ InitialFire(t) \in Nat /\ ResumedFire(t) \in Nat
           /\ ~OneShot(t) => NextAfter(t) \in Nat /\ NextAfter(t) > now
           /\ OneShot(t) => Schedule[t].at \in Nat /\ InitialFire(t) = Schedule[t].at
           /\ NextFire(t) \in Nat \cup {None}
           /\ (NextFire(t) = None) <=> OneShot(t)
<1>1. Schedule[t] \in ScheduleTypes
  BY ScheduleAssumption
<1>2. now \in Nat /\ now \in 0..MaxTime
  BY ScheduleAssumption DEF TypeOK
<1>3. CASE OneShot(t)
  <2>1. Schedule[t].at \in Nat
    BY <1>1, <1>3 DEF ScheduleTypes, OneShot
  <2> QED
    BY <2>1, <1>3 DEF InitialFire, ResumedFire, NextFire, OneShot
<1>4. CASE ~OneShot(t)
  <2>1. Schedule[t].sec \in Nat \ {0} /\ Schedule[t].kind \in {"interval", "cron"}
    BY <1>1, <1>4 DEF ScheduleTypes, OneShot
  <2>2. NextAfter(t) \in Nat /\ NextAfter(t) > now
    BY <2>1, <1>2, CronAssumption DEF NextAfter
  <2> QED
    BY <2>2, <1>4, ScheduleAssumption DEF InitialFire, ResumedFire, NextFire, OneShot
<1> QED
  BY <1>3, <1>4

\* What start() recovers from a row is a fire time, or none if the row ends up
\* disabled.
LEMMA RecoveryTimes ==
    ASSUME TypeOK, NEW t \in Tasks
    PROVE  /\ RecoveredEnabled(t) \in BOOLEAN
           /\ RecoveredNext(t) \in Nat \cup {None}
           /\ RecoveredEnabled(t) => RecoveredNext(t) \in Nat
           /\ ~RecoveredEnabled(t) => RecoveredNext(t) = None
           /\ RecoveredRow(t) \in [enabled : BOOLEAN, next : Nat \cup {None}]
<1>1. row[t] \in [enabled : BOOLEAN, next : Nat \cup {None}] /\ now \in Nat
  BY ScheduleAssumption DEF TypeOK
<1>2. RecoveredEnabled(t) \in BOOLEAN
  BY <1>1 DEF RecoveredEnabled
<1>3. Misfired(t) /\ RecoveredEnabled(t) /\ t \notin FireOnce => ~OneShot(t)
  BY DEF RecoveredEnabled
<1>4. RecoveredEnabled(t) => RecoveredNext(t) \in Nat
  BY <1>1, <1>3, FireTimes DEF RecoveredNext
<1>5. ~RecoveredEnabled(t) => RecoveredNext(t) = None
  BY DEF RecoveredNext
<1> QED
  BY <1>1, <1>2, <1>4, <1>5 DEF RecoveredRow

-----------------------------------------------------------------------------
(* Type correctness.                                                        *)

\* The scheduler starts in a well-typed state.
LEMMA InitTypes == Init => TypeOK
<1> SUFFICES ASSUME Init PROVE TypeOK
  OBVIOUS
<1>1. rec \in [Tasks -> [enabled : BOOLEAN, next : Nat \cup {None},
                         entry : Entries \cup {None}, callback : BOOLEAN]]
      /\ row \in [Tasks -> [enabled : BOOLEAN, next : Nat \cup {None}]]
  BY DEF Init, Blank, BlankRow
<1>2. entry \in [Entries -> [task : Tasks \cup {None}, at : Nat, cancelled : BOOLEAN]]
  BY DEF Init, BlankEntry
<1>3. /\ tasks \subseteq Tasks /\ rows \subseteq Persist /\ heap \subseteq Entries /\ failed \subseteq Tasks
      /\ now \in 0..MaxTime
  BY ScheduleAssumption DEF Init
<1>6. started \in BOOLEAN /\ wake \in BOOLEAN
  BY DEF Init
<1>4. /\ stop \in {"no", "worker", "callbacks", "raised"}
      /\ worker \in {"none", "waiting", "running", "dead"}
      /\ deadline \in Nat \cup {None}
  BY DEF Init
<1>5. callbacks \in [Tasks -> Nat] /\ fires \in [Tasks -> Nat]
  BY DEF Init
<1> QED
  BY <1>1, <1>2, <1>3, <1>4, <1>5, <1>6 DEF TypeOK

\* Every step of the scheduler, the worker, the clock or a crash keeps the
\* types of the records, the heap and the table.
LEMMA TypeStep == TypeOK /\ [Next]_vars => TypeOK'
<1> SUFFICES ASSUME TypeOK, [Next]_vars PROVE TypeOK'
  OBVIOUS
<1> USE ScheduleAssumption
<1>c. ASSUME NEW S PROVE Cancelled(S) \in [Entries -> [task : Tasks \cup {None}, at : Nat, cancelled : BOOLEAN]]
  BY DEF Cancelled, TypeOK
<1>f. Free \subseteq Entries
  BY DEF Free
<1>b. Blank \in [enabled : BOOLEAN, next : Nat \cup {None}, entry : Entries \cup {None}, callback : BOOLEAN]
      /\ BlankRow \in [enabled : BOOLEAN, next : Nat \cup {None}]
      /\ BlankEntry \in [task : Tasks \cup {None}, at : Nat, cancelled : BOOLEAN]
  BY DEF Blank, BlankRow, BlankEntry
<1>1. ASSUME NEW t \in Tasks, Register(t) PROVE TypeOK'
  <2>1. PICK e \in Free, ok \in StoreOutcomes(t) : RegisterWith(t, e, ok)
    BY <1>1 DEF Register
  <2>2. ok \in BOOLEAN /\ RegisteredFire(t) \in Nat /\ e \in Entries
    BY <1>f, FireTimes DEF StoreOutcomes, RegisteredFire, TypeOK
  <2>3. entry' \in [Entries -> [task : Tasks \cup {None}, at : Nat, cancelled : BOOLEAN]]
    BY <2>1, <2>2, <1>c DEF RegisterWith
  <2>4. rec' \in [Tasks -> [enabled : BOOLEAN, next : Nat \cup {None},
                            entry : Entries \cup {None}, callback : BOOLEAN]]
    BY <2>1, <2>2 DEF RegisterWith, TypeOK
  <2>5. wake' \in BOOLEAN
    BY <2>1, <2>2 DEF RegisterWith, TypeOK
  <2>6. row' \in [Tasks -> [enabled : BOOLEAN, next : Nat \cup {None}]] /\ fires' \in [Tasks -> Nat]
    BY <2>1, <2>2 DEF RegisterWith, TypeOK
  <2>7. tasks' \subseteq Tasks /\ rows' \subseteq Persist /\ heap' \subseteq Entries /\ failed' \subseteq Tasks
    BY <2>1, <2>2 DEF RegisterWith, TypeOK
  <2> QED
    BY <2>1, <2>3, <2>4, <2>5, <2>6, <2>7 DEF RegisterWith, TypeOK
<1>2. ASSUME NEW t \in Tasks, Cancel(t) PROVE TypeOK'
  BY <1>2, <1>b, <1>c DEF Cancel, StoreOutcomes, TypeOK
<1>3. ASSUME NEW t \in Tasks, Disable(t) PROVE TypeOK'
  BY <1>3, <1>b, <1>c DEF Disable, Disarmed, Updated, StoreOutcomes, TypeOK
<1>4. ASSUME NEW t \in Tasks, Enable(t) PROVE TypeOK'
  BY <1>4, <1>f, FireTimes DEF Enable, Armed, Updated, Pushed, StoreOutcomes, TypeOK
<1>d. ASSUME NEW gone, NEW deleted, NEW raised \in SUBSET Tasks, Unregistered(gone, deleted, raised)
      PROVE  TypeOK'
  <2>1. entry' \in [Entries -> [task : Tasks \cup {None}, at : Nat, cancelled : BOOLEAN]]
    <3>1. PICK S : entry' = Cancelled(S)
      BY <1>d DEF Unregistered
    <3> QED
      BY <3>1, <1>c
  <2>2. rec' \in [Tasks -> [enabled : BOOLEAN, next : Nat \cup {None},
                            entry : Entries \cup {None}, callback : BOOLEAN]]
    <3>1. rec' = [x \in Tasks |-> IF x \in tasks' THEN rec[x] ELSE Blank]
      BY <1>d DEF Unregistered
    <3> QED
      BY <3>1, <1>b DEF TypeOK
  <2>3. row' \in [Tasks -> [enabled : BOOLEAN, next : Nat \cup {None}]]
    <3>1. row' = [x \in Tasks |-> IF x \in rows' THEN row[x] ELSE BlankRow]
      BY <1>d DEF Unregistered
    <3> QED
      BY <3>1, <1>b DEF TypeOK
  <2>4. wake' \in BOOLEAN
    BY <1>d DEF Unregistered
  <2> QED
    BY <1>d, <2>1, <2>2, <2>3, <2>4 DEF Unregistered, TypeOK
<1>5. ASSUME NEW o, UnregisterByOwner(o) PROVE TypeOK'
  <2>1. PICK gone, deleted : \E raised \in SUBSET Tasks : Unregistered(gone, deleted, raised)
    <3> DEFINE mine == tasks \cap Owned(o)
    <3>1. mine \subseteq Tasks
      BY DEF TypeOK
    <3>2. CASE Unregistered(Owned(o), Owned(o), {})
      BY <3>2
    <3>3. CASE Unregistered(mine, mine, {})
      BY <3>3
    <3>4. ASSUME NEW t \in mine, NEW Done \in SUBSET mine, Unregistered(Done \cup {t}, Done, {t})
          PROVE  \E gone, deleted : \E raised \in SUBSET Tasks : Unregistered(gone, deleted, raised)
      <4>1. {t} \in SUBSET Tasks
        BY <3>1, <3>4
      <4> QED
        BY <3>4, <4>1
    <3> QED
      BY <1>5, <3>2, <3>3, <3>4 DEF UnregisterByOwner
  <2> QED
    BY <1>d, <2>1
<1>r. ASSUME NEW R \in SUBSET Recovered, NEW bound \in BOOLEAN, Recover(R, bound),
             started' \in BOOLEAN, worker' \in {"none", "waiting", "running", "dead"}
      PROVE  TypeOK'
  <2> DEFINE queued == {t \in R : RecoveredEnabled(t)}
  <2>1. PICK f \in [queued -> Free] :
        /\ tasks' = tasks \cup R
        /\ rec' = [t \in Tasks |->
              IF t \in R
              THEN [enabled |-> RecoveredEnabled(t), next |-> RecoveredNext(t),
                    entry |-> IF t \in queued THEN f[t] ELSE None, callback |-> bound /\ t \in Rebindable]
              ELSE [enabled |-> rec[t].enabled, next |-> rec[t].next, entry |-> rec[t].entry,
                    callback |-> rec[t].callback \/ (bound /\ t \in tasks \cap Rebindable)]]
        /\ entry' = [e \in Entries |->
              IF \E t \in queued : f[t] = e
              THEN LET t == CHOOSE x \in queued : f[x] = e
                   IN [task |-> t, at |-> RecoveredNext(t), cancelled |-> FALSE]
              ELSE entry[e]]
        /\ heap' = heap \cup {f[t] : t \in queued}
    BY <1>r DEF Recover
  <2>2. R \subseteq Tasks /\ queued \subseteq Tasks
    BY DEF Recovered, TypeOK
  <2>3. \A t \in queued : f[t] \in Entries /\ RecoveredNext(t) \in Nat
    BY <2>2, <1>f, RecoveryTimes
  <2>4. entry' \in [Entries -> [task : Tasks \cup {None}, at : Nat, cancelled : BOOLEAN]]
    <3> SUFFICES ASSUME NEW e \in Entries
                 PROVE entry'[e] \in [task : Tasks \cup {None}, at : Nat, cancelled : BOOLEAN]
      BY <2>1
    <3>1. CASE \E t \in queued : f[t] = e
      <4> DEFINE t == CHOOSE x \in queued : f[x] = e
      <4>1. t \in queued
        BY <3>1
      <4>2. entry'[e] = [task |-> t, at |-> RecoveredNext(t), cancelled |-> FALSE]
        BY <2>1, <3>1
      <4> HIDE DEF t
      <4> QED
        BY <4>1, <4>2, <2>2, <2>3
    <3>2. CASE ~\E t \in queued : f[t] = e
      BY <2>1, <3>2 DEF TypeOK
    <3> QED
      BY <3>1, <3>2
  <2>5. rec' \in [Tasks -> [enabled : BOOLEAN, next : Nat \cup {None},
                            entry : Entries \cup {None}, callback : BOOLEAN]]
    BY <2>1, <2>2, <2>3, RecoveryTimes DEF TypeOK
  <2>6. row' \in [Tasks -> [enabled : BOOLEAN, next : Nat \cup {None}]]
    BY <1>r, RecoveryTimes DEF Recover, TypeOK
  <2>7. heap' \subseteq Entries /\ tasks' \subseteq Tasks
    BY <2>1, <2>2, <2>3 DEF TypeOK
  <2> QED
    BY <1>r, <2>4, <2>5, <2>6, <2>7 DEF Recover, TypeOK
<1>6. CASE Start \/ StartFails
  BY <1>6, <1>r DEF Start, StartFails, TypeOK
<1>7. CASE WorkerIdle
  BY <1>7 DEF WorkerIdle, Wait, memory, table, TypeOK
<1>8. CASE WorkerSleep
  <2>1. PICK e \in heap : Wait(entry[e].at)
    BY <1>8 DEF WorkerSleep
  <2>2. entry[e].at \in Nat
    BY DEF TypeOK
  <2> QED
    BY <2>1, <2>2 DEF Wait, memory, table, TypeOK
<1>9. CASE WorkerWake
  BY <1>9 DEF WorkerWake, memory, table, TypeOK
<1>10. CASE WorkerPop
  BY <1>10, <1>b DEF WorkerPop, table, loop, TypeOK
<1>11. ASSUME NEW t \in Tasks, WorkerFire(t) PROVE TypeOK'
  <2>1. PICK e \in heap, ok \in StoreOutcomes(t) : FireWith(t, e, ok)
    BY <1>11 DEF WorkerFire
  <2>2. e \in Entries /\ ok \in BOOLEAN
    BY DEF StoreOutcomes, TypeOK
  <2>3. entry' \in [Entries -> [task : Tasks \cup {None}, at : Nat, cancelled : BOOLEAN]]
    BY <2>1, <2>2, <1>b, FireTimes DEF FireWith, TypeOK
  <2>4. rec' \in [Tasks -> [enabled : BOOLEAN, next : Nat \cup {None},
                            entry : Entries \cup {None}, callback : BOOLEAN]]
    BY <2>1, <2>2, FireTimes DEF FireWith, Armed, Disarmed, TypeOK
  <2>5. row' \in [Tasks -> [enabled : BOOLEAN, next : Nat \cup {None}]] /\ failed' \subseteq Tasks
    BY <2>1, <2>2, FireTimes DEF FireWith, Updated, TypeOK
  <2>6. callbacks' \in [Tasks -> Nat] /\ fires' \in [Tasks -> Nat]
    BY <2>1 DEF FireWith, TypeOK
  <2> QED
    BY <2>1, <2>2, <2>3, <2>4, <2>5, <2>6 DEF FireWith, TypeOK
<1>12. CASE WorkerExit
  BY <1>12 DEF WorkerExit, memory, table, TypeOK
<1>13. ASSUME NEW t \in Tasks, CallbackDone(t) PROVE TypeOK'
  BY <1>13 DEF CallbackDone, memory, table, loop, TypeOK
<1>14. CASE StopBegin \/ StopJoin \/ StopEnd
  BY <1>14 DEF StopBegin, StopJoin, StopEnd, memory, table, TypeOK
<1>15. CASE Tick
  BY <1>15 DEF Tick, memory, table, loop, TypeOK
<1>16. CASE Crash
  BY <1>16, <1>b DEF Crash, table, TypeOK
<1>17. CASE UNCHANGED vars
  BY <1>17 DEF vars, memory, table, loop, TypeOK
<1> QED
  BY <1>1, <1>2, <1>3, <1>4, <1>5, <1>6, <1>7, <1>8, <1>9, <1>10, <1>11, <1>12, <1>13, <1>14,
     <1>15, <1>16, <1>17 DEF Next, Public, Worker, Stopping

-----------------------------------------------------------------------------
(* Heap and records.                                                        *)

HeapInv == TypeOK /\ RecordShape /\ HeapMatchesRecords

\* Two records never share a heap entry.
LEMMA OwnEntry ==
    ASSUME HeapInv, NEW s \in Tasks, NEW t \in Tasks,
           rec[s].entry = rec[t].entry, rec[s].entry # None
    PROVE  s = t
<1>1. \A x \in Tasks : rec[x].entry # None => x \in tasks /\ rec[x].enabled /\ rec[x].entry \in Entries
  BY DEF HeapInv, RecordShape, TypeOK, Blank
<1>2. \A x \in Tasks : rec[x].entry # None => entry[rec[x].entry].task = x
  BY <1>1 DEF HeapInv, HeapMatchesRecords
<1> QED
  BY <1>2

\* Marking the entries of S touches only the cancelled flag of those entries.
LEMMA CancelledEntries ==
    ASSUME TypeOK, NEW S, NEW e \in Entries
    PROVE  /\ Cancelled(S)[e].task = entry[e].task
           /\ Cancelled(S)[e].at = entry[e].at
           /\ Cancelled(S)[e].cancelled <=> (entry[e].cancelled \/ \E t \in S : rec[t].entry = e)
BY DEF Cancelled, TypeOK

\* Dropping or disarming the tasks of S, with their entries marked cancelled,
\* leaves heap and records in agreement.
LEMMA DropTasks ==
    ASSUME HeapInv, TypeOK', NEW S \in SUBSET Tasks,
           entry' = Cancelled(S), heap' = heap,
           tasks \ S \subseteq tasks', tasks' \subseteq tasks,
           \A t \in Tasks \ S : rec'[t] = rec[t],
           \A t \in S : ~rec'[t].enabled /\ rec'[t].next = None /\ rec'[t].entry = None,
           \A t \in S : t \notin tasks' => rec'[t] = Blank,
           \A t \in tasks \ S : t \in failed => t \in failed'
    PROVE  HeapInv'
<1>1. RecordShape'
  BY DEF HeapInv, RecordShape
<1>2. ASSUME NEW e \in heap', ~entry'[e].cancelled
      PROVE  LET t == entry'[e].task IN
             t \in tasks' /\ rec'[t].enabled /\ rec'[t].entry = e /\ rec'[t].next = entry'[e].at
  <2>1. e \in Entries /\ ~entry[e].cancelled /\ \A t \in S : rec[t].entry # e
    BY <1>2, CancelledEntries DEF HeapInv, TypeOK
  <2>2. entry'[e].task = entry[e].task /\ entry'[e].at = entry[e].at
    BY <2>1, CancelledEntries DEF HeapInv
  <2> QED
    BY <2>1, <2>2, <1>2 DEF HeapInv, HeapMatchesRecords, TypeOK
<1>3. ASSUME NEW t \in tasks', rec'[t].enabled
      PROVE  \/ rec'[t].entry \in heap' /\ ~entry'[rec'[t].entry].cancelled
                /\ entry'[rec'[t].entry].task = t
             \/ t \in failed' /\ rec'[t].entry = None
  <2>1. t \in tasks /\ t \in Tasks /\ t \notin S /\ rec'[t] = rec[t]
    BY <1>3 DEF HeapInv, TypeOK
  <2>2. CASE rec[t].entry = None
    BY <2>1, <2>2, <1>3, ScheduleAssumption DEF HeapInv, HeapMatchesRecords, TypeOK
  <2>3. CASE rec[t].entry # None
    <3>1. rec[t].entry \in heap /\ ~entry[rec[t].entry].cancelled /\ entry[rec[t].entry].task = t
      BY <2>1, <2>3, <1>3 DEF HeapInv, HeapMatchesRecords
    <3>2. \A x \in S : rec[x].entry # rec[t].entry
      BY <2>1, <2>3, OwnEntry
    <3> QED
      BY <2>1, <3>1, <3>2, CancelledEntries DEF HeapInv, TypeOK
  <2> QED
    BY <2>2, <2>3
<1> QED
  BY <1>1, <1>2, <1>3 DEF HeapInv, HeapMatchesRecords

\* Giving task t the fresh entry e (register, enable) after cancelling the one
\* it had leaves heap and records in agreement.
LEMMA ArmTask ==
    ASSUME HeapInv, TypeOK', NEW t \in Tasks, NEW e \in Free, NEW at,
           at # None, tasks' = tasks \cup {t}, heap' = heap \cup {e},
           entry' = [Cancelled({t}) EXCEPT ![e] = [task |-> t, at |-> at, cancelled |-> FALSE]],
           \A s \in Tasks \ {t} : rec'[s] = rec[s],
           rec'[t].enabled, rec'[t].next = at, rec'[t].entry = e,
           \A s \in Tasks \ {t} : s \in failed => s \in failed'
    PROVE  HeapInv'
<1>1. RecordShape'
  BY DEF HeapInv, RecordShape
<1>0. e \in Entries /\ e \notin heap /\ \A s \in tasks : rec[s].entry # e
  BY DEF Free
<1>2. ASSUME NEW f \in heap', ~entry'[f].cancelled
      PROVE  LET s == entry'[f].task IN
             s \in tasks' /\ rec'[s].enabled /\ rec'[s].entry = f /\ rec'[s].next = entry'[f].at
  <2>1. CASE f = e
    BY <2>1, <1>0, <1>2 DEF HeapInv, TypeOK, Cancelled
  <2>2. CASE f # e
    <3>1. f \in heap /\ f \in Entries /\ entry'[f] = Cancelled({t})[f]
      BY <2>2 DEF HeapInv, TypeOK, Cancelled
    <3>2. ~entry[f].cancelled /\ rec[t].entry # f /\ entry'[f].task = entry[f].task
          /\ entry'[f].at = entry[f].at
      BY <3>1, <1>2, CancelledEntries DEF HeapInv
    <3> QED
      BY <3>1, <3>2 DEF HeapInv, HeapMatchesRecords, TypeOK
  <2> QED
    BY <2>1, <2>2
<1>3. ASSUME NEW s \in tasks', rec'[s].enabled
      PROVE  \/ rec'[s].entry \in heap' /\ ~entry'[rec'[s].entry].cancelled
                /\ entry'[rec'[s].entry].task = s
             \/ s \in failed' /\ rec'[s].entry = None
  <2>1. CASE s = t
    BY <2>1, <1>0 DEF HeapInv, TypeOK, Cancelled
  <2>2. CASE s # t
    <3>1. s \in tasks /\ s \in Tasks /\ rec'[s] = rec[s]
      BY <2>2 DEF HeapInv, TypeOK
    <3>2. CASE rec[s].entry = None
      BY <3>1, <3>2, <2>2, <1>3, ScheduleAssumption DEF HeapInv, HeapMatchesRecords, TypeOK
    <3>3. CASE rec[s].entry # None
      <4>1. rec[s].entry \in heap /\ ~entry[rec[s].entry].cancelled /\ entry[rec[s].entry].task = s
        BY <3>1, <3>3, <1>3 DEF HeapInv, HeapMatchesRecords
      <4>2. rec[t].entry # rec[s].entry /\ rec[s].entry # e
        BY <3>1, <3>3, <2>2, <1>0, OwnEntry
      <4>3. rec[s].entry \in Entries
        BY <4>1 DEF HeapInv, TypeOK
      <4>4. entry'[rec[s].entry] = Cancelled({t})[rec[s].entry]
        BY <4>2, <4>3 DEF Cancelled
      <4> QED
        BY <3>1, <4>1, <4>2, <4>3, <4>4, CancelledEntries DEF HeapInv
    <3> QED
      BY <3>2, <3>3
  <2> QED
    BY <2>1, <2>2
<1> QED
  BY <1>1, <1>2, <1>3 DEF HeapInv, HeapMatchesRecords

\* Every step keeps heap and records in agreement.
LEMMA HeapStep == HeapInv /\ [Next]_vars => HeapInv'
<1> SUFFICES ASSUME HeapInv, [Next]_vars PROVE HeapInv'
  OBVIOUS
<1>t. TypeOK /\ TypeOK'
  BY TypeStep DEF HeapInv
<1>f. Free \subseteq Entries
  BY DEF Free
<1>1. ASSUME NEW t \in Tasks, Register(t) PROVE HeapInv'
  <2>1. PICK e \in Free, ok \in StoreOutcomes(t) : RegisterWith(t, e, ok)
    BY <1>1 DEF Register
  <2>2. RegisteredFire(t) # None /\ RegisteredFire(t) \in Nat
    BY <1>t, FireTimes, ScheduleAssumption DEF RegisteredFire, TypeOK
  <2>3. CASE ok
    <3>1. entry' = [Cancelled({t}) EXCEPT ![e] = [task |-> t, at |-> RegisteredFire(t), cancelled |-> FALSE]]
      BY <2>1, <2>3 DEF RegisterWith
    <3>2. /\ tasks' = tasks \cup {t} /\ heap' = heap \cup {e}
          /\ \A s \in Tasks \ {t} : rec'[s] = rec[s]
          /\ rec'[t].enabled /\ rec'[t].next = RegisteredFire(t) /\ rec'[t].entry = e
          /\ \A s \in Tasks \ {t} : s \in failed => s \in failed'
      BY <2>1, <2>3, <1>t DEF RegisterWith, TypeOK
    <3> QED
      BY <3>1, <3>2, <2>2, <1>t, ArmTask
  <2>4. CASE ~ok
    <3>0. e \in Entries
      BY <1>f
    <3>1. entry' = Cancelled({t})
      BY <2>1, <2>4, <3>0 DEF RegisterWith, Cancelled
    <3>2. /\ tasks' = tasks \cup {t} /\ heap' = heap /\ t \in failed' /\ failed \subseteq failed'
          /\ \A s \in Tasks \ {t} : rec'[s] = rec[s]
          /\ rec'[t].enabled /\ rec'[t].next = RegisteredFire(t) /\ rec'[t].entry = None
      BY <2>1, <2>4, <1>t DEF RegisterWith, TypeOK
    <3>3. RecordShape'
      BY <3>2, <2>2 DEF HeapInv, RecordShape
    <3>4. ASSUME NEW g \in heap', ~entry'[g].cancelled
          PROVE  LET s == entry'[g].task IN
                 s \in tasks' /\ rec'[s].enabled /\ rec'[s].entry = g /\ rec'[s].next = entry'[g].at
      BY <3>1, <3>2, <3>4, <1>t, CancelledEntries DEF HeapInv, HeapMatchesRecords, TypeOK
    <3>5. ASSUME NEW s \in tasks', rec'[s].enabled, s # t, rec[s].entry # None
          PROVE  rec'[s].entry \in heap' /\ ~entry'[rec'[s].entry].cancelled
                 /\ entry'[rec'[s].entry].task = s
      <4>1. s \in Tasks /\ s \in tasks /\ rec'[s] = rec[s]
        BY <3>2, <3>5, <1>t DEF TypeOK
      <4>2. rec[s].entry \in heap /\ ~entry[rec[s].entry].cancelled /\ entry[rec[s].entry].task = s
            /\ rec[s].entry # rec[t].entry /\ rec[s].entry \in Entries
        BY <4>1, <3>5, <1>t, OwnEntry DEF HeapInv, HeapMatchesRecords, TypeOK
      <4> QED
        BY <4>1, <4>2, <3>1, <3>2, <1>t, CancelledEntries
    <3>6. ASSUME NEW s \in tasks', rec'[s].enabled
          PROVE  \/ rec'[s].entry \in heap' /\ ~entry'[rec'[s].entry].cancelled
                    /\ entry'[rec'[s].entry].task = s
                 \/ s \in failed' /\ rec'[s].entry = None
      <4>1. CASE s = t
        BY <4>1, <3>2
      <4>2. CASE s # t /\ rec[s].entry = None
        BY <4>2, <3>2, <3>6, <1>t, ScheduleAssumption DEF HeapInv, HeapMatchesRecords, TypeOK
      <4> QED
        BY <4>1, <4>2, <3>5, <3>6
    <3> QED
      BY <3>3, <3>4, <3>6, <1>t DEF HeapInv, HeapMatchesRecords
  <2> QED
    BY <2>3, <2>4
<1>2. ASSUME NEW t \in Tasks, Cancel(t) PROVE HeapInv'
  <2>1. /\ entry' = Cancelled({t}) /\ heap' = heap /\ tasks' = tasks \ {t} /\ rec'[t] = Blank
        /\ \A s \in Tasks \ {t} : rec'[s] = rec[s]
        /\ \A s \in tasks \ {t} : s \in failed => s \in failed'
    BY <1>2, <1>t DEF Cancel, TypeOK
  <2>2. ~rec'[t].enabled /\ rec'[t].next = None /\ rec'[t].entry = None
    BY <2>1 DEF Blank
  <2>3. {t} \in SUBSET Tasks /\ tasks \ {t} \subseteq tasks' /\ tasks' \subseteq tasks
    BY <2>1
  <2> QED
    BY <2>1, <2>2, <2>3, <1>t, DropTasks
<1>3. ASSUME NEW t \in Tasks, Disable(t) PROVE HeapInv'
  <2>1. /\ entry' = Cancelled({t}) /\ heap' = heap /\ tasks' = tasks /\ t \in tasks
        /\ rec'[t] = Disarmed(rec[t])
        /\ \A s \in Tasks \ {t} : rec'[s] = rec[s]
        /\ \A s \in tasks \ {t} : s \in failed => s \in failed'
    BY <1>3, <1>t DEF Disable, Updated, TypeOK
  <2> QED
    BY <2>1, <1>t, DropTasks DEF Disarmed
<1>4. ASSUME NEW t \in Tasks, Enable(t) PROVE HeapInv'
  <2>1. PICK e \in Free, ok \in StoreOutcomes(t) :
        /\ rec' = [rec EXCEPT ![t] = Armed(rec[t], ResumedFire(t), e)]
        /\ entry' = Pushed(e, t, ResumedFire(t))
        /\ heap' = heap \cup {e}
        /\ Updated(t, ok, [enabled |-> TRUE, next |-> ResumedFire(t)])
    BY <1>4 DEF Enable
  <2>2. rec[t].entry = None /\ t \in tasks /\ tasks' = tasks
    BY <1>4 DEF Enable, HeapInv, RecordShape
  <2>3. Cancelled({t}) = entry
    BY <2>2, <1>t, ScheduleAssumption DEF Cancelled, TypeOK
  <2>4. /\ rec'[t].enabled /\ rec'[t].next = ResumedFire(t) /\ rec'[t].entry = e
        /\ \A s \in Tasks \ {t} : rec'[s] = rec[s]
        /\ \A s \in Tasks \ {t} : s \in failed => s \in failed'
    BY <2>1, <1>t DEF Armed, Updated, TypeOK
  <2>5. ResumedFire(t) # None
    BY <1>t, FireTimes, ScheduleAssumption
  <2>6. entry' = [Cancelled({t}) EXCEPT ![e] = [task |-> t, at |-> ResumedFire(t), cancelled |-> FALSE]]
    BY <2>1, <2>3 DEF Pushed
  <2>7. tasks' = tasks \cup {t}
    BY <2>2
  <2>8. heap' = heap \cup {e}
    BY <2>1
  <2> QED
    BY <2>4, <2>5, <2>6, <2>7, <2>8, <1>t, ArmTask
<1>5. ASSUME NEW o, UnregisterByOwner(o) PROVE HeapInv'
  <2> SUFFICES ASSUME NEW gone, NEW deleted, NEW raised, Unregistered(gone, deleted, raised),
                      \A t \in tasks \cap deleted : t \in gone
               PROVE  HeapInv'
    BY <1>5 DEF UnregisterByOwner
  <2> DEFINE S == tasks \cap gone
  <2>1. /\ entry' = Cancelled(S) /\ tasks' = tasks \ S /\ heap' = heap
        /\ rec' = [t \in Tasks |-> IF t \in tasks' THEN rec[t] ELSE Blank]
        /\ \A t \in tasks \ S : t \in failed => t \in failed'
    BY DEF Unregistered
  <2>2. S \in SUBSET Tasks /\ S \subseteq tasks
    BY <1>t DEF TypeOK
  <2> HIDE DEF S
  <2>3. \A t \in S : rec'[t] = Blank
    BY <2>1, <2>2
  <2>4. \A t \in Tasks \ S : rec'[t] = rec[t]
    BY <2>1 DEF HeapInv, RecordShape
  <2> QED
    BY <2>1, <2>2, <2>3, <2>4, <1>t, DropTasks DEF Blank
<1>r. ASSUME NEW R \in SUBSET Recovered, NEW bound \in BOOLEAN, Recover(R, bound) PROVE HeapInv'
  <2> DEFINE queued == {t \in R : RecoveredEnabled(t)}
  <2>1. PICK f \in [queued -> Free] :
        /\ \A s, t \in queued : f[s] = f[t] => s = t
        /\ tasks' = tasks \cup R
        /\ rec' = [t \in Tasks |->
              IF t \in R
              THEN [enabled |-> RecoveredEnabled(t), next |-> RecoveredNext(t),
                    entry |-> IF t \in queued THEN f[t] ELSE None, callback |-> bound /\ t \in Rebindable]
              ELSE [enabled |-> rec[t].enabled, next |-> rec[t].next, entry |-> rec[t].entry,
                    callback |-> rec[t].callback \/ (bound /\ t \in tasks \cap Rebindable)]]
        /\ entry' = [e \in Entries |->
              IF \E t \in queued : f[t] = e
              THEN LET t == CHOOSE x \in queued : f[x] = e
                   IN [task |-> t, at |-> RecoveredNext(t), cancelled |-> FALSE]
              ELSE entry[e]]
        /\ heap' = heap \cup {f[t] : t \in queued}
    BY <1>r DEF Recover
  <2>2. R \subseteq Tasks /\ R \cap tasks = {} /\ queued \subseteq R
    BY <1>t, ScheduleAssumption DEF Recovered, TypeOK
  <2>3. \A t \in queued : f[t] \in Entries /\ f[t] \notin heap /\ f[t] # None
    BY ScheduleAssumption DEF Free
  <2>4. \A t \in queued : entry'[f[t]] = [task |-> t, at |-> RecoveredNext(t), cancelled |-> FALSE]
    <3> SUFFICES ASSUME NEW t \in queued
                 PROVE  entry'[f[t]] = [task |-> t, at |-> RecoveredNext(t), cancelled |-> FALSE]
      OBVIOUS
    <3>1. (CHOOSE x \in queued : f[x] = f[t]) = t
      BY <2>1
    <3> QED
      BY <3>1, <2>1, <2>3
  <2>5. \A e \in Entries : (\A t \in queued : f[t] # e) => entry'[e] = entry[e]
    BY <2>1
  <2>6. \A t \in Tasks \ R : /\ rec'[t].enabled = rec[t].enabled /\ rec'[t].next = rec[t].next
                             /\ rec'[t].entry = rec[t].entry
    BY <2>1
  <2>7. \A t \in R : /\ rec'[t].enabled = RecoveredEnabled(t) /\ rec'[t].next = RecoveredNext(t)
                     /\ rec'[t].entry = IF t \in queued THEN f[t] ELSE None
    BY <2>1, <2>2
  <2>8. \A t \in R : /\ RecoveredEnabled(t) => RecoveredNext(t) \in Nat /\ RecoveredNext(t) # None
                     /\ ~RecoveredEnabled(t) => RecoveredNext(t) = None
    BY <2>2, <1>t, RecoveryTimes, ScheduleAssumption
  <2>9. RecordShape'
    <3> SUFFICES ASSUME NEW t \in Tasks
                 PROVE  /\ t \notin tasks' => rec'[t] = Blank
                        /\ ~rec'[t].enabled => rec'[t].next = None /\ rec'[t].entry = None
                        /\ rec'[t].enabled => rec'[t].next # None
      BY DEF RecordShape
    <3>1. CASE t \in R
      BY <3>1, <2>1, <2>7, <2>8
    <3>2. CASE t \notin R
      <4>1. t \notin tasks' => rec[t] = Blank /\ t \notin tasks
        BY <2>1, <3>2 DEF HeapInv, RecordShape
      <4>2. (t \notin tasks') => ((rec[t].callback \/ (bound /\ t \in tasks \cap Rebindable)) = FALSE)
        BY <4>1 DEF Blank
      <4>3. rec'[t] = [enabled |-> rec[t].enabled, next |-> rec[t].next, entry |-> rec[t].entry,
                       callback |-> rec[t].callback \/ (bound /\ t \in tasks \cap Rebindable)]
        BY <2>1, <3>2
      <4>4. ASSUME t \notin tasks' PROVE rec'[t] = Blank
        <5>1. rec[t].enabled = FALSE /\ rec[t].next = None /\ rec[t].entry = None
          BY <4>1, <4>4 DEF Blank
        <5> QED
          BY <5>1, <4>2, <4>3, <4>4 DEF Blank
      <4> QED
        BY <4>4, <3>2, <2>6 DEF HeapInv, RecordShape
    <3> QED
      BY <3>1, <3>2
  <2>10. ASSUME NEW e \in heap', ~entry'[e].cancelled
         PROVE  LET s == entry'[e].task IN
                s \in tasks' /\ rec'[s].enabled /\ rec'[s].entry = e /\ rec'[s].next = entry'[e].at
    <3>1. CASE \E t \in queued : f[t] = e
      <4>1. PICK t \in queued : f[t] = e
        BY <3>1
      <4>2. entry'[e] = [task |-> t, at |-> RecoveredNext(t), cancelled |-> FALSE]
        BY <4>1, <2>4
      <4>3. t \in R /\ RecoveredEnabled(t) /\ t \in tasks'
        BY <2>1
      <4>4. rec'[t].enabled /\ rec'[t].next = RecoveredNext(t) /\ rec'[t].entry = e
        BY <4>1, <4>3, <2>7
      <4> QED
        BY <4>2, <4>3, <4>4
    <3>2. CASE \A t \in queued : f[t] # e
      <4>1. e \in heap /\ e \in Entries /\ entry'[e] = entry[e]
        BY <3>2, <2>1, <2>5, <1>t DEF TypeOK
      <4>2. entry[e].task \in tasks /\ entry[e].task \in Tasks \ R
        BY <4>1, <2>10, <2>2, <1>t DEF HeapInv, HeapMatchesRecords, TypeOK
      <4> QED
        BY <4>1, <4>2, <2>1, <2>6, <2>10 DEF HeapInv, HeapMatchesRecords
    <3> QED
      BY <3>1, <3>2
  <2>11. ASSUME NEW s \in tasks', rec'[s].enabled
         PROVE  \/ rec'[s].entry \in heap' /\ ~entry'[rec'[s].entry].cancelled
                   /\ entry'[rec'[s].entry].task = s
                \/ s \in failed' /\ rec'[s].entry = None
    <3>1. CASE s \in R
      <4>1. s \in queued /\ rec'[s].entry = f[s]
        BY <3>1, <2>11, <2>7
      <4>2. f[s] \in heap' /\ entry'[f[s]] = [task |-> s, at |-> RecoveredNext(s), cancelled |-> FALSE]
        BY <4>1, <2>1, <2>4
      <4> QED
        BY <4>1, <4>2
    <3>2. CASE s \notin R
      <4>1. s \in tasks /\ s \in Tasks /\ rec[s].enabled /\ rec'[s].entry = rec[s].entry
            /\ (s \in failed => s \in failed')
        BY <3>2, <2>1, <2>6, <2>11, <1>r, <1>t DEF TypeOK, Recover
      <4>2. CASE rec[s].entry = None
        BY <4>1, <4>2, <1>t, ScheduleAssumption DEF HeapInv, HeapMatchesRecords, TypeOK
      <4>3. CASE rec[s].entry # None
        <5>1. rec[s].entry \in heap /\ ~entry[rec[s].entry].cancelled /\ entry[rec[s].entry].task = s
              /\ rec[s].entry \in Entries
          BY <4>1, <4>3, <1>t DEF HeapInv, HeapMatchesRecords, TypeOK
        <5>2. \A t \in queued : f[t] # rec[s].entry
          BY <5>1, <2>3
        <5> QED
          BY <4>1, <5>1, <5>2, <2>1, <2>5
      <4> QED
        BY <4>2, <4>3
    <3> QED
      BY <3>1, <3>2
  <2> QED
    BY <2>9, <2>10, <2>11, <1>t DEF HeapInv, HeapMatchesRecords
<1>6. CASE Start \/ StartFails
  BY <1>6, <1>r DEF Start, StartFails
<1>7. CASE WorkerPop
  <2>1. PICK e \in heap :
          /\ \/ entry[e].cancelled
             \/ entry[e].at <= now /\ ~(entry[e].task \in tasks /\ rec[entry[e].task].enabled)
          /\ heap' = heap \ {e}
          /\ entry' = [entry EXCEPT ![e] = BlankEntry]
    BY <1>7 DEF WorkerPop
  <2>2. entry[e].cancelled
    BY <2>1 DEF HeapInv, HeapMatchesRecords
  <2>3. tasks' = tasks /\ rec' = rec /\ failed' = failed
    BY <1>7 DEF WorkerPop
  <2>4. \A g \in heap' : entry'[g] = entry[g] /\ g \in heap
    BY <2>1, <1>t DEF TypeOK
  <2>5. RecordShape'
    BY <2>3 DEF HeapInv, RecordShape
  <2>6. \A t \in tasks : rec[t].enabled /\ rec[t].entry \in heap /\ ~entry[rec[t].entry].cancelled
            => rec[t].entry \in heap'
    BY <2>1, <2>2
  <2> QED
    BY <2>3, <2>4, <2>5, <2>6, <1>t DEF HeapInv, HeapMatchesRecords
<1>8. ASSUME NEW t \in Tasks, WorkerFire(t) PROVE HeapInv'
  <2>1. PICK e \in heap, ok \in StoreOutcomes(t) :
          ~entry[e].cancelled /\ entry[e].task = t /\ FireWith(t, e, ok)
    BY <1>8 DEF WorkerFire
  <2>2. e \in Entries /\ t \in tasks /\ rec[t].enabled /\ rec[t].entry = e /\ e # None
    BY <2>1, <1>t, ScheduleAssumption DEF HeapInv, HeapMatchesRecords, TypeOK
  <2>3. /\ \A s \in Tasks \ {t} : rec'[s] = rec[s] /\ rec[s].entry # e
        /\ \A g \in Entries \ {e} : entry'[g] = entry[g]
        /\ tasks' = tasks
        /\ \A s \in Tasks \ {t} : s \in failed => s \in failed'
    BY <2>1, <2>2, <1>t, OwnEntry DEF FireWith, Updated, TypeOK
  <2>4. CASE NextFire(t) = None
    <3>1. heap' = heap \ {e} /\ rec'[t] = Disarmed(rec[t])
      BY <2>1, <2>2, <2>4, <1>t DEF FireWith, TypeOK
    <3>2. RecordShape'
      BY <2>2, <2>3, <3>1 DEF HeapInv, RecordShape, Disarmed
    <3>3. \A g \in heap' : ~entry'[g].cancelled => g \in heap /\ ~entry[g].cancelled /\ entry[g].task # t
      BY <3>1, <2>2, <2>3, <1>t DEF HeapInv, HeapMatchesRecords, TypeOK
    <3>4. ASSUME NEW g \in heap', ~entry'[g].cancelled
          PROVE  LET s == entry'[g].task IN
                 s \in tasks' /\ rec'[s].enabled /\ rec'[s].entry = g /\ rec'[s].next = entry'[g].at
      BY <3>1, <3>3, <3>4, <2>3, <1>t DEF HeapInv, HeapMatchesRecords, TypeOK
    <3>5. ASSUME NEW s \in tasks', rec'[s].enabled
          PROVE  \/ rec'[s].entry \in heap' /\ ~entry'[rec'[s].entry].cancelled
                    /\ entry'[rec'[s].entry].task = s
                 \/ s \in failed' /\ rec'[s].entry = None
      <4>1. s # t /\ s \in Tasks /\ s \in tasks /\ rec'[s] = rec[s] /\ rec[s].entry # e
        BY <3>1, <3>5, <2>3, <1>t DEF Disarmed, TypeOK
      <4> QED
        BY <4>1, <3>1, <3>5, <2>3, <1>t DEF HeapInv, HeapMatchesRecords, TypeOK
    <3> QED
      BY <3>2, <3>4, <3>5, <1>t DEF HeapInv, HeapMatchesRecords
  <2>5. CASE NextFire(t) # None
    <3>1. heap' = heap /\ rec'[t] = Armed(rec[t], NextFire(t), e)
          /\ entry'[e] = [task |-> t, at |-> NextFire(t), cancelled |-> FALSE]
      BY <2>1, <2>2, <2>5, <1>t DEF FireWith, TypeOK
    <3>2. RecordShape'
      BY <2>2, <2>3, <2>5, <3>1 DEF HeapInv, RecordShape, Armed
    <3>3. \A g \in heap' : g # e /\ ~entry'[g].cancelled
                => g \in heap /\ ~entry[g].cancelled /\ entry[g].task # t
      BY <3>1, <2>2, <2>3, <1>t DEF HeapInv, HeapMatchesRecords, TypeOK
    <3>4. rec'[t].enabled /\ rec'[t].next = NextFire(t) /\ rec'[t].entry = e
      BY <3>1 DEF Armed
    <3>5. ASSUME NEW g \in heap', ~entry'[g].cancelled
          PROVE  LET s == entry'[g].task IN
                 s \in tasks' /\ rec'[s].enabled /\ rec'[s].entry = g /\ rec'[s].next = entry'[g].at
      <4>1. CASE g = e
        BY <4>1, <3>1, <3>4, <2>2, <2>3
      <4>2. CASE g # e
        BY <4>2, <3>1, <3>3, <3>5, <2>3, <1>t DEF HeapInv, HeapMatchesRecords, TypeOK
      <4> QED
        BY <4>1, <4>2
    <3>6. ASSUME NEW s \in tasks', rec'[s].enabled
          PROVE  \/ rec'[s].entry \in heap' /\ ~entry'[rec'[s].entry].cancelled
                    /\ entry'[rec'[s].entry].task = s
                 \/ s \in failed' /\ rec'[s].entry = None
      <4>1. CASE s = t
        BY <4>1, <3>1, <3>4
      <4>2. CASE s # t
        <5>1. s \in Tasks /\ s \in tasks /\ rec'[s] = rec[s] /\ rec[s].entry # e
          BY <4>2, <2>3, <1>t DEF TypeOK
        <5> QED
          BY <5>1, <4>2, <3>1, <3>6, <2>3, <1>t DEF HeapInv, HeapMatchesRecords, TypeOK
      <4> QED
        BY <4>1, <4>2
    <3> QED
      BY <3>2, <3>5, <3>6, <1>t DEF HeapInv, HeapMatchesRecords
  <2> QED
    BY <2>4, <2>5
<1>9. CASE Crash
  BY <1>9, <1>t DEF Crash, HeapInv, RecordShape, HeapMatchesRecords, Blank
<1>10. CASE UNCHANGED <<memory, failed>>
  BY <1>10, <1>t DEF memory, HeapInv, RecordShape, HeapMatchesRecords
<1>11. ASSUME NEW t \in Tasks, CallbackDone(t) PROVE HeapInv'
  BY <1>10, <1>11 DEF CallbackDone
<1>12. CASE WorkerIdle \/ WorkerSleep \/ WorkerWake \/ WorkerExit \/ StopBegin \/ StopJoin \/ StopEnd \/ Tick
  BY <1>10, <1>12 DEF WorkerIdle, WorkerSleep, Wait, WorkerWake, WorkerExit, StopBegin, StopJoin, StopEnd, Tick
<1>13. CASE UNCHANGED vars
  BY <1>10, <1>13 DEF vars
<1> QED
  BY <1>1, <1>2, <1>3, <1>4, <1>5, <1>6, <1>7, <1>8, <1>9, <1>11, <1>12, <1>13
  DEF Next, Public, Worker, Stopping

\* The scheduler starts with an empty heap.
LEMMA InitHeap == Init => HeapInv
<1> SUFFICES ASSUME Init PROVE HeapInv
  OBVIOUS
<1>1. TypeOK
  BY InitTypes
<1>2. RecordShape
  BY DEF Init, RecordShape, Blank
<1> QED
  BY <1>1, <1>2 DEF Init, HeapInv, HeapMatchesRecords

\* The scheduler's records, heap, table and worker always have their types; in
\* particular no count of running callbacks drops below zero.
THEOREM TypeTheorem == Spec => []TypeOK
<1>1. Init => HeapInv
  BY InitHeap
<1>2. HeapInv => TypeOK
  BY DEF HeapInv
<1> QED
  BY <1>1, <1>2, HeapStep, PTL DEF Spec

\* In every reachable state an uncancelled heap entry belongs to exactly one
\* enabled record and has its fire time, however often tasks were registered
\* again, disabled, enabled, fired or recovered after a crash.
THEOREM HeapTheorem == Spec => []HeapMatchesRecords
<1>1. Init => HeapInv
  BY InitHeap
<1>2. HeapInv => HeapMatchesRecords
  BY DEF HeapInv
<1> QED
  BY <1>1, <1>2, HeapStep, PTL DEF Spec

-----------------------------------------------------------------------------
(* A one-shot fires at most once.                                           *)

\* A task that is armed, in memory or in the table, is armed for its own time
\* or later; once it has fired, its time has passed and it is armed nowhere.
OneShotState(t) ==
    /\ fires[t] \in {0, 1}
    /\ rec[t].enabled => rec[t].next >= Schedule[t].at
    /\ row[t].enabled /\ row[t].next # None => row[t].next >= Schedule[t].at
    /\ fires[t] = 1 => Schedule[t].at <= now /\ ~rec[t].enabled /\ ~row[t].enabled

OneShotInv ==
    /\ HeapInv
    /\ \A t \in Tasks : t \notin rows => ~row[t].enabled
    /\ \A t \in Tasks \ Faulty : IF OneShot(t) THEN OneShotState(t) ELSE fires[t] = 0

\* Every step keeps a fired one-shot disarmed, unless its own store calls fail.
LEMMA OneShotStep ==
    ASSUME OneShotInv, [Next]_vars
    PROVE  OneShotInv'
<1>t. TypeOK /\ HeapInv /\ HeapInv' /\ TypeOK'
  BY HeapStep DEF OneShotInv, HeapInv
<1>n. now \in Nat
  BY <1>t, ScheduleAssumption DEF TypeOK
<1>o. \A t \in Tasks \ Faulty : StoreOutcomes(t) = {TRUE}
  BY DEF StoreOutcomes
<1>s. \A t \in Tasks : OneShot(t) => Schedule[t].at \in Nat
  BY <1>t, FireTimes
\* A step that changes nothing of t but perhaps the clock.
<1>k. ASSUME NEW t \in Tasks \ Faulty, rec'[t].enabled = rec[t].enabled, rec'[t].next = rec[t].next,
             row'[t] = row[t], fires'[t] = fires[t], now' = now \/ now' = now + 1
      PROVE  IF OneShot(t) THEN OneShotState(t)' ELSE fires'[t] = 0
  BY <1>k, <1>t, <1>s, ScheduleAssumption DEF OneShotInv, OneShotState, TypeOK
\* A step that disarms t in memory, and in the table at most as well.
<1>d. ASSUME NEW t \in Tasks \ Faulty, ~rec'[t].enabled, row'[t] = row[t] \/ ~row'[t].enabled,
             fires'[t] = fires[t], now' = now
      PROVE  IF OneShot(t) THEN OneShotState(t)' ELSE fires'[t] = 0
  BY <1>d, <1>t, <1>s DEF OneShotInv, OneShotState
<1>1. ASSUME NEW t \in Tasks, Register(t) PROVE OneShotInv'
  <2>1. PICK e \in Free, ok \in StoreOutcomes(t) : RegisterWith(t, e, ok)
    BY <1>1 DEF Register
  <2>2. /\ rec'[t].enabled /\ rec'[t].next = RegisteredFire(t) /\ fires'[t] = 0 /\ now' = now
        /\ row'[t] = IF ok /\ t \in Persist THEN [enabled |-> TRUE, next |-> RegisteredFire(t)] ELSE row[t]
        /\ rows' = IF ok THEN rows \cup ({t} \cap Persist) ELSE rows
        /\ \A s \in Tasks \ {t} : rec'[s] = rec[s] /\ row'[s] = row[s] /\ fires'[s] = fires[s]
    BY <2>1, <1>t DEF RegisterWith, TypeOK
  <2>3. t \notin Faulty /\ OneShot(t) => RegisteredFire(t) >= Schedule[t].at
    <3>1. rec[t].next # None => rec[t].enabled
      BY DEF OneShotInv, HeapInv, RecordShape
    <3> QED
      BY <3>1, <1>t, FireTimes DEF RegisteredFire, OneShotInv, OneShotState
  <2>4. t \notin Faulty => IF OneShot(t) THEN OneShotState(t)' ELSE fires'[t] = 0
    BY <2>2, <2>3 DEF OneShotInv, OneShotState
  <2>5. \A s \in Tasks \ (Faulty \cup {t}) : IF OneShot(s) THEN OneShotState(s)' ELSE fires'[s] = 0
    BY <2>2, <1>k
  <2>6. \A s \in Tasks : s \notin rows' => ~row'[s].enabled
    BY <2>2 DEF OneShotInv
  <2> QED
    BY <2>4, <2>5, <2>6, <1>t DEF OneShotInv
<1>2. ASSUME NEW t \in Tasks, Cancel(t) \/ Disable(t) PROVE OneShotInv'
  <2>1. /\ ~rec'[t].enabled /\ fires' = fires /\ now' = now
        /\ row'[t] = row[t] \/ ~row'[t].enabled
        /\ \A s \in Tasks \ {t} : rec'[s] = rec[s] /\ row'[s] = row[s]
    BY <1>2, <1>t DEF Cancel, Disable, Updated, Blank, BlankRow, Disarmed, TypeOK
  <2>2. \A s \in Tasks : s \notin rows' => ~row'[s].enabled
    BY <1>2, <1>t DEF Cancel, Disable, Updated, Blank, BlankRow, TypeOK, OneShotInv
  <2>3. \A s \in Tasks \ (Faulty \cup {t}) : IF OneShot(s) THEN OneShotState(s)' ELSE fires'[s] = 0
    BY <2>1, <1>k
  <2>4. t \notin Faulty => IF OneShot(t) THEN OneShotState(t)' ELSE fires'[t] = 0
    BY <2>1, <1>d
  <2> QED
    BY <2>2, <2>3, <2>4, <1>t DEF OneShotInv
<1>3. ASSUME NEW t \in Tasks, Enable(t) PROVE OneShotInv'
  <2>1. /\ rec'[t].enabled /\ rec'[t].next = ResumedFire(t) /\ fires' = fires /\ now' = now /\ rows' = rows
        /\ row'[t] = row[t] \/ (t \in rows /\ row'[t] = [enabled |-> TRUE, next |-> ResumedFire(t)])
        /\ \A s \in Tasks \ {t} : rec'[s] = rec[s] /\ row'[s] = row[s]
    BY <1>3, <1>t DEF Enable, Updated, Armed, TypeOK
  <2>2. OneShot(t) => Schedule[t].at > now /\ ResumedFire(t) = Schedule[t].at
    BY <1>3, <1>t, FireTimes DEF Enable, Resumable, ResumedFire
  <2>3. t \notin Faulty /\ OneShot(t) => fires[t] = 0
    BY <2>2, <1>s, <1>n DEF OneShotInv, OneShotState
  <2>4. t \notin Faulty => IF OneShot(t) THEN OneShotState(t)' ELSE fires'[t] = 0
    BY <2>1, <2>2, <2>3, <1>s DEF OneShotInv, OneShotState
  <2>5. \A s \in Tasks \ (Faulty \cup {t}) : IF OneShot(s) THEN OneShotState(s)' ELSE fires'[s] = 0
    BY <2>1, <1>k
  <2>6. \A s \in Tasks : s \notin rows' => ~row'[s].enabled
    BY <2>1 DEF OneShotInv
  <2> QED
    BY <2>4, <2>5, <2>6, <1>t DEF OneShotInv
<1>4. ASSUME NEW o, UnregisterByOwner(o) PROVE OneShotInv'
  <2>1. /\ rec' = [s \in Tasks |-> IF s \in tasks' THEN rec[s] ELSE Blank]
        /\ row' = [s \in Tasks |-> IF s \in rows' THEN row[s] ELSE BlankRow]
        /\ fires' = fires /\ now' = now
    BY <1>4 DEF UnregisterByOwner, Unregistered
  <2>2. \A s \in Tasks : s \notin rows' => ~row'[s].enabled
    BY <2>1 DEF BlankRow
  <2>3. \A s \in Tasks : (rec'[s] = rec[s] \/ ~rec'[s].enabled) /\ (row'[s] = row[s] \/ ~row'[s].enabled)
    BY <2>1 DEF Blank, BlankRow
  <2>4. \A s \in Tasks \ Faulty : IF OneShot(s) THEN OneShotState(s)' ELSE fires'[s] = 0
    BY <2>1, <2>3, <1>t, <1>s DEF OneShotInv, OneShotState
  <2> QED
    BY <2>2, <2>4, <1>t DEF OneShotInv
<1>r. ASSUME NEW R \in SUBSET Recovered, NEW bound \in BOOLEAN, Recover(R, bound) PROVE OneShotInv'
  <2>1. /\ row' = [t \in Tasks |-> IF t \in R THEN RecoveredRow(t) ELSE row[t]]
        /\ rows' = rows /\ fires' = fires /\ now' = now
        /\ \A t \in Tasks : IF t \in R
              THEN rec'[t].enabled = RecoveredEnabled(t) /\ rec'[t].next = RecoveredNext(t)
              ELSE rec'[t].enabled = rec[t].enabled /\ rec'[t].next = rec[t].next
    BY <1>r DEF Recover
  <2>2. \A t \in Tasks : t \notin rows' => ~row'[t].enabled
    BY <2>1 DEF Recovered, OneShotInv
  <2>3. ASSUME NEW t \in R \ Faulty, OneShot(t)
        PROVE  OneShotState(t)'
    <3>0. t \in Tasks \ Faulty
      BY <1>t, ScheduleAssumption DEF Recovered, TypeOK
    <3>1. RecoveredEnabled(t) => row[t].enabled /\ fires[t] = 0
      BY <3>0, <2>3 DEF RecoveredEnabled, OneShotInv, OneShotState
    <3>2. RecoveredEnabled(t) => RecoveredNext(t) >= Schedule[t].at
      <4>1. row[t].enabled /\ row[t].next # None => row[t].next >= Schedule[t].at /\ row[t].next \in Nat
        BY <3>0, <2>3, <1>t DEF OneShotInv, OneShotState, TypeOK
      <4>2. ResumedFire(t) = Schedule[t].at
        BY <2>3 DEF ResumedFire, InitialFire
      <4>3. RecoveredEnabled(t) /\ Misfired(t) => t \in FireOnce /\ now >= Schedule[t].at
        BY <4>1, <2>3, <3>0, <1>s, <1>n DEF RecoveredEnabled, Misfired
      <4> QED
        BY <4>1, <4>2, <4>3, <3>0, <1>s, <2>3, <3>1 DEF RecoveredNext
    <3>3. row'[t] = row[t] \/ (row'[t].enabled = RecoveredEnabled(t) /\ row'[t].next = RecoveredNext(t))
      BY <2>1, <3>0 DEF RecoveredRow
    <3> QED
      BY <2>1, <2>3, <3>0, <3>1, <3>2, <3>3 DEF OneShotInv, OneShotState
  <2>4. ASSUME NEW t \in Tasks \ Faulty PROVE IF OneShot(t) THEN OneShotState(t)' ELSE fires'[t] = 0
    <3>1. CASE t \in R
      BY <2>1, <2>3, <3>1 DEF OneShotInv
    <3>2. CASE t \notin R
      BY <2>1, <3>2, <1>k
    <3> QED
      BY <3>1, <3>2
  <2> QED
    BY <2>2, <2>4, <1>t DEF OneShotInv
<1>5. CASE Start \/ StartFails
  BY <1>5, <1>r DEF Start, StartFails
<1>6. ASSUME NEW t \in Tasks, WorkerFire(t) PROVE OneShotInv'
  <2>1. PICK e \in heap, ok \in StoreOutcomes(t) :
          ~entry[e].cancelled /\ entry[e].at <= now /\ entry[e].task = t /\ FireWith(t, e, ok)
    BY <1>6 DEF WorkerFire
  <2>2. rec[t].enabled /\ rec[t].next <= now /\ rec[t].next \in Nat
    BY <2>1, <1>t DEF HeapInv, HeapMatchesRecords, TypeOK
  <2>3. /\ \A s \in Tasks \ {t} : rec'[s] = rec[s] /\ row'[s] = row[s] /\ fires'[s] = fires[s]
        /\ now' = now /\ rows' = rows
        /\ fires'[t] = IF OneShot(t) /\ fires[t] < 2 THEN fires[t] + 1 ELSE fires[t]
    BY <2>1, <1>t DEF FireWith, Updated, TypeOK
  <2>4. \A s \in Tasks : s \notin rows' => ~row'[s].enabled
    BY <2>1, <2>3, <1>t DEF FireWith, Updated, TypeOK, OneShotInv
  <2>5. t \notin Faulty => IF OneShot(t) THEN OneShotState(t)' ELSE fires'[t] = 0
    <3>1. CASE OneShot(t) /\ t \notin Faulty
      <4>1. NextFire(t) = None /\ ok = TRUE
        <5>1. StoreOutcomes(t) = {TRUE}
          BY <1>o, <3>1
        <5> QED
          BY <3>1, <5>1 DEF NextFire
      <4>2. ~rec'[t].enabled
        BY <2>1, <4>1, <1>t DEF FireWith, Disarmed, TypeOK
      <4>3. ~row'[t].enabled
        BY <2>1, <4>1, <1>t DEF FireWith, Updated, TypeOK, OneShotInv
      <4>4. fires[t] = 0 /\ Schedule[t].at <= now
        BY <2>2, <3>1, <1>s, <1>n DEF OneShotInv, OneShotState
      <4> QED
        BY <2>3, <3>1, <4>2, <4>3, <4>4, <1>t DEF OneShotState
    <3>2. CASE ~OneShot(t) /\ t \notin Faulty
      BY <2>3, <3>2 DEF OneShotInv
    <3> QED
      BY <3>1, <3>2
  <2>6. \A s \in Tasks \ (Faulty \cup {t}) : IF OneShot(s) THEN OneShotState(s)' ELSE fires'[s] = 0
    BY <2>3, <1>k
  <2> QED
    BY <2>4, <2>5, <2>6, <1>t DEF OneShotInv
<1>7. CASE Crash
  <2>1. /\ \A t \in Tasks : ~rec'[t].enabled
        /\ row' = row /\ rows' = rows /\ fires' = fires /\ now' = now
    BY <1>7 DEF Crash, Blank, table
  <2> QED
    BY <2>1, <1>d, <1>t DEF OneShotInv
<1>8. CASE UNCHANGED <<rec, row, rows, fires>> /\ (now' = now \/ now' = now + 1)
  BY <1>8, <1>k, <1>t DEF OneShotInv
<1>9. CASE WorkerPop
  BY <1>8, <1>9 DEF WorkerPop, table
<1>10. ASSUME NEW t \in Tasks, CallbackDone(t) PROVE OneShotInv'
  BY <1>8, <1>10 DEF CallbackDone, memory, table
<1>11. CASE WorkerIdle \/ WorkerSleep \/ WorkerWake \/ WorkerExit
  BY <1>8, <1>11 DEF WorkerIdle, WorkerSleep, Wait, WorkerWake, WorkerExit, memory, table
<1>12. CASE StopBegin \/ StopJoin \/ StopEnd \/ Tick
  BY <1>8, <1>12 DEF StopBegin, StopJoin, StopEnd, Tick, memory, table
<1>13. CASE UNCHANGED vars
  BY <1>8, <1>13 DEF vars, memory, table
<1> QED
  BY <1>1, <1>2, <1>3, <1>4, <1>5, <1>6, <1>7, <1>9, <1>10, <1>11, <1>12, <1>13
  DEF Next, Public, Worker, Stopping

\* Whatever the interleaving of users, worker, misfire recovery and crashes, a
\* one-shot task fires at most once per registration, as long as its own store
\* calls do not fail.
THEOREM OneShotTheorem == Spec => []OneShotFiresOnce
<1>1. Init => OneShotInv
  <2> SUFFICES ASSUME Init PROVE OneShotInv
    OBVIOUS
  <2>1. HeapInv
    BY InitHeap
  <2>2. \A t \in Tasks : ~rec[t].enabled /\ ~row[t].enabled /\ fires[t] = 0
    BY DEF Init, Blank, BlankRow
  <2> QED
    BY <2>1, <2>2 DEF OneShotInv, OneShotState
<1>2. OneShotInv => OneShotFiresOnce
  BY DEF OneShotInv, OneShotState, OneShotFiresOnce
<1>3. OneShotInv /\ [Next]_vars => OneShotInv'
  BY OneShotStep
<1> QED
  BY <1>1, <1>2, <1>3, PTL DEF Spec

-----------------------------------------------------------------------------
(* Stopping.                                                                *)

\* Only a running worker creates callbacks, a worker runs only between start()
\* and the end of stop(), and stop() ends after both are gone.
LEMMA QuietStep ==
    ASSUME TypeOK, StopShape, QuietWhenStopped, [Next]_vars
    PROVE  StopShape' /\ QuietWhenStopped'
<1>k. ASSUME UNCHANGED <<started, stop, worker>>, callbacks' = callbacks
      PROVE  StopShape' /\ QuietWhenStopped'
  BY <1>k DEF StopShape, QuietWhenStopped
<1>1. ASSUME NEW t \in Tasks, Public(t) PROVE StopShape' /\ QuietWhenStopped'
  BY <1>1, <1>k DEF Public, Register, RegisterWith, Cancel, Disable, Enable
<1>2. ASSUME NEW o, UnregisterByOwner(o) PROVE StopShape' /\ QuietWhenStopped'
  BY <1>2, <1>k DEF UnregisterByOwner, Unregistered
<1>3. CASE Start \/ StartFails
  <2>1. CASE Start
    <3>1. started' = TRUE /\ stop' = stop /\ stop = "no"
      BY <2>1 DEF Start, Recover, StopShape
    <3> QED
      BY <3>1 DEF StopShape, QuietWhenStopped
  <2>2. CASE StartFails
    BY <2>2, <1>k DEF StartFails, Recover
  <2> QED
    BY <1>3, <2>1, <2>2
<1>4. CASE WorkerIdle \/ WorkerSleep \/ WorkerWake
  <2>1. started /\ started' = started /\ stop' = stop /\ stop # "callbacks" /\ callbacks' = callbacks
    BY <1>4 DEF WorkerIdle, WorkerSleep, Wait, WorkerWake, Serving, StopShape, QuietWhenStopped
  <2> QED
    BY <2>1 DEF StopShape, QuietWhenStopped
<1>5. CASE WorkerPop
  BY <1>5, <1>k DEF WorkerPop, loop
<1>6. ASSUME NEW t \in Tasks, WorkerFire(t) PROVE StopShape' /\ QuietWhenStopped'
  <2>1. started /\ started' = started /\ stop' = stop /\ stop = "no"
    BY <1>6 DEF WorkerFire, FireWith, Serving, QuietWhenStopped
  <2> QED
    BY <2>1 DEF StopShape, QuietWhenStopped
<1>7. CASE WorkerExit
  BY <1>7 DEF WorkerExit, StopShape, QuietWhenStopped
<1>8. ASSUME NEW t \in Tasks, CallbackDone(t) PROVE StopShape' /\ QuietWhenStopped'
  <2>1. started /\ UNCHANGED <<started, stop, worker>>
    BY <1>8, ScheduleAssumption DEF CallbackDone, loop, QuietWhenStopped, TypeOK
  <2> QED
    BY <2>1 DEF StopShape, QuietWhenStopped
<1>9. CASE StopBegin \/ StopJoin \/ StopEnd
  BY <1>9 DEF StopBegin, StopJoin, StopEnd, StopShape, QuietWhenStopped
<1>10. CASE Tick
  BY <1>10, <1>k DEF Tick, loop
<1>11. CASE Crash
  BY <1>11 DEF Crash, StopShape, QuietWhenStopped
<1>12. CASE UNCHANGED vars
  BY <1>12, <1>k DEF vars, loop
<1> QED
  BY <1>1, <1>2, <1>3, <1>4, <1>5, <1>6, <1>7, <1>8, <1>9, <1>10, <1>11, <1>12
  DEF Next, Worker, Stopping

\* After stop() has returned, and until the next start(), no callback runs and
\* none can be created, whatever was registered, fired or crashed before.
THEOREM QuietTheorem == Spec => []QuietWhenStopped
<1>1. Init => StopShape /\ QuietWhenStopped
  BY DEF Init, StopShape, QuietWhenStopped
<1>2. StopShape /\ QuietWhenStopped /\ TypeOK /\ [Next]_vars => StopShape' /\ QuietWhenStopped'
  BY QuietStep
<1> QED
  BY <1>1, <1>2, TypeTheorem, PTL DEF Spec

-----------------------------------------------------------------------------
(* Memory and table.                                                        *)

\* Between two store failures of its own, a persisted task is in the table with
\* what memory says of it, and after start() nothing else is in the table.
Mirrored(t) ==
    /\ t \in tasks => t \in rows /\ Agree(t)
    /\ started => (t \in rows => t \in tasks)

TableInv == HeapInv /\ RowShape /\ \A t \in Persist \ failed : Mirrored(t)

\* Every step keeps memory and table in agreement, and a row that is enabled
\* keeps its fire time.
LEMMA TableStep ==
    ASSUME TableInv, [Next]_vars
    PROVE  TableInv'
<1>t. TypeOK /\ TypeOK' /\ HeapInv /\ HeapInv' /\ Persist \subseteq Tasks
  BY HeapStep, ScheduleAssumption DEF TableInv, HeapInv
\* A step that leaves task t alone.
<1>k. ASSUME NEW t \in Tasks, t \in tasks' <=> t \in tasks, t \in rows' <=> t \in rows,
             row'[t] = row[t], started' = started,
             rec'[t].enabled = rec[t].enabled, rec'[t].next = rec[t].next
      PROVE  Mirrored(t) => Mirrored(t)'
  BY <1>k DEF Mirrored, Agree
\* A step on task t only.
<1>o. ASSUME NEW t \in Tasks, started' = started,
             \A s \in Tasks \ {t} :
                /\ s \in tasks' <=> s \in tasks
                /\ s \in rows' <=> s \in rows
                /\ s \in failed' <=> s \in failed
                /\ row'[s] = row[s] /\ rec'[s] = rec[s],
             t \notin rows' => ~row'[t].enabled,
             row'[t].enabled <=> row'[t].next # None,
             t \in Persist \ failed' => Mirrored(t)'
      PROVE  TableInv'
  <2>1. RowShape'
    BY <1>o DEF TableInv, RowShape
  <2>2. ASSUME NEW s \in Persist \ failed' PROVE Mirrored(s)'
    <3>1. CASE s = t
      BY <1>o, <3>1, <2>2
    <3>2. CASE s # t
      BY <1>t, <1>o, <1>k, <3>2, <2>2 DEF TableInv
    <3> QED
      BY <3>1, <3>2
  <2> QED
    BY <1>t, <2>1, <2>2 DEF TableInv
\* A step that touches neither.
<1>u. ASSUME UNCHANGED <<tasks, rec, rows, row, failed, started>> PROVE TableInv'
  BY <1>t, <1>u DEF TableInv, RowShape, Mirrored, Agree
<1>1. ASSUME NEW t \in Tasks, Register(t) PROVE TableInv'
  <2>1. PICK e \in Free, ok \in StoreOutcomes(t) : RegisterWith(t, e, ok)
    BY <1>1 DEF Register
  <2>2. RegisteredFire(t) \in Nat
    BY <1>t, FireTimes DEF RegisteredFire, TypeOK
  <2>3. /\ rec'[t].enabled = TRUE /\ rec'[t].next = RegisteredFire(t) /\ t \in tasks'
        /\ rows' = IF ok THEN rows \cup ({t} \cap Persist) ELSE rows
        /\ row'[t] = IF ok /\ t \in Persist THEN [enabled |-> TRUE, next |-> RegisteredFire(t)] ELSE row[t]
        /\ t \in failed' <=> ~ok
    BY <2>1, <1>t DEF RegisterWith, StoreOutcomes, TypeOK
  <2>4. ASSUME t \in Persist \ failed' PROVE Mirrored(t)'
    <3>1. t \in rows' /\ row'[t] = [enabled |-> TRUE, next |-> RegisteredFire(t)]
      BY <2>3, <2>4
    <3>2. row'[t].enabled = TRUE /\ row'[t].next = RegisteredFire(t)
      BY <3>1
    <3> QED
      BY <2>3, <3>1, <3>2 DEF Mirrored, Agree
  <2>5. (t \notin rows' => ~row'[t].enabled) /\ (row'[t].enabled <=> row'[t].next # None)
    BY <2>2, <2>3, ScheduleAssumption DEF TableInv, RowShape
  <2>6. started' = started /\ \A s \in Tasks \ {t} :
          /\ s \in tasks' <=> s \in tasks
          /\ s \in rows' <=> s \in rows
          /\ s \in failed' <=> s \in failed
          /\ row'[s] = row[s] /\ rec'[s] = rec[s]
    BY <2>1, <1>t DEF RegisterWith, TypeOK
  <2> QED
    BY <2>4, <2>5, <2>6, <1>o
<1>2. ASSUME NEW t \in Tasks, Cancel(t) PROVE TableInv'
  <2>1. PICK ok \in StoreOutcomes(t) :
          /\ rows' = IF ok THEN rows \ {t} ELSE rows
          /\ row' = IF ok THEN [row EXCEPT ![t] = BlankRow] ELSE row
          /\ failed' = IF ok THEN failed \ {t} ELSE failed \cup {t}
    BY <1>2 DEF Cancel
  <2>2. tasks' = tasks \ {t} /\ started' = started /\ rec' = [rec EXCEPT ![t] = Blank]
    BY <1>2 DEF Cancel
  <2>3. t \in Persist \ failed' => Mirrored(t)'
    BY <2>1, <2>2 DEF Mirrored
  <2>4. (t \notin rows' => ~row'[t].enabled) /\ (row'[t].enabled <=> row'[t].next # None)
    BY <2>1, <1>t DEF TableInv, RowShape, BlankRow, TypeOK
  <2>5. \A s \in Tasks \ {t} :
          /\ s \in tasks' <=> s \in tasks
          /\ s \in rows' <=> s \in rows
          /\ s \in failed' <=> s \in failed
          /\ row'[s] = row[s] /\ rec'[s] = rec[s]
    BY <2>1, <2>2, <1>t DEF TypeOK
  <2> QED
    BY <2>2, <2>3, <2>4, <2>5, <1>o
\* Disable, enable and fire: record and row of t are given the same values.
<1>w. ASSUME NEW t \in tasks, NEW ok \in BOOLEAN, NEW r, Updated(t, ok, r),
             r.enabled <=> r.next # None, rec'[t].enabled = r.enabled, rec'[t].next = r.next,
             tasks' = tasks, rows' = rows, started' = started,
             \A s \in Tasks \ {t} : rec'[s] = rec[s]
      PROVE  TableInv'
  <2>1. t \in Tasks /\ row'[t] = (IF ok /\ t \in rows THEN r ELSE row[t])
    BY <1>w, <1>t DEF Updated, TypeOK
  <2>2. t \in failed' <=> ~ok \/ (t \notin rows /\ t \in failed)
    BY <1>w DEF Updated
  <2>3. t \in Persist \ failed' => Mirrored(t)'
    BY <1>w, <2>1, <2>2 DEF TableInv, Mirrored, Agree
  <2>4. (t \notin rows' => ~row'[t].enabled) /\ (row'[t].enabled <=> row'[t].next # None)
    BY <1>w, <2>1 DEF TableInv, RowShape
  <2>5. \A s \in Tasks \ {t} : row'[s] = row[s] /\ (s \in failed' <=> s \in failed)
    BY <1>w, <1>t DEF Updated, TypeOK
  <2> QED
    BY <1>w, <2>1, <2>3, <2>4, <2>5, <1>o
<1>3. ASSUME NEW t \in Tasks, Disable(t) PROVE TableInv'
  <2>1. PICK ok \in StoreOutcomes(t) : Updated(t, ok, BlankRow)
    BY <1>3 DEF Disable
  <2>2. ok \in BOOLEAN
    BY DEF StoreOutcomes
  <2>3. /\ t \in tasks /\ rec' = [rec EXCEPT ![t] = Disarmed(rec[t])]
        /\ tasks' = tasks /\ rows' = rows /\ started' = started
    BY <1>3 DEF Disable
  <2>4. rec'[t].enabled = FALSE /\ rec'[t].next = None /\ \A s \in Tasks \ {t} : rec'[s] = rec[s]
    BY <2>3, <1>t DEF Disarmed, TypeOK
  <2>5. BlankRow.enabled = FALSE /\ BlankRow.next = None
    BY DEF BlankRow
  <2> QED
    BY <2>1, <2>2, <2>3, <2>4, <2>5, <1>w
<1>4. ASSUME NEW t \in Tasks, Enable(t) PROVE TableInv'
  <2> DEFINE r == [enabled |-> TRUE, next |-> ResumedFire(t)]
  <2>1. PICK e \in Free, ok \in StoreOutcomes(t) :
          rec' = [rec EXCEPT ![t] = Armed(rec[t], ResumedFire(t), e)] /\ Updated(t, ok, r)
    BY <1>4 DEF Enable
  <2>2. ok \in BOOLEAN
    BY DEF StoreOutcomes
  <2>3. t \in tasks /\ tasks' = tasks /\ rows' = rows /\ started' = started
    BY <1>4 DEF Enable
  <2>4. rec'[t].enabled = TRUE /\ rec'[t].next = ResumedFire(t) /\ \A s \in Tasks \ {t} : rec'[s] = rec[s]
    BY <2>1, <1>t DEF Armed, TypeOK
  <2>5. r.enabled = TRUE /\ r.next = ResumedFire(t) /\ r.next # None
    BY <1>t, FireTimes, ScheduleAssumption
  <2> HIDE DEF r
  <2> QED
    BY <2>1, <2>2, <2>3, <2>4, <2>5, <1>w
<1>5. ASSUME NEW t \in Tasks, WorkerFire(t) PROVE TableInv'
  <2> DEFINE r == [enabled |-> NextFire(t) # None, next |-> NextFire(t)]
  <2>1. PICK e \in heap, ok \in StoreOutcomes(t) : FireWith(t, e, ok)
    BY <1>5 DEF WorkerFire
  <2>2. ok \in BOOLEAN /\ t \in tasks
    BY <1>5 DEF StoreOutcomes, WorkerFire
  <2>3. /\ rec' = [rec EXCEPT ![t] =
              IF NextFire(t) = None THEN Disarmed(rec[t]) ELSE Armed(rec[t], NextFire(t), e)]
        /\ Updated(t, ok, r) /\ tasks' = tasks /\ rows' = rows /\ started' = started
    BY <2>1 DEF FireWith
  <2>4. /\ rec'[t].enabled = (NextFire(t) # None) /\ rec'[t].next = NextFire(t)
        /\ \A s \in Tasks \ {t} : rec'[s] = rec[s]
    BY <2>3, <1>t DEF Armed, Disarmed, TypeOK
  <2>5. r.enabled = (NextFire(t) # None) /\ r.next = NextFire(t)
    OBVIOUS
  <2> HIDE DEF r
  <2> QED
    BY <2>2, <2>3, <2>4, <2>5, <1>w
<1>6. ASSUME NEW o, UnregisterByOwner(o) PROVE TableInv'
  <2>1. /\ rec' = [s \in Tasks |-> IF s \in tasks' THEN rec[s] ELSE Blank]
        /\ row' = [s \in Tasks |-> IF s \in rows' THEN row[s] ELSE BlankRow]
        /\ started' = started
    BY <1>6 DEF UnregisterByOwner, Unregistered
  <2>2. RowShape'
    BY <2>1 DEF TableInv, RowShape, BlankRow
  <2>3. /\ tasks' \subseteq tasks /\ rows' \subseteq rows
        /\ \A s \in Persist \ failed' : /\ s \notin failed \/ (s \notin rows' /\ s \notin tasks')
                                        /\ s \in tasks' /\ s \in rows => s \in rows'
                                        /\ s \in rows' /\ s \in tasks => s \in tasks'
    <3> SUFFICES ASSUME NEW gone, NEW deleted, NEW raised, Unregistered(gone, deleted, raised),
                        \A s \in Persist : \/ s \in gone /\ s \in deleted
                                           \/ s \notin gone /\ s \notin deleted
                                           \/ s \in gone /\ s \in raised
                                           \/ s \notin tasks /\ s \notin deleted
                 PROVE  /\ tasks' \subseteq tasks /\ rows' \subseteq rows
                        /\ \A s \in Persist \ failed' : /\ s \notin failed \/ (s \notin rows' /\ s \notin tasks')
                                                        /\ s \in tasks' /\ s \in rows => s \in rows'
                                                        /\ s \in rows' /\ s \in tasks => s \in tasks'
      <4> DEFINE mine == tasks \cap Owned(o)
      <4>1. CASE Unregistered(Owned(o), Owned(o), {})
        <5> HIDE DEF mine
        <5> QED
          BY <4>1
      <4>2. CASE Unregistered(mine, mine, {})
        <5> HIDE DEF mine
        <5> QED
          BY <4>2
      <4>3. ASSUME NEW t \in mine, NEW Done \in SUBSET mine, Unregistered(Done \cup {t}, Done, {t})
            PROVE  \E gone, deleted, raised :
                      /\ Unregistered(gone, deleted, raised)
                      /\ \A s \in Persist :
                            \/ s \in gone /\ s \in deleted
                            \/ s \notin gone /\ s \notin deleted
                            \/ s \in gone /\ s \in raised
                            \/ s \notin tasks /\ s \notin deleted
        <5>1. ASSUME NEW s
              PROVE  \/ s \in Done \cup {t} /\ s \in Done
                     \/ s \notin Done \cup {t} /\ s \notin Done
                     \/ s \in Done \cup {t} /\ s \in {t}
                     \/ s \notin tasks /\ s \notin Done
          <6>1. CASE s = t
            BY <6>1
          <6>2. CASE s # t
            BY <6>2
          <6> QED
            BY <6>1, <6>2
        <5> QED
          BY <4>3, <5>1
      <4> QED
        BY <1>6, <4>1, <4>2, <4>3 DEF UnregisterByOwner
    <3> QED
      BY DEF Unregistered
  <2>4. ASSUME NEW s \in Persist \ failed' PROVE Mirrored(s)'
    <3>1. s \in Tasks
      BY <1>t
    <3>2. CASE s \notin failed
      BY <2>1, <2>3, <2>4, <3>1, <3>2 DEF TableInv, Mirrored, Agree
    <3>3. CASE s \in failed
      BY <2>3, <2>4, <3>3 DEF Mirrored
    <3> QED
      BY <3>2, <3>3
  <2> QED
    BY <1>t, <2>2, <2>4 DEF TableInv
<1>r. ASSUME NEW R \in SUBSET Recovered, NEW bound \in BOOLEAN, Recover(R, bound),
             started' => R = Recovered
      PROVE  TableInv'
  <2>1. /\ tasks' = tasks \cup R /\ rows' = rows /\ failed' = failed \ R
        /\ \A t \in Tasks :
              /\ row'[t] = IF t \in R THEN RecoveredRow(t) ELSE row[t]
              /\ rec'[t].enabled = IF t \in R THEN RecoveredEnabled(t) ELSE rec[t].enabled
              /\ rec'[t].next = IF t \in R THEN RecoveredNext(t) ELSE rec[t].next
    BY <1>r DEF Recover
  <2>2. R \subseteq Tasks /\ R \subseteq rows /\ R \cap tasks = {}
    BY <1>t DEF Recovered, TypeOK
  <2>3. \A t \in Tasks : (row[t].enabled <=> row[t].next # None) /\ (t \notin rows => ~row[t].enabled)
    BY DEF TableInv, RowShape
  <2>4. ASSUME NEW t \in Tasks PROVE RecoveredEnabled(t) <=> RecoveredNext(t) # None
    BY <1>t, <2>4, RecoveryTimes, ScheduleAssumption
  <2>5. RowShape'
    <3>1. ASSUME NEW t \in R PROVE row'[t].enabled <=> row'[t].next # None
      <4>1. RecoveredRow(t) = row[t] \/ (/\ RecoveredRow(t).enabled = RecoveredEnabled(t)
                                        /\ RecoveredRow(t).next = RecoveredNext(t))
        BY DEF RecoveredRow, Rewritten
      <4> QED
        BY <2>1, <2>2, <2>3, <2>4, <4>1
    <3> QED
      BY <2>1, <2>2, <2>3, <3>1 DEF RowShape
  <2>6. ASSUME NEW t \in R PROVE Agree(t)'
    <3>1. CASE Misfired(t) /\ t \notin FireOnce
      <4>1. RecoveredRow(t).enabled = RecoveredEnabled(t) /\ RecoveredRow(t).next = RecoveredNext(t)
        BY <3>1 DEF RecoveredRow, Rewritten
      <4> QED
        BY <2>1, <2>2, <4>1 DEF Agree
    <3>2. CASE Misfired(t) /\ t \in FireOnce
      <4>1. RecoveredEnabled(t) /\ RecoveredNext(t) = now /\ RecoveredRow(t) = row[t]
        BY <3>2, <2>2, <2>3 DEF RecoveredEnabled, RecoveredNext, RecoveredRow, Rewritten, Misfired
      <4>2. row[t].enabled /\ row[t].next < now
        BY <3>2 DEF Misfired
      <4>3. row[t].enabled \in BOOLEAN /\ RecoveredEnabled(t) \in BOOLEAN
        BY <1>t, <2>2, RecoveryTimes DEF TypeOK
      <4> QED
        BY <2>1, <2>2, <3>2, <4>1, <4>2, <4>3 DEF Agree
    <3>3. CASE ~Misfired(t)
      <4>1. RecoveredRow(t) = row[t]
        BY <2>2, <2>3, <3>3 DEF RecoveredRow, Rewritten
      <4>2. RecoveredEnabled(t) = row[t].enabled
        BY <2>2, <3>3, <1>t DEF RecoveredEnabled, TypeOK
      <4>3. RecoveredNext(t) = row[t].next
        BY <2>2, <2>3, <3>3, <4>2 DEF RecoveredNext
      <4> QED
        BY <2>1, <2>2, <4>1, <4>2, <4>3 DEF Agree
    <3> QED
      BY <3>1, <3>2, <3>3
  <2>7. ASSUME NEW t \in Persist \ failed' PROVE Mirrored(t)'
    <3>1. started' => (t \in rows' => t \in tasks')
      BY <1>r, <2>1 DEF Recovered
    <3>2. CASE t \in R
      BY <2>1, <2>2, <2>6, <3>1, <3>2 DEF Mirrored
    <3>3. CASE t \notin R
      BY <1>t, <2>1, <2>7, <3>1, <3>3 DEF TableInv, Mirrored, Agree
    <3> QED
      BY <3>2, <3>3
  <2> QED
    BY <1>t, <2>5, <2>7 DEF TableInv
<1>7. CASE Start \/ StartFails
  <2>1. CASE Start
    BY <2>1, <1>r DEF Start
  <2>2. CASE StartFails
    <3>1. PICK Done \in SUBSET Recovered : Recover(Done, FALSE)
      BY <2>2 DEF StartFails
    <3>2. ~started'
      BY <2>2 DEF StartFails
    <3> QED
      BY <3>1, <3>2, <1>r
  <2> QED
    BY <1>7, <2>1, <2>2
<1>8. CASE WorkerIdle \/ WorkerSleep \/ WorkerWake \/ WorkerExit \/ WorkerPop
  BY <1>8, <1>u DEF WorkerIdle, WorkerSleep, Wait, WorkerWake, WorkerExit, WorkerPop, memory, table, loop
<1>9. ASSUME NEW t \in Tasks, CallbackDone(t) PROVE TableInv'
  BY <1>9, <1>u DEF CallbackDone, memory, table, loop
<1>10. CASE StopBegin \/ StopJoin \/ Tick
  BY <1>10, <1>u DEF StopBegin, StopJoin, Tick, memory, table, loop
<1>11. CASE StopEnd \/ Crash
  <2>1. /\ started' = FALSE /\ UNCHANGED <<rows, row, failed>>
        /\ tasks' = {} \/ (tasks' = tasks /\ rec' = rec)
    BY <1>11 DEF StopEnd, Crash, memory, table
  <2> QED
    BY <1>t, <2>1 DEF TableInv, RowShape, Mirrored, Agree
<1>12. CASE UNCHANGED vars
  BY <1>12, <1>u DEF vars, memory, table, loop
<1> QED
  BY <1>1, <1>2, <1>3, <1>4, <1>5, <1>6, <1>7, <1>8, <1>9, <1>10, <1>11, <1>12
  DEF Next, Public, Worker, Stopping

\* Whatever was registered, fired, disabled or interrupted: the table says what
\* a restart needs of every task whose store calls did not raise, and start()
\* never meets a row it cannot resume.
THEOREM TableTheorem == Spec => []TableMatchesMemory
<1>1. Init => TableInv
  <2> SUFFICES ASSUME Init PROVE TableInv
    OBVIOUS
  <2>1. HeapInv
    BY InitHeap
  <2> QED
    BY <2>1 DEF Init, TableInv, RowShape, Mirrored, BlankRow
<1>2. TableInv => TableMatchesMemory
  <2> SUFFICES ASSUME TableInv PROVE TableMatchesMemory
    OBVIOUS
  <2>1. ~StartRaises
    BY ScheduleAssumption DEF StartRaises, Recovered, TableInv, HeapInv, TypeOK, RowShape
  <2> QED
    BY <2>1 DEF TableInv, Mirrored, TableMatchesMemory
<1> QED
  BY <1>1, <1>2, TableStep, PTL DEF Spec
=============================================================================
