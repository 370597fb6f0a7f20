--------------------------- MODULE LtmIngestProofs ---------------------------
(***************************************************************************)
(* Proofs about LtmIngest, for any threads, facts, window sizes, failures  *)
(* and crashes.  The inductive invariant says what the worker's job stands *)
(* for while the tables go on growing under it (JobInv) and how far its    *)
(* windows have come (Handled).                                            *)
(*                                                                         *)
(* Then about the functions of MCFunctions that TLAPS reaches: the windows *)
(* of slice_fact_windows cover whatever they are cut from, what is staged  *)
(* stays within the limits, ranges of times meet when they share a time,   *)
(* the best matching case decides, and a session decides as its form and   *)
(* its default surfaces say.                                               *)
(***************************************************************************)
EXTENDS LtmIngest, MCFunctions, FiniteSetTheorems, SequenceTheorems, WellFoundedInduction, TLAPS

Fact == Kinds \X (1..MaxFacts)

\* The tables and the locals of the worker have their types, and no cursor is
\* ahead of its table.
TableInv ==
    /\ facts \in [Threads -> [Kinds -> Seq(1..MaxTime)]]
    /\ cursor \in [Threads -> [Kinds -> 0..MaxFacts]]
    /\ \A t \in Threads, k \in Kinds : cursor[t][k] <= Len(facts[t][k])
    /\ \A t \in Threads, k \in Kinds : Len(facts[t][k]) <= MaxFacts
    /\ remembered \in [Threads -> SUBSET Fact] /\ failed \in [Threads -> SUBSET Fact]
    /\ dirty \subseteq Threads
    /\ job \in [thread : Nat, batch : Seq(Fact), start : Nat, next : [Kinds -> 0..MaxFacts]]
    /\ worker \in {"load", "windows", "cursor"} => job.thread \in Threads

\* The job's new cursors lie between the old ones and the ends of the tables,
\* and every fact between old and new is in the batch.
JobInv ==
    worker \in {"windows", "cursor"} =>
        LET t == job.thread
        IN /\ \A k \in Kinds : cursor[t][k] <= job.next[k] /\ job.next[k] <= Len(facts[t][k])
           /\ \A f \in Fact : cursor[t][f[1]] < f[2] /\ f[2] <= job.next[f[1]] =>
                  \E i \in 1..Len(job.batch) : job.batch[i] = f

\* The batch is remembered or recorded up to where the next window starts.
Handled ==
    \A i \in 1..Len(job.batch) :
        (worker = "windows" /\ i <= job.start) \/ worker = "cursor" =>
            job.batch[i] \in remembered[job.thread] \cup failed[job.thread]

\* NoLostSignal also between two processes.
Signalled ==
    \A t \in Threads :
        Past(t, Aim(t)) # {} =>
            t \in dirty \cup left \cup missed \/ (worker = "load" /\ job.thread = t)

IInv == TableInv /\ JobInv /\ Handled /\ NothingSkipped /\ Signalled

-----------------------------------------------------------------------------
\* The worker runs only between start and stop, and the scan looks at a
\* thread.
TaskInv ==
    /\ ~ started => worker = "off"
    /\ scan = "check" => look.thread \in Threads

\* Tasks exist only while the ingestor is started.
LEMMA TaskStep == TaskInv /\ [Next]_vars => TaskInv'
<1> SUFFICES ASSUME TaskInv, [Next]_vars PROVE TaskInv' OBVIOUS
<1> USE DEF TaskInv, tables, signals, work, scanning, histories, bounds
<1>1. ASSUME NEW t \in Threads, NEW k \in Kinds, NEW at \in 1..MaxTime, SaveFact(t, k, at) PROVE TaskInv'
  BY <1>1 DEF SaveFact
<1>2. ASSUME NEW t \in Threads, SaveThread(t) \/ ScanRead(t) PROVE TaskInv' BY <1>2 DEF SaveThread, ScanRead
<1>3. CASE Start \/ StopBegin \/ StopWake \/ StopEnd \/ Crash
  BY <1>3 DEF Start, StopBegin, StopWake, StopEnd, Crash
<1>4. CASE WorkerTakes \/ WorkerSleeps \/ WorkerWakes \/ WorkerEnds
  BY <1>4 DEF WorkerTakes, WorkerSleeps, WorkerWakes, WorkerEnds
<1>5. CASE Load \/ WindowStored \/ WindowFails \/ SaveCursor \/ GiveUp
  <2>1. worker # "off" /\ UNCHANGED <<started, scan, look>>
    BY <1>5 DEF Load, WindowStored, WindowFails, SaveCursor, GiveUp
  <2>2. QED BY <2>1
<1>6. CASE ScanList \/ ScanCheck \/ ScanFails \/ ScanEnds
  BY <1>6 DEF ScanList, ScanCheck, ScanFails, ScanEnds
<1>7. CASE UNCHANGED vars BY <1>7 DEF vars
<1>8. QED BY <1>1, <1>2, <1>3, <1>4, <1>5, <1>6, <1>7 DEF Next, Worker, Scan

\* The empty job has the type of a job.
LEMMA NoJobType ==
    /\ NoJob \in [thread : Nat, batch : Seq(Fact), start : Nat, next : [Kinds -> 0..MaxFacts]]
    /\ Zero \in [Kinds -> 0..MaxFacts]
BY IngestAssumption DEF NoJob, Zero

\* A layout of a set of facts is a sequence that holds each of them.
LEMMA OrdersType ==
    ASSUME NEW t, NEW c, NEW s \in Orders(t, Past(t, c))
    PROVE  /\ s \in Seq(Fact)
           /\ \A f \in Past(t, c) : \E i \in 1..Len(s) : s[i] = f
<1> DEFINE D == Past(t, c)
<1>1. D \subseteq Fact BY DEF Past, Fact
<1>2. IsFiniteSet(Fact)
  <2>1. IsFiniteSet({"event"} \cup {"message"}) BY FS_Singleton, FS_AddElement
  <2>2. Kinds = {"event"} \cup {"message"} BY DEF Kinds
  <2>3. IsFiniteSet(1..MaxFacts) BY FS_Interval, IngestAssumption
  <2>4. QED BY <2>1, <2>2, <2>3, FS_Product DEF Fact
<1>3. Cardinality(D) \in Nat BY <1>1, <1>2, FS_Subset, FS_CardinalityType
<1>4. s \in [1..Cardinality(D) -> D] /\ \A f \in D : \E i \in DOMAIN s : s[i] = f
  BY DEF Orders
<1> HIDE DEF D
<1>5. s \in Seq(D) /\ Len(s) = Cardinality(D) BY <1>3, <1>4
<1>6. s \in Seq(Fact) BY <1>1, <1>5
<1>7. QED BY <1>3, <1>4, <1>5, <1>6 DEF D

\* Windows and steps: a step is not longer than a window.
LEMMA StepWithinWindow ==
    /\ WindowSize(Size) \in Nat /\ WindowSize(Size) >= 1
    /\ StepSize(Size, Overlap) \in Nat /\ StepSize(Size, Overlap) <= WindowSize(Size)
BY IngestAssumption DEF WindowSize, StepSize, Larger

\* A window of the batch is a set of facts of it.
LEMMA WindowType ==
    ASSUME TableInv
    PROVE  /\ Window \subseteq Fact
           /\ \A i \in 1..Len(job.batch) :
                  job.start < i /\ i <= job.start + WindowSize(Size) => job.batch[i] \in Window
<1>1. job.batch \in Seq(Fact) BY DEF TableInv
<1>2. \A i \in 1..Len(job.batch) : job.batch[i] \in Fact BY <1>1
<1>3. QED BY <1>2 DEF Window, WindowAt

\* The state that no fact was lost in is the initial one.
LEMMA InitInv == Init => IInv
<1> SUFFICES ASSUME Init PROVE IInv OBVIOUS
<1> USE IngestAssumption DEF Init, Zero, NoJob
<1>1. TableInv BY DEF TableInv, Kinds, Fact
<1>2. JobInv /\ Handled BY DEF JobInv, Handled
<1>3. NothingSkipped BY DEF NothingSkipped, Passed, Kinds
<1>4. Signalled BY DEF Signalled, Past, Aim, Kinds
<1>5. QED BY <1>1, <1>2, <1>3, <1>4 DEF IInv

\* A window done, stored or recorded as failed, keeps the invariant.
LEMMA WindowStep ==
    ASSUME IInv, worker = "windows", NextWindow,
           remembered' \in [Threads -> SUBSET Fact], failed' \in [Threads -> SUBSET Fact],
           \A t \in Threads : remembered[t] \subseteq remembered'[t] /\ failed[t] \subseteq failed'[t],
           Window \subseteq remembered'[job.thread] \cup failed'[job.thread],
           UNCHANGED <<facts, cursor, dirty, left, missed>>
    PROVE  IInv'
<1> USE DEF IInv
<1>1. job.thread \in Threads /\ job.start \in Nat /\ Len(job.batch) \in Nat BY DEF TableInv
<1>2. /\ job'.thread = job.thread /\ job'.batch = job.batch /\ job'.next = job.next
      /\ job'.start \in Nat /\ worker' \in {"windows", "cursor"}
      /\ job' \in [thread : Nat, batch : Seq(Fact), start : Nat, next : [Kinds -> 0..MaxFacts]]
  <2> DEFINE J == [thread : Nat, batch : Seq(Fact), start : Nat, next : [Kinds -> 0..MaxFacts]]
             n == job.start + StepSize(Size, Overlap)
  <2>1. job \in J BY DEF TableInv
  <2>2. n \in Nat BY <1>1, StepWithinWindow
  <2>3. CASE job' = job /\ worker' = "cursor" BY <2>1, <2>3
  <2>4. CASE job' = [job EXCEPT !.start = n] /\ worker' = worker
    <3> HIDE DEF n
    <3>1. QED BY <2>1, <2>2, <2>4
  <2>5. QED BY <2>3, <2>4 DEF NextWindow
<1>3. TableInv' BY <1>1, <1>2 DEF TableInv
<1>4. JobInv' BY <1>2 DEF JobInv
<1>5. Handled'
  <2> SUFFICES ASSUME NEW i \in 1..Len(job.batch),
                      (worker' = "windows" /\ i <= job'.start) \/ worker' = "cursor"
               PROVE  job.batch[i] \in remembered'[job.thread] \cup failed'[job.thread]
    BY <1>2 DEF Handled
  <2>1. i <= job.start + WindowSize(Size)
    BY <1>1, StepWithinWindow DEF NextWindow, TableInv
  <2>2. CASE i <= job.start BY <2>2, <1>1 DEF Handled
  <2>3. CASE job.start < i BY <2>1, <2>3, WindowType
  <2>4. QED BY <2>2, <2>3, <1>1
<1>6. NothingSkipped' BY DEF NothingSkipped, Passed
<1>7. Signalled'
  <2>1. \A t \in Threads : Aim(t)' = Aim(t) BY <1>2 DEF Aim
  <2>2. QED BY <2>1, <1>2 DEF Signalled, Past
<1>8. QED BY <1>3, <1>4, <1>5, <1>6, <1>7

Busy == {"load", "windows", "cursor"}

\* A step that leaves the tables and a running job alone and loses no signal
\* keeps the invariant.
LEMMA QuietStep ==
    ASSUME IInv, UNCHANGED <<facts, cursor, remembered, failed, job>>,
           worker' = worker \/ (worker \notin Busy /\ worker' \notin Busy),
           dirty' \subseteq Threads,
           dirty \cup left \cup missed \subseteq dirty' \cup left' \cup missed'
    PROVE  IInv'
<1> USE DEF IInv, Busy
<1>1. TableInv' BY DEF TableInv
<1>2. JobInv' /\ Handled' BY DEF JobInv, Handled
<1>3. NothingSkipped' BY DEF NothingSkipped, Passed
<1>4. Signalled' BY DEF Signalled, Past, Aim
<1>5. QED BY <1>1, <1>2, <1>3, <1>4

\* The end of a process: whoever is behind is left.
LEMMA EndStep ==
    ASSUME IInv, UNCHANGED <<facts, cursor, remembered, failed>>,
           worker' = "off", job' = job \/ job' = NoJob, dirty' = {},
           left' = {t \in Threads : Behind(t)}
    PROVE  IInv'
<1> USE DEF IInv
<1>1. TableInv' BY NoJobType DEF TableInv
<1>2. JobInv' /\ Handled' BY DEF JobInv, Handled
<1>3. NothingSkipped' BY DEF NothingSkipped, Passed
<1>4. Signalled' BY DEF Signalled, Past, Aim, Behind
<1>5. QED BY <1>1, <1>2, <1>3, <1>4

\* A new fact has a signal, and lies past what the worker aims at.
LEMMA SaveFactStep ==
    ASSUME IInv, NEW t \in Threads, NEW k \in Kinds, NEW at \in 1..MaxTime, SaveFact(t, k, at)
    PROVE  IInv'
<1> USE DEF IInv
<1>1. facts \in [Threads -> [Kinds -> Seq(1..MaxTime)]] BY DEF TableInv
<1>2. facts' = [facts EXCEPT ![t][k] = Append(@, at)] /\ Len(facts[t][k]) < MaxFacts
  BY DEF SaveFact
<1>3. facts[t][k] \in Seq(1..MaxTime) BY <1>1
<1>4. facts'[t][k] = Append(facts[t][k], at) BY <1>1, <1>2
<1>5. Len(facts'[t][k]) = Len(facts[t][k]) + 1 BY <1>3, <1>4
<1>6. \A u \in Threads, l \in Kinds : ~ (u = t /\ l = k) => facts'[u][l] = facts[u][l]
  BY <1>1, <1>2
<1>7. facts' \in [Threads -> [Kinds -> Seq(1..MaxTime)]] BY <1>1, <1>2, <1>3
<1>8. \A u \in Threads, l \in Kinds :
        Len(facts'[u][l]) \in Nat /\ Len(facts[u][l]) <= Len(facts'[u][l]) /\ Len(facts'[u][l]) <= MaxFacts
  <2> SUFFICES ASSUME NEW u \in Threads, NEW l \in Kinds
               PROVE Len(facts'[u][l]) \in Nat /\ Len(facts[u][l]) <= Len(facts'[u][l]) /\ Len(facts'[u][l]) <= MaxFacts
    OBVIOUS
  <2>1. Len(facts[u][l]) \in Nat /\ Len(facts[u][l]) <= MaxFacts BY <1>1 DEF TableInv
  <2>2. CASE u = t /\ l = k BY <2>1, <2>2, <1>2, <1>5, IngestAssumption
  <2>3. CASE ~ (u = t /\ l = k) BY <2>1, <2>3, <1>6, IngestAssumption
  <2>4. QED BY <2>2, <2>3
<1>9. /\ cursor' = cursor /\ remembered' = remembered /\ failed' = failed
      /\ job' = job /\ worker' = worker /\ dirty' = dirty \cup {t}
      /\ left' = left \ {t} /\ missed' = missed \ {t}
  BY DEF SaveFact, MarkDirty, work
<1> USE IngestAssumption
<1>10. TableInv'
  <2>1. \A u \in Threads, l \in Kinds : cursor[u][l] <= Len(facts'[u][l])
    <3> SUFFICES ASSUME NEW u \in Threads, NEW l \in Kinds PROVE cursor[u][l] <= Len(facts'[u][l])
      OBVIOUS
    <3>1. cursor[u][l] \in Nat /\ Len(facts[u][l]) \in Nat /\ cursor[u][l] <= Len(facts[u][l])
      BY <1>1 DEF TableInv
    <3>2. PICK c, m, l2 : c = cursor[u][l] /\ m = Len(facts[u][l]) /\ l2 = Len(facts'[u][l])
        OBVIOUS
    <3>3. l2 \in Nat /\ m <= l2
        BY <1>8, <3>2
    <3>4. c <= l2
        BY <3>1, <3>2, <3>3
    <3>5. QED BY <3>2, <3>4
  <2>2. QED BY <2>1, <1>7, <1>8, <1>9 DEF TableInv
<1>11. JobInv'
  <2> SUFFICES ASSUME worker \in {"windows", "cursor"} PROVE JobInv' BY <1>9 DEF JobInv
  <2>1. job.thread \in Threads BY DEF TableInv
  <2>2. \A l \in Kinds : job.next[l] <= Len(facts'[job.thread][l])
    <3> SUFFICES ASSUME NEW l \in Kinds PROVE job.next[l] <= Len(facts'[job.thread][l])
      OBVIOUS
    <3>0. job.next \in [Kinds -> 0..MaxFacts] BY DEF TableInv
    <3>1. job.next[l] \in Nat /\ job.next[l] <= Len(facts[job.thread][l]) BY <3>0 DEF JobInv
    <3>2. Len(facts[job.thread][l]) \in Nat BY <1>1, <2>1
    <3> DEFINE a == job.next[l]
               b == Len(facts[job.thread][l])
               c == Len(facts'[job.thread][l])
    <3>3. c \in Nat /\ b <= c BY <2>1, <1>8
    <3>4. a \in Nat /\ a <= b /\ b \in Nat BY <3>1, <3>2
    <3> HIDE DEF a, b, c
    <3>5. a <= c BY <3>3, <3>4
    <3>6. QED BY <3>5 DEF a, c
  <2>3. QED BY <2>2, <1>9 DEF JobInv
<1>12. Handled' /\ NothingSkipped' BY <1>9 DEF Handled, NothingSkipped, Passed
<1>13. Signalled'
  <2> SUFFICES ASSUME NEW u \in Threads, u # t
               PROVE  Past(u, Aim(u))' # {} =>
                          u \in dirty' \cup left' \cup missed' \/ (worker' = "load" /\ job'.thread = u)
    BY <1>9 DEF Signalled
  <2>1. \A l \in Kinds : facts'[u][l] = facts[u][l] BY <1>6
  <2>2. Aim(u)' = Aim(u) BY <1>9 DEF Aim
  <2>3. Past(u, Aim(u))' = Past(u, Aim(u)) BY <2>1, <2>2 DEF Past
  <2>4. QED BY <2>3, <1>9 DEF Signalled
<1>14. QED BY <1>10, <1>11, <1>12, <1>13

\* Taking a dirty thread moves its signal into the worker.
LEMMA TakeStep == ASSUME IInv, WorkerTakes PROVE IInv'
<1> USE DEF IInv
<1>1. PICK t \in dirty : dirty' = dirty \ {t} /\ job' = [NoJob EXCEPT !.thread = t]
  BY DEF WorkerTakes, Take
<1>2. /\ worker = "top" /\ worker' = "load"
      /\ UNCHANGED <<facts, cursor, remembered, failed, left, missed>>
  BY DEF WorkerTakes, tables, histories
<1>3. t \in Threads /\ t \in Nat BY <1>1, IngestAssumption DEF TableInv
<1>4. job' = [thread |-> t, batch |-> <<>>, start |-> 0, next |-> Zero] BY <1>1 DEF NoJob
<1>5. TableInv'
  <2>1. job' \in [thread : Nat, batch : Seq(Fact), start : Nat, next : [Kinds -> 0..MaxFacts]]
    BY <1>3, <1>4, NoJobType
  <2>2. job'.thread = t BY <1>4
  <2>3. dirty' \subseteq Threads BY <1>1 DEF TableInv
  <2>4. QED BY <1>2, <1>3, <2>1, <2>2, <2>3 DEF TableInv
<1>6. JobInv' /\ Handled' BY <1>2 DEF JobInv, Handled
<1>7. NothingSkipped' BY <1>2 DEF NothingSkipped, Passed
<1>8. Signalled' BY <1>1, <1>2, <1>4 DEF Signalled, Past, Aim
<1>9. QED BY <1>5, <1>6, <1>7, <1>8

\* Reading the delta: the batch holds all there is past the cursors.
LEMMA LoadStep == ASSUME IInv, Load PROVE IInv'
<1> USE DEF IInv
<1> DEFINE t == job.thread
<1>1. /\ worker = "load" /\ t \in Threads
      /\ UNCHANGED <<facts, cursor, remembered, failed, dirty, left, missed>>
  BY DEF Load, TableInv, tables, signals, histories
<1>2. CASE Behind(t)
  <2>1. PICK s \in Orders(t, Past(t, cursor[t])) :
          /\ worker' = "windows"
          /\ job' = [thread |-> t, batch |-> s, start |-> 0, next |-> NextCursor(t, cursor[t])]
    BY <1>2 DEF Load
  <2>2. /\ s \in Seq(Fact)
        /\ \A f \in Past(t, cursor[t]) : \E i \in 1..Len(s) : s[i] = f
    BY OrdersType
  <2> DEFINE n == NextCursor(t, cursor[t])
  <2>3. /\ facts[t] \in [Kinds -> Seq(1..MaxTime)] /\ cursor[t] \in [Kinds -> 0..MaxFacts]
        /\ \A k \in Kinds : /\ Len(facts[t][k]) \in Nat /\ cursor[t][k] <= Len(facts[t][k])
                            /\ Len(facts[t][k]) <= MaxFacts
    BY <1>1 DEF TableInv
  <2>4. \A k \in Kinds : n[k] = Len(facts[t][k])
    BY <2>3, IngestAssumption DEF NextCursor
  <2>5. n \in [Kinds -> 0..MaxFacts] BY <2>3, <2>4, IngestAssumption DEF NextCursor
  <2> HIDE DEF n
  <2>6. job'.thread = t /\ job'.batch = s /\ job'.start = 0 /\ job'.next = n
    BY <2>1 DEF n
  <2>7. TableInv'
    <3>1. job' \in [thread : Nat, batch : Seq(Fact), start : Nat, next : [Kinds -> 0..MaxFacts]]
      BY <2>1, <2>2, <2>5, <1>1, IngestAssumption DEF n
    <3>2. QED BY <1>1, <2>6, <3>1 DEF TableInv
  <2>8. JobInv'
    <3>1. \A f \in Fact : cursor[t][f[1]] < f[2] /\ f[2] <= n[f[1]] => f \in Past(t, cursor[t])
      BY <2>4 DEF Fact, Past
    <3>2. \A k \in Kinds : cursor[t][k] <= n[k] /\ n[k] <= Len(facts[t][k]) BY <2>3, <2>4
    <3>3. QED BY <1>1, <2>2, <2>6, <3>1, <3>2 DEF JobInv
  <2>9. Handled' BY <2>1, <2>6 DEF Handled
  <2>10. NothingSkipped' BY <1>1 DEF NothingSkipped, Passed
  <2>11. Signalled'
    <3> SUFFICES ASSUME NEW u \in Threads, Past(u, Aim(u))' # {}
                 PROVE u \in dirty \cup left \cup missed
      BY <1>1 DEF Signalled
    <3>1. CASE u = t
      <4>1. Aim(u)' = n BY <2>1, <2>6, <3>1 DEF Aim
      <4>2. Past(u, Aim(u))' = {} BY <1>1, <2>3, <2>4, <3>1, <4>1 DEF Past
      <4>3. QED BY <4>2
    <3>2. CASE u # t
      <4>1. Aim(u)' = Aim(u) BY <1>1, <2>6, <3>2 DEF Aim
      <4>2. Past(u, Aim(u))' = Past(u, Aim(u)) BY <1>1, <4>1 DEF Past
      <4>3. QED BY <3>2, <4>2 DEF Signalled
    <3>3. QED BY <3>1, <3>2
  <2>12. QED BY <2>7, <2>8, <2>9, <2>10, <2>11
<1>3. CASE ~ Behind(t)
  <2>1. worker' = "top" /\ job' = NoJob BY <1>3 DEF Load
  <2>2. TableInv' BY <1>1, <2>1, IngestAssumption DEF TableInv, NoJob, Zero
  <2>3. JobInv' /\ Handled' BY <2>1 DEF JobInv, Handled
  <2>4. NothingSkipped' BY <1>1 DEF NothingSkipped, Passed
  <2>5. Signalled' BY <1>1, <1>3, <2>1 DEF Signalled, Past, Aim, Behind
  <2>6. QED BY <2>2, <2>3, <2>4, <2>5
<1>4. QED BY <1>2, <1>3

\* The new cursors pass only what the windows have handled.
LEMMA SaveCursorStep == ASSUME IInv, SaveCursor PROVE IInv'
<1> USE DEF IInv
<1> DEFINE t == job.thread
<1>1. /\ worker = "cursor" /\ worker' = "top" /\ t \in Threads /\ job' = NoJob
      /\ cursor' = [cursor EXCEPT ![t] = job.next]
      /\ UNCHANGED <<facts, remembered, failed, dirty, left, missed>>
  BY DEF SaveCursor, Saved, TableInv, signals, histories
<1>2. /\ job.next \in [Kinds -> 0..MaxFacts]
      /\ \A k \in Kinds : job.next[k] <= Len(facts[t][k])
  BY <1>1 DEF TableInv, JobInv
<1>3. /\ cursor \in [Threads -> [Kinds -> 0..MaxFacts]]
      /\ cursor'[t] = job.next /\ \A u \in Threads : u # t => cursor'[u] = cursor[u]
  BY <1>1 DEF TableInv
<1>4. TableInv'
  <2>1. cursor' \in [Threads -> [Kinds -> 0..MaxFacts]] BY <1>1, <1>2, <1>3
  <2>2. \A u \in Threads, k \in Kinds : cursor'[u][k] <= Len(facts[u][k])
    BY <1>2, <1>3 DEF TableInv
  <2>3. NoJob \in [thread : Nat, batch : Seq(Fact), start : Nat, next : [Kinds -> 0..MaxFacts]]
    BY IngestAssumption DEF NoJob, Zero
  <2>4. QED BY <1>1, <2>1, <2>2, <2>3 DEF TableInv
<1>5. JobInv' /\ Handled' BY <1>1 DEF JobInv, Handled
<1>6. NothingSkipped'
  <2> SUFFICES ASSUME NEW u \in Threads, NEW f \in Fact, f[2] <= cursor'[u][f[1]]
               PROVE f \in remembered[u] \cup failed[u]
    BY <1>1 DEF NothingSkipped, Passed, Fact
  <2>1. CASE f[2] <= cursor[u][f[1]] BY <2>1 DEF NothingSkipped, Passed, Fact
  <2>2. CASE ~ (f[2] <= cursor[u][f[1]])
    <3>1. u = t BY <2>2, <1>3
    <3>2. f[1] \in Kinds /\ f[2] \in Int /\ cursor[t][f[1]] \in Int BY <1>1, <1>3 DEF Fact
    <3>3. cursor[t][f[1]] < f[2] /\ f[2] <= job.next[f[1]] BY <1>3, <2>2, <3>1, <3>2
    <3>4. PICK i \in 1..Len(job.batch) : job.batch[i] = f BY <1>1, <3>3 DEF JobInv
    <3>5. QED BY <1>1, <3>1, <3>4 DEF Handled
  <2>3. QED BY <2>1, <2>2
<1>7. Signalled'
  <2> SUFFICES ASSUME NEW u \in Threads, Past(u, Aim(u))' # {} PROVE u \in dirty \cup left \cup missed
    BY <1>1 DEF Signalled
  <2>1. Aim(u)' = Aim(u) BY <1>1, <1>3 DEF Aim
  <2>2. Past(u, Aim(u))' = Past(u, Aim(u)) BY <1>1, <2>1 DEF Past
  <2>3. QED BY <1>1, <2>2 DEF Signalled
<1>8. QED BY <1>4, <1>5, <1>6, <1>7

\* A job given up leaves its thread in missed.
LEMMA GiveUpStep == ASSUME IInv, GiveUp PROVE IInv'
<1> USE DEF IInv
<1>1. /\ worker \in Busy /\ worker' = "top" /\ job' = NoJob /\ missed' = missed \cup {job.thread}
      /\ UNCHANGED <<facts, cursor, remembered, failed, dirty, left>>
  BY DEF GiveUp, Busy, tables, signals
<1>2. TableInv' BY <1>1, IngestAssumption DEF TableInv, NoJob, Zero
<1>3. JobInv' /\ Handled' BY <1>1 DEF JobInv, Handled
<1>4. NothingSkipped' BY <1>1 DEF NothingSkipped, Passed
<1>5. Signalled' BY <1>1 DEF Signalled, Past, Aim, Busy
<1>6. QED BY <1>2, <1>3, <1>4, <1>5

\* Nothing runs at first.
LEMMA InitTasks == Init => TaskInv
BY DEF Init, TaskInv

\* Every step keeps the inductive invariant.
LEMMA InvStep == IInv /\ TaskInv /\ [Next]_vars => IInv'
<1> SUFFICES ASSUME IInv, TaskInv, [Next]_vars PROVE IInv' OBVIOUS
<1> USE DEF tables, signals, work, scanning, histories, bounds
<1>0. dirty \subseteq Threads /\ facts \in [Threads -> [Kinds -> Seq(1..MaxTime)]] BY DEF IInv, TableInv
<1>1. ASSUME NEW t \in Threads, NEW k \in Kinds, NEW at \in 1..MaxTime, SaveFact(t, k, at) PROVE IInv'
  BY <1>1, SaveFactStep
<1>2. ASSUME NEW t \in Threads, SaveThread(t) PROVE IInv' BY <1>0, <1>2, QuietStep DEF SaveThread
<1>3. CASE Start BY <1>0, <1>3, QuietStep DEF Start, Busy, TaskInv
<1>4. CASE StopBegin BY <1>0, <1>4, QuietStep DEF StopBegin
<1>5. CASE StopWake BY <1>0, <1>5, QuietStep DEF StopWake
<1>6. CASE StopEnd BY <1>6, EndStep DEF StopEnd
<1>7. CASE Crash BY <1>7, EndStep DEF Crash
<1>8. CASE WorkerTakes BY <1>8, TakeStep
<1>9. CASE WorkerSleeps BY <1>0, <1>9, QuietStep DEF WorkerSleeps, Busy
<1>10. CASE WorkerWakes BY <1>0, <1>10, QuietStep DEF WorkerWakes, Busy
<1>11. CASE WorkerEnds BY <1>0, <1>11, QuietStep DEF WorkerEnds, Busy
<1>12. CASE Load BY <1>12, LoadStep
<1>13. CASE WindowStored
  <2>1. job.thread \in Threads /\ remembered \in [Threads -> SUBSET Fact] /\ failed \in [Threads -> SUBSET Fact]
    BY <1>13 DEF IInv, TableInv, WindowStored
  <2>2. Window \subseteq Fact BY WindowType DEF IInv
  <2>3. QED BY <1>13, <2>1, <2>2, WindowStep DEF WindowStored
<1>14. CASE WindowFails
  <2>1. job.thread \in Threads /\ remembered \in [Threads -> SUBSET Fact] /\ failed \in [Threads -> SUBSET Fact]
    BY <1>14 DEF IInv, TableInv, WindowFails
  <2>2. Window \subseteq Fact BY WindowType DEF IInv
  <2>3. /\ failed' = [failed EXCEPT ![job.thread] = @ \cup Window]
        /\ remembered' = remembered \/ remembered' = [remembered EXCEPT ![job.thread] = @ \cup Window]
    BY <1>14 DEF WindowFails
  <2>4. /\ failed' \in [Threads -> SUBSET Fact] /\ remembered' \in [Threads -> SUBSET Fact]
        /\ \A t \in Threads : remembered[t] \subseteq remembered'[t] /\ failed[t] \subseteq failed'[t]
        /\ Window \subseteq failed'[job.thread]
    BY <2>1, <2>2, <2>3
  <2>5. QED BY <1>14, <2>4, WindowStep DEF WindowFails
<1>15. CASE SaveCursor BY <1>15, SaveCursorStep
<1>16. CASE GiveUp BY <1>16, GiveUpStep
<1>17. CASE ScanList BY <1>0, <1>17, QuietStep DEF ScanList
<1>18. ASSUME NEW t \in Threads, ScanRead(t) PROVE IInv' BY <1>0, <1>18, QuietStep DEF ScanRead
<1>19. CASE ScanCheck
  <2>1. look.thread \in Threads /\ UNCHANGED <<facts, cursor, remembered, failed, job, worker>>
    BY <1>19 DEF ScanCheck, TaskInv
  <2>2. \/ dirty' = dirty \cup {look.thread} /\ left' = left \ {look.thread} /\ missed' = missed \ {look.thread}
        \/ UNCHANGED <<dirty, left, missed>>
    BY <1>19 DEF ScanCheck, MarkDirty
  <2>3. QED BY <1>0, <2>1, <2>2, QuietStep
<1>20. CASE ScanFails BY <1>0, <1>20, QuietStep DEF ScanFails
<1>21. CASE ScanEnds BY <1>0, <1>21, QuietStep DEF ScanEnds
<1>22. CASE UNCHANGED vars BY <1>0, <1>22, QuietStep DEF vars
<1>23. QED
  BY <1>1, <1>2, <1>3, <1>4, <1>5, <1>6, <1>7, <1>8, <1>9, <1>10, <1>11, <1>12, <1>13, <1>14,
     <1>15, <1>16, <1>17, <1>18, <1>19, <1>20, <1>21, <1>22 DEF Next, Worker, Scan

\* LtmIngest: no cursor ever passes a fact that was neither turned into
\* entries nor recorded in a failed window.
THEOREM NothingSkippedTheorem == Spec => []NothingSkipped
<1>1. IInv => NothingSkipped BY DEF IInv
<1>2. QED BY <1>1, InitInv, InitTasks, TaskStep, InvStep, PTL DEF Spec

\* mark_dirty against the worker: no fact is left without a signal unless the
\* last attempt failed or the process ended.
THEOREM NoLostSignalTheorem == Spec => []NoLostSignal
<1>1. IInv => NoLostSignal BY DEF IInv, Signalled, NoLostSignal
<1>2. QED BY <1>1, InitInv, InitTasks, TaskStep, InvStep, PTL DEF Spec

\* save_cursor: neither cursor of a thread ever goes back.
THEOREM CursorsAdvanceTheorem == Spec => CursorsAdvance
<1> DEFINE Forward == \A t \in Threads, k \in Kinds : cursor'[t][k] >= cursor[t][k]
<1>1. ASSUME IInv, [Next]_vars PROVE Forward
  <2>1. cursor \in [Threads -> [Kinds -> 0..MaxFacts]] BY <1>1 DEF IInv, TableInv
  <2>2. CASE SaveCursor
    <3>1. /\ job.thread \in Threads /\ cursor' = [cursor EXCEPT ![job.thread] = job.next]
          /\ job.next \in [Kinds -> 0..MaxFacts]
          /\ \A k \in Kinds : cursor[job.thread][k] <= job.next[k]
      BY <1>1, <2>2 DEF SaveCursor, Saved, IInv, TableInv, JobInv
    <3>2. QED BY <2>1, <3>1
  <2>3. CASE ~ SaveCursor
    <3>1. cursor' = cursor
      BY <1>1, <2>3 DEF Next, Worker, Scan, vars, tables, SaveFact, SaveThread, Start, StopBegin, StopWake,
         StopEnd, Crash, WorkerTakes, WorkerSleeps, WorkerWakes, WorkerEnds, Load, WindowStored,
         WindowFails, GiveUp, ScanList, ScanRead, ScanCheck, ScanFails, ScanEnds
    <3>2. QED BY <2>1, <3>1
  <2>4. QED BY <2>2, <2>3
<1>2. IInv /\ [Next]_vars => [Forward]_vars BY <1>1
<1>3. QED BY <1>2, InitInv, InitTasks, TaskStep, InvStep, PTL DEF Spec, CursorsAdvance

\* _worker_loop: the worker does not sleep while there is a signal or stop()
\* waits for it.
THEOREM AwakeTheorem == Spec => []AwakeForWork
<1>1. Init => AwakeForWork BY DEF Init, AwakeForWork
<1>2. ASSUME AwakeForWork, [Next]_vars PROVE AwakeForWork'
  <2> USE <1>2 DEF AwakeForWork, tables, signals, work, scanning, histories, bounds
  <2>1. ASSUME NEW t \in Threads, NEW k \in Kinds, NEW at \in 1..MaxTime, SaveFact(t, k, at)
        PROVE AwakeForWork'
    BY <2>1 DEF SaveFact, MarkDirty
  <2>2. ASSUME NEW t \in Threads, SaveThread(t) \/ ScanRead(t) PROVE AwakeForWork'
    BY <2>2 DEF SaveThread, ScanRead
  <2>3. CASE Start \/ StopBegin \/ StopWake \/ StopEnd \/ Crash
    BY <2>3 DEF Start, StopBegin, StopWake, StopEnd, Crash
  <2>4. CASE WorkerTakes \/ WorkerSleeps \/ WorkerWakes \/ WorkerEnds
    BY <2>4 DEF WorkerTakes, WorkerSleeps, WorkerWakes, WorkerEnds, Stopping
  <2>5. CASE Load \/ WindowStored \/ WindowFails \/ SaveCursor \/ GiveUp
    <3>1. worker' # "asleep"
      <4>1. CASE Load BY <4>1 DEF Load
      <4>2. CASE WindowStored BY <4>2 DEF WindowStored, NextWindow
      <4>3. CASE WindowFails BY <4>3 DEF WindowFails, NextWindow
      <4>4. CASE SaveCursor \/ GiveUp BY <4>4 DEF SaveCursor, GiveUp
      <4>5. QED BY <2>5, <4>1, <4>2, <4>3, <4>4
    <3>2. QED BY <3>1
  <2>6. CASE ScanList \/ ScanFails \/ ScanEnds BY <2>6 DEF ScanList, ScanFails, ScanEnds
  <2>7. CASE ScanCheck BY <2>7 DEF ScanCheck, MarkDirty
  <2>8. CASE UNCHANGED vars BY <2>8 DEF vars
  <2>9. QED BY <2>1, <2>2, <2>3, <2>4, <2>5, <2>6, <2>7, <2>8 DEF Next, Worker, Scan
<1>3. QED BY <1>1, <1>2, PTL DEF Spec

-----------------------------------------------------------------------------
(* slice_fact_windows itself, for every configuration and every delta.  The  *)
(* loop is a recursive function; Cut is the same without recursion.          *)

\* One round of the loop.
Body(f, w, step, n) ==
    [start \in Nat |->
        IF start >= n THEN <<>>
        ELSE IF start + w >= n THEN <<WindowAt(start, w, n)>>
        ELSE <<WindowAt(start, w, n)>> \o f[start + step]]

\* Slice is a function that satisfies the equation of the loop.
LEMMA SliceIs ==
    ASSUME NEW size, NEW overlap, NEW n
    PROVE  Slice(size, overlap, n) =
             (CHOOSE f : f = Body(f, WindowSize(size), StepSize(size, overlap), n))[0]
BY DEF Slice, Body

\* A set of natural numbers that is not empty has a least one.
LEMMA LeastOf ==
    ASSUME NEW T \in SUBSET Nat, T # {}
    PROVE  \E m \in T : \A k \in T : m <= k
<1>1. IsWellFoundedOn({p \in Nat \X Nat : p[1] < p[2]}, Nat)
    BY NatLessThanWellFounded DEF OpToRel
<1>2. PICK m \in T : \A k \in T : ~ (<<k, m>> \in {p \in Nat \X Nat : p[1] < p[2]})
    BY <1>1, WFMin
<1>3. m \in Nat
    OBVIOUS
<1>4. ASSUME NEW k \in T PROVE m <= k
  <2>1. k \in Nat /\ <<k, m>> \in Nat \X Nat
      BY <1>3
  <2>2. <<k, m>> \in {p \in Nat \X Nat : p[1] < p[2]} <=> k < m
      BY <2>1
  <2>3. ~ (k < m)
      BY <1>2, <2>2
  <2>4. QED BY <1>3, <2>1, <2>3
<1>5. QED BY <1>4

\* The step of slice_fact_windows is at most the window.
LEMMA Sizes ==
    ASSUME NEW size \in Int, NEW overlap \in Int
    PROVE  WindowSize(size) \in Nat \ {0} /\ StepSize(size, overlap) \in 1..WindowSize(size)
BY DEF WindowSize, StepSize, Larger

\* Which of the windows from an offset on reaches the last fact.
Reaches(start, w, step, n) == {j \in Nat : start + j * step + w >= n}
Final(start, w, step, n) ==
    CHOOSE m \in Reaches(start, w, step, n) : \A j \in Reaches(start, w, step, n) : m <= j

\* The windows from each offset on, without recursion.
Cut(w, step, n) ==
    [start \in Nat |->
        IF start >= n THEN <<>>
        ELSE [k \in 1..(Final(start, w, step, n) + 1) |-> WindowAt(start + (k - 1) * step, w, n)]]

\* One window reaches the last fact, and none before it does.
LEMMA FinalExists ==
    ASSUME NEW start \in Nat, NEW w \in Nat, NEW step \in Nat \ {0}, NEW n \in Nat
    PROVE  /\ Final(start, w, step, n) \in Nat
           /\ start + Final(start, w, step, n) * step + w >= n
           /\ \A j \in Nat : start + j * step + w >= n => Final(start, w, step, n) <= j
<1>1. n * step >= n
    OBVIOUS
<1>2. n \in Reaches(start, w, step, n)
    BY <1>1 DEF Reaches
<1>3. \E m \in Reaches(start, w, step, n) : \A j \in Reaches(start, w, step, n) : m <= j
  <2>1. Reaches(start, w, step, n) \in SUBSET Nat
      BY DEF Reaches
  <2>2. QED BY <1>2, <2>1, LeastOf
<1>4. /\ Final(start, w, step, n) \in Reaches(start, w, step, n)
      /\ \A j \in Reaches(start, w, step, n) : Final(start, w, step, n) <= j
    BY <1>3 DEF Final
<1>5. QED BY <1>4 DEF Reaches

\* An offset that does not reach the end needs one window more than the next.
LEMMA FinalStep ==
    ASSUME NEW start \in Nat, NEW w \in Nat, NEW step \in Nat \ {0}, NEW n \in Nat,
           start + w < n
    PROVE  Final(start, w, step, n) = Final(start + step, w, step, n) + 1
<1> DEFINE here == Final(start, w, step, n)
           next == Final(start + step, w, step, n)
<1>1. /\ here \in Nat /\ start + here * step + w >= n
      /\ \A j \in Nat : start + j * step + w >= n => here <= j
    BY FinalExists
<1>2. /\ next \in Nat /\ (start + step) + next * step + w >= n
      /\ \A j \in Nat : (start + step) + j * step + w >= n => next <= j
  <2>1. start + step \in Nat
      OBVIOUS
  <2>2. QED BY <2>1, FinalExists
<1> HIDE DEF here, next
<1>3. here # 0
    BY <1>1
<1>4. \A j \in Nat : (j + 1) * step = j * step + step /\ j * step \in Nat
    OBVIOUS
<1>5. here <= next + 1
    BY <1>1, <1>2, <1>4
<1>6. next <= here - 1
  <2>1. PICK j \in Nat : here = j + 1
      BY <1>1, <1>3
  <2>2. QED BY <1>1, <1>2, <1>4, <2>1
<1>7. here = next + 1
    BY <1>1, <1>2, <1>5, <1>6
<1>8. QED BY <1>7 DEF here, next

\* The last window is the first one if that reaches the end.
LEMMA FinalAtEnd ==
    ASSUME NEW start \in Nat, NEW w \in Nat, NEW step \in Nat \ {0}, NEW n \in Nat,
           start + w >= n
    PROVE  Final(start, w, step, n) = 0
<1>1. Final(start, w, step, n) \in Nat /\ Final(start, w, step, n) <= 0
    BY FinalExists
<1>2. QED BY <1>1

\* Cut satisfies the equation of the loop.
LEMMA CutIsBody ==
    ASSUME NEW w \in Nat \ {0}, NEW step \in 1..w, NEW n \in Nat
    PROVE  Cut(w, step, n) = Body(Cut(w, step, n), w, step, n)
<1> DEFINE g == Cut(w, step, n)
<1>1. ASSUME NEW start \in Nat, start < n, start + w >= n
      PROVE  g[start] = <<WindowAt(start, w, n)>>
  <2>1. Final(start, w, step, n) = 0
      BY <1>1, FinalAtEnd
  <2>2. g[start] = [k \in 1..1 |-> WindowAt(start + (k - 1) * step, w, n)]
      BY <1>1, <2>1 DEF Cut
  <2>3. \A k \in 1..1 : start + (k - 1) * step = start
      OBVIOUS
  <2>4. QED BY <2>2, <2>3
<1>2. ASSUME NEW start \in Nat, start + w < n
      PROVE  g[start] = <<WindowAt(start, w, n)>> \o g[start + step]
  <2>0. start + step \in Nat /\ step \in Nat \ {0} /\ w \in Nat
      OBVIOUS
  <2>1. PICK m \in Nat : m = Final(start + step, w, step, n)
      BY <2>0, FinalExists
  <2>2. Final(start, w, step, n) = m + 1
      BY <1>2, <2>0, <2>1, FinalStep
  <2>3. start < n /\ start + step < n /\ start + step \in Nat
      BY <1>2
  <2>4. g[start] = [k \in 1..(m + 2) |-> WindowAt(start + (k - 1) * step, w, n)]
      BY <2>2, <2>3 DEF Cut
  <2>5. g[start + step] = [k \in 1..(m + 1) |-> WindowAt(start + step + (k - 1) * step, w, n)]
      BY <2>1, <2>3 DEF Cut
  <2>6. \A i \in 2..(m + 2) : start + step + ((i - 1) - 1) * step = start + (i - 1) * step
      OBVIOUS
  <2>7. PICK whole : whole = g[start]
      OBVIOUS
  <2>8. PICK tail : tail = g[start + step]
      OBVIOUS
  <2>9. \A j : WindowAt(j, w, n) \in SUBSET (1..n)
      BY DEF WindowAt
  <2>10. whole \in Seq(SUBSET (1..n)) /\ Len(whole) = m + 2
      BY <2>4, <2>7, <2>9
  <2>11. tail \in Seq(SUBSET (1..n)) /\ Len(tail) = m + 1
      BY <2>5, <2>8, <2>9
  <2>12. PICK first : first = <<WindowAt(start, w, n)>>
      OBVIOUS
  <2>13. first \in Seq(SUBSET (1..n)) /\ Len(first) = 1 /\ first[1] = WindowAt(start, w, n)
      BY <2>9, <2>12
  <2>14. /\ first \o tail \in Seq(SUBSET (1..n)) /\ Len(first \o tail) = m + 2
         /\ \A i \in 1..(m + 2) : (first \o tail)[i] = IF i <= 1 THEN first[i] ELSE tail[i - 1]
    <3>1. PICK S : S = SUBSET (1..n)
        OBVIOUS
    <3>2. first \in Seq(S) /\ tail \in Seq(S)
        BY <2>11, <2>13, <3>1
    <3>3. /\ first \o tail \in Seq(S) /\ Len(first \o tail) = Len(first) + Len(tail)
          /\ \A i \in 1..(Len(first) + Len(tail)) :
                (first \o tail)[i] = IF i <= Len(first) THEN first[i] ELSE tail[i - Len(first)]
        BY <3>2, ConcatProperties
    <3>4. Len(first) + Len(tail) = m + 2
        BY <2>11, <2>13
    <3>5. QED BY <2>13, <3>1, <3>3, <3>4
  <2>15. ASSUME NEW i \in 1..(m + 2) PROVE whole[i] = (first \o tail)[i]
    <3>1. CASE i = 1
      <4>1. start + (1 - 1) * step = start
          OBVIOUS
      <4>2. whole[1] = WindowAt(start, w, n)
          BY <2>4, <2>7, <4>1
      <4>3. (first \o tail)[1] = WindowAt(start, w, n)
          BY <2>13, <2>14
      <4>4. QED BY <3>1, <4>2, <4>3
    <3>2. CASE i # 1
      <4>1. i \in 2..(m + 2) /\ i - 1 \in 1..(m + 1)
          BY <3>2
      <4>2. tail[i - 1] = WindowAt(start + step + ((i - 1) - 1) * step, w, n)
          BY <2>5, <2>8, <4>1
      <4>3. whole[i] = WindowAt(start + (i - 1) * step, w, n)
          BY <2>4, <2>7
      <4>4. QED BY <2>6, <2>14, <3>2, <4>1, <4>2, <4>3
    <3>3. QED BY <3>1, <3>2
  <2>16. whole = first \o tail
      BY <2>10, <2>14, <2>15, SeqEqual
  <2>17. QED BY <2>7, <2>8, <2>12, <2>16
<1>3. \A start \in Nat :
        g[start] = IF start >= n THEN <<>>
                   ELSE IF start + w >= n THEN <<WindowAt(start, w, n)>>
                   ELSE <<WindowAt(start, w, n)>> \o g[start + step]
  <2> TAKE start \in Nat
  <2>1. start >= n => g[start] = <<>>
      BY DEF Cut
  <2>2. start < n /\ start + w >= n => g[start] = <<WindowAt(start, w, n)>>
      BY <1>1
  <2>3. start + w < n => g[start] = <<WindowAt(start, w, n)>> \o g[start + step]
      BY <1>2
  <2> HIDE DEF g
  <2>4. CASE start >= n
      BY <2>1, <2>4
  <2>5. CASE start < n /\ start + w >= n
      BY <2>2, <2>5
  <2>6. CASE start + w < n
    <3>1. ~ (start >= n) /\ ~ (start + w >= n)
        BY <2>6
    <3>2. QED BY <2>3, <2>6, <3>1
  <2>7. QED BY <2>4, <2>5, <2>6
<1>4. g = [start \in Nat |-> g[start]]
    BY DEF Cut
<1> HIDE DEF g
<1>5. g = Body(g, w, step, n)
    BY <1>3, <1>4 DEF Body
<1>6. QED BY <1>5 DEF g

\* ... and is the only function that does.
LEMMA BodyIsCut ==
    ASSUME NEW w \in Nat \ {0}, NEW step \in 1..w, NEW n \in Nat,
           NEW f, f = Body(f, w, step, n)
    PROVE  f = Cut(w, step, n)
<1>1. PICK g : g = Cut(w, step, n)
    OBVIOUS
<1>2. g = Body(g, w, step, n)
    BY <1>1, CutIsBody
<1>3. PICK bad : bad = {d \in Nat : \E s \in Nat : f[s] # g[s] /\ s < n /\ d = n - s}
    OBVIOUS
<1>4. bad = {}
  <2> SUFFICES ASSUME bad # {} PROVE FALSE
      OBVIOUS
  <2>1. bad \in SUBSET Nat
      BY <1>3
  <2>2. PICK d \in bad : \A e \in bad : d <= e
      BY <2>1, LeastOf
  <2>3. PICK s \in Nat : f[s] # g[s] /\ s < n /\ d = n - s
      BY <1>3
  <2>4. s + w < n
    <3>1. s + w >= n => f[s] = g[s]
        BY <1>2, <2>3 DEF Body
    <3>2. QED BY <2>3, <3>1
  <2>5. f[s + step] # g[s + step]
    <3>1. f[s] = <<WindowAt(s, w, n)>> \o f[s + step] /\ g[s] = <<WindowAt(s, w, n)>> \o g[s + step]
        BY <1>2, <2>3, <2>4 DEF Body
    <3>2. QED BY <2>3, <3>1
  <2>6. n - (s + step) \in bad
    <3>1. s + step \in Nat /\ s + step < n /\ n - (s + step) \in Nat
        BY <2>4
    <3>2. QED BY <1>3, <2>5, <3>1
  <2>7. n - (s + step) < d
      BY <2>3
  <2>8. QED BY <2>2, <2>3, <2>4, <2>6, <2>7
<1>5. \A s \in Nat : f[s] = g[s]
  <2> TAKE s \in Nat
  <2>1. CASE s >= n
      BY <1>2, <2>1 DEF Body
  <2>2. CASE s < n
    <3>1. n - s \in Nat
        BY <2>2
    <3>2. f[s] # g[s] => n - s \in bad
        BY <1>3, <2>2, <3>1
    <3>3. QED BY <1>4, <3>2
  <2>3. QED BY <2>1, <2>2
<1>6. f = [s \in Nat |-> f[s]] /\ g = [s \in Nat |-> g[s]]
    BY <1>2 DEF Body
<1>7. f = g
    BY <1>5, <1>6
<1>8. QED BY <1>1, <1>7

\* slice_fact_windows in closed form.
LEMMA SliceIsCut ==
    ASSUME NEW size \in Int, NEW overlap \in Int, NEW n \in Nat
    PROVE  Slice(size, overlap, n) = Cut(WindowSize(size), StepSize(size, overlap), n)[0]
<1>1. PICK w \in Nat \ {0} : w = WindowSize(size)
    BY Sizes
<1>2. PICK step \in 1..w : step = StepSize(size, overlap)
    BY <1>1, Sizes
<1>3. PICK f : f = Body(f, w, step, n) /\ f = (CHOOSE h : h = Body(h, w, step, n))
    BY CutIsBody
<1>4. f = Cut(w, step, n)
    BY <1>3, BodyIsCut
<1>5. QED BY <1>1, <1>2, <1>3, <1>4, SliceIs


\* The number of whole numbers in an interval.
LEMMA Positions ==
    ASSUME NEW a \in Int, NEW b \in Int, a <= b
    PROVE  Cardinality((a + 1)..b) = b - a
<1>1. Cardinality((a + 1)..b) = IF a + 1 > b THEN 0 ELSE b - (a + 1) + 1
    BY FS_Interval
<1>2. QED BY <1>1

\* slice_fact_windows, for every configuration and delta: every fact is in a
\* window, and neighbours share what the overlap asks for, never the whole window.
LEMMA SliceCovers ==
    ASSUME NEW size \in Int, NEW overlap \in Int, NEW count \in Nat
    PROVE  Covers(size, overlap, count)
<1>1. PICK w \in Nat \ {0} : w = WindowSize(size)
    BY Sizes
<1>2. PICK step \in 1..w : step = StepSize(size, overlap)
    BY <1>1, Sizes
<1>3. PICK windows : windows = Slice(size, overlap, count)
    OBVIOUS
<1>4. windows = Cut(w, step, count)[0]
    BY <1>1, <1>2, <1>3, SliceIsCut
<1>5. PICK last \in Nat : /\ last = Final(0, w, step, count)
                          /\ last * step + w >= count
                          /\ \A j \in Nat : j * step + w >= count => last <= j
  <2>1. PICK m \in Nat : /\ m = Final(0, w, step, count)
                         /\ 0 + m * step + w >= count
                         /\ \A j \in Nat : 0 + j * step + w >= count => m <= j
    <3>1. 0 \in Nat /\ step \in Nat \ {0} /\ w \in Nat
        OBVIOUS
    <3>2. QED BY <3>1, FinalExists
  <2>2. \A j \in Nat : 0 + j * step + w = j * step + w
      OBVIOUS
  <2>3. QED BY <2>1, <2>2
<1>6. CASE count = 0
  <2>1. windows = <<>>
      BY <1>4, <1>6 DEF Cut
  <2>2. DOMAIN windows = {} /\ Len(windows) = 0 /\ 1..count = {}
      BY <1>6, <2>1
  <2>3. QED BY <1>3, <2>2 DEF Covers
<1>7. CASE count # 0
  <2>1. windows = [k \in 1..(last + 1) |-> WindowAt(0 + (k - 1) * step, w, count)]
      BY <1>4, <1>5, <1>7 DEF Cut
  <2>2. \A k \in 1..(last + 1) :
            windows[k] = {i \in 1..count : (k - 1) * step < i /\ i <= (k - 1) * step + w}
      BY <2>1 DEF WindowAt
  <2>3. DOMAIN windows = 1..(last + 1) /\ Len(windows) = last + 1
      BY <2>1
  <2>4. ASSUME NEW i \in 1..count PROVE \E k \in 1..(last + 1) : i \in windows[k]
    <3>1. PICK upTo : upTo = {j \in Nat : i <= j * step + w}
        OBVIOUS
    <3>2. last \in upTo /\ upTo \in SUBSET Nat
        BY <1>5, <3>1
    <3>3. PICK m \in upTo : \A j \in upTo : m <= j
        BY <3>2, LeastOf
    <3>4. m \in Nat /\ i <= m * step + w /\ m <= last
        BY <3>1, <3>2, <3>3
    <3>5. m * step < i
      <4>1. CASE m = 0
          BY <4>1
      <4>2. CASE m # 0
        <5>1. m - 1 \in Nat /\ (m - 1) * step = m * step - step /\ m * step \in Nat
            BY <3>4, <4>2
        <5>2. ~ (i <= (m - 1) * step + w)
            BY <3>1, <3>3, <3>4, <5>1
        <5>3. QED BY <5>1, <5>2
      <4>3. QED BY <4>1, <4>2
    <3>6. m + 1 \in 1..(last + 1) /\ (m + 1) - 1 = m
        BY <1>5, <3>4
    <3>7. i \in windows[m + 1]
        BY <2>2, <3>4, <3>5, <3>6
    <3>8. QED BY <3>6, <3>7
  <2>5. UNION {windows[k] : k \in DOMAIN windows} = 1..count
    <3>1. \A k \in DOMAIN windows : windows[k] \subseteq 1..count
        BY <2>2, <2>3
    <3>2. QED BY <2>3, <2>4, <3>1
  <2>6. ASSUME NEW k \in 1..(Len(windows) - 1)
        PROVE  /\ Cardinality(windows[k]) = w
               /\ Cardinality(windows[k] \cap windows[k + 1]) = w - step
    <3>1. PICK a \in Nat : a = (k - 1) * step
        BY <2>3
    <3>2. k \in 1..last /\ k - 1 \in Nat
        BY <2>3
    <3>3. a + w < count
      <4>1. PICK j \in Nat : j = k - 1 /\ j < last
          BY <3>2
      <4>2. ~ (j * step + w >= count)
          BY <1>5, <4>1
      <4>3. QED BY <3>1, <4>1, <4>2
    <3>4. ((k + 1) - 1) * step = a + step
        BY <3>1
    <3>5. windows[k] = {i \in 1..count : a < i /\ i <= a + w}
        BY <2>2, <3>1, <3>2
    <3>6. windows[k + 1] = {i \in 1..count : a + step < i /\ i <= a + step + w}
        BY <2>2, <3>2, <3>4
    <3>7. windows[k] = (a + 1)..(a + w)
        BY <3>3, <3>5
    <3>8. windows[k] \cap windows[k + 1] = ((a + step) + 1)..(a + w)
        BY <3>3, <3>5, <3>6
    <3>9. Cardinality((a + 1)..(a + w)) = w /\ Cardinality(((a + step) + 1)..(a + w)) = w - step
      <4>1. /\ a + step <= a + w /\ a <= a + w
            /\ a \in Int /\ a + w \in Int /\ a + step \in Int
          OBVIOUS
      <4>2. /\ Cardinality((a + 1)..(a + w)) = (a + w) - a
            /\ Cardinality(((a + step) + 1)..(a + w)) = (a + w) - (a + step)
          BY <4>1, Positions
      <4>3. QED BY <4>2
    <3>10. QED BY <3>7, <3>8, <3>9
  <2>7. w - step = IF overlap <= 0 THEN 0 ELSE IF overlap < w THEN overlap ELSE w - 1
      BY <1>1, <1>2 DEF StepSize, Larger
  <2>8. QED BY <1>1, <1>3, <2>5, <2>6, <2>7 DEF Covers
<1>8. QED BY <1>6, <1>7

\* An input of the windows has numbers.
WindowsInput == part = "windows" => in.size \in Int /\ in.overlap \in Int /\ in.count \in Nat

\* The windows of a delta cover it, for every size, overlap and number of facts
\* (slice_fact_windows).
THEOREM WindowsCoverTheorem == FunctionsSpec => []WindowsCover
<1>1. FunctionsInit => WindowsInput
    BY DEF FunctionsInit, WindowsInput
<1>2. ASSUME WindowsInput, [FunctionsNext]_inputs PROVE WindowsInput'
  <2>1. CASE ChooseWindows
    <3>1. PICK size \in 0..MaxSize, overlap \in -1..(MaxSize + 1), count \in 0..MaxDelta :
              in' = [size |-> size, overlap |-> overlap, count |-> count]
        BY <2>1 DEF ChooseWindows, Choose
    <3>2. QED BY <3>1, FunctionsAssumption DEF WindowsInput
  <2>2. CASE ChoosePages \/ ChooseEdit \/ ChooseStage \/ ChooseWorld
      BY <2>2 DEF ChoosePages, ChooseEdit, ChooseStage, ChooseWorld, Choose, WindowsInput
  <2>3. CASE ChooseCases \/ ChooseForm \/ ChooseGroup \/ ChooseContext
      BY <2>3 DEF ChooseCases, ChooseForm, ChooseGroup, ChooseContext, Choose, WindowsInput
  <2>4. CASE ChooseExtraction \/ ChooseTimes \/ ChooseRecall \/ Return
      BY <2>4 DEF ChooseExtraction, ChooseTimes, ChooseRecall, Return, Choose, WindowsInput
  <2>5. CASE UNCHANGED inputs
      BY <1>2, <2>5 DEF inputs, WindowsInput
  <2>6. QED BY <1>2, <2>1, <2>2, <2>3, <2>4, <2>5 DEF FunctionsNext
<1>3. WindowsInput => WindowsCover
    BY SliceCovers DEF WindowsInput, WindowsCover
<1>4. QED BY <1>1, <1>2, <1>3, PTL DEF FunctionsSpec

-----------------------------------------------------------------------------
\* Recursive functions and folds as the code's loops compute them, without an
\* operator for the step: the step is a function of the position and the value.

\* The largest number of a set is what Max chooses.
LEMMA MaxOf ==
    ASSUME NEW n \in Nat
    PROVE  /\ \A S \in SUBSET (1..n) : n \in S => Max(S) = n
           /\ \A S \in SUBSET (1..n) : S # {} => Max(S) \in S
<1>1. ASSUME NEW S \in SUBSET (1..n), NEW x \in S, \A y \in S : x >= y PROVE Max(S) = x
  <2>1. Max(S) \in S /\ \A y \in S : Max(S) >= y
      BY <1>1 DEF Max
  <2>2. x \in Int /\ Max(S) \in Int
    <3>1. \A y \in S : y \in Int
        OBVIOUS
    <3>2. QED BY <2>1, <3>1
  <2>3. Max(S) >= x /\ x >= Max(S)
      BY <1>1, <2>1
  <2>4. QED BY <2>2, <2>3
<1>2. ASSUME NEW S \in SUBSET (1..n), n \in S PROVE Max(S) = n
  <2>1. \A y \in S : n >= y
      OBVIOUS
  <2>2. QED BY <1>1, <1>2, <2>1
<1>3. ASSUME NEW S \in SUBSET (1..n), S # {} PROVE Max(S) \in S
  <2>1. PICK D : D = {n - i : i \in S}
      OBVIOUS
  <2>2. D \in SUBSET Nat /\ D # {}
    <3>1. \A i \in S : n - i \in Nat
        OBVIOUS
    <3>2. QED BY <1>3, <2>1, <3>1
  <2>3. PICK m \in D : \A k \in D : m <= k
      BY <2>2, LeastOf
  <2>4. PICK i \in S : m = n - i
      BY <2>1
  <2>5. \A j \in S : i >= j
    <3> SUFFICES ASSUME NEW j \in S PROVE i >= j
        OBVIOUS
    <3>1. n - i <= n - j
        BY <2>1, <2>3, <2>4
    <3>2. QED BY <3>1
  <2>6. QED BY <1>1, <2>5
<1>4. QED BY <1>2, <1>3

\* What a recursion along a sequence of length n computes, from b by the step g.
Recurs(f, n, V, b, g) ==
    f \in [0..n -> V] /\ f[0] = b /\ \A k \in 1..n : f[k] = g[<<k, f[k - 1]>>]

\* What a fold of its positions computes, the last one first (FoldLeft).
Folds(f, n, V, b, g) ==
    /\ f \in [SUBSET (1..n) -> V]
    /\ \A S \in SUBSET (1..n) : f[S] = IF S = {} THEN b ELSE g[<<Max(S), f[S \ {Max(S)}]>>]

\* What holds of 0, and of a number when of the one below it, holds up to n.
LEMMA Climb ==
    ASSUME NEW n \in Nat, NEW P, 0 \in P, \A k \in 1..n : k - 1 \in P => k \in P
    PROVE  \A k \in 0..n : k \in P
<1>1. PICK Bad : Bad = {k \in 0..n : k \notin P}
    OBVIOUS
<1>2. SUFFICES ASSUME Bad # {} PROVE FALSE
    BY <1>1
<1>3. Bad \in SUBSET Nat
    BY <1>1
<1>4. PICK m \in Bad : \A k \in Bad : m <= k
    BY <1>2, <1>3, LeastOf
<1>5. m \in 1..n /\ m - 1 \in 0..n
    BY <1>1
<1>6. m - 1 \in P
    BY <1>1, <1>4, <1>5
<1>7. QED BY <1>1, <1>5, <1>6

\* Every recursion along a sequence, whose step is a function, has a solution.
LEMMA RecursionExists ==
    ASSUME NEW n \in Nat, NEW V, NEW b \in V, NEW g \in [(1..n) \X V -> V]
    PROVE  \E f : Recurs(f, n, V, b, g)
<1> DEFINE Solved(l) == \E f \in [0..l -> V] : f[0] = b /\ \A k \in 1..l : f[k] = g[<<k, f[k - 1]>>]
           Bad == {l \in 0..n : ~ Solved(l)}
<1>1. Solved(0)
  <2>1. PICK f : f = [k \in 0..0 |-> b]
      OBVIOUS
  <2>2. f \in [0..0 -> V] /\ f[0] = b /\ \A k \in 1..0 : f[k] = g[<<k, f[k - 1]>>]
      BY <2>1
  <2>3. QED BY <2>2
<1>2. ASSUME NEW l \in 1..n, Solved(l - 1) PROVE Solved(l)
  <2>1. PICK h \in [0..(l - 1) -> V] : h[0] = b /\ \A k \in 1..(l - 1) : h[k] = g[<<k, h[k - 1]>>]
      BY <1>2
  <2>2. h[l - 1] \in V /\ <<l, h[l - 1]>> \in (1..n) \X V
      BY <2>1
  <2>3. g[<<l, h[l - 1]>>] \in V
      BY <2>2
  <2>4. PICK f : f = [k \in 0..l |-> IF k = l THEN g[<<l, h[l - 1]>>] ELSE h[k]]
      OBVIOUS
  <2>5. f \in [0..l -> V]
    <3>1. \A k \in 0..l : k # l => k \in 0..(l - 1)
        OBVIOUS
    <3>2. QED BY <2>1, <2>3, <2>4, <3>1
  <2>6. f[0] = b
      BY <2>1, <2>4
  <2>7. ASSUME NEW k \in 1..l PROVE f[k] = g[<<k, f[k - 1]>>]
    <3>1. k \in 0..l /\ k - 1 \in 0..l /\ k - 1 # l
        OBVIOUS
    <3>2. f[k - 1] = h[k - 1]
        BY <2>4, <3>1
    <3>3. CASE k = l
        BY <2>4, <3>1, <3>2, <3>3
    <3>4. CASE k # l
      <4>1. k \in 1..(l - 1)
          BY <3>4
      <4>2. QED BY <2>1, <2>4, <3>1, <3>2, <3>4, <4>1
    <3>5. QED BY <3>3, <3>4
  <2>8. QED BY <2>5, <2>6, <2>7
<1>3. Bad = {}
  <2> HIDE DEF Solved
  <2>1. SUFFICES ASSUME Bad # {} PROVE FALSE
      OBVIOUS
  <2>2. Bad \in SUBSET Nat
      OBVIOUS
  <2>3. PICK m \in Bad : \A k \in Bad : m <= k
      BY <2>1, <2>2, LeastOf
  <2>4. m \in 1..n
      BY <1>1
  <2>5. Solved(m - 1)
      BY <2>3, <2>4
  <2>6. QED BY <1>2, <2>4, <2>5
<1>4. Solved(n)
  <2> HIDE DEF Solved
  <2>1. n \in 0..n
      OBVIOUS
  <2>2. QED BY <1>3, <2>1
<1>5. QED BY <1>4 DEF Recurs

\* So has every fold.
LEMMA FoldExists ==
    ASSUME NEW n \in Nat, NEW V, NEW b \in V, NEW g \in [(1..n) \X V -> V]
    PROVE  \E f : Folds(f, n, V, b, g)
<1> DEFINE Solves(f, l) == /\ f \in [SUBSET (1..l) -> V]
                           /\ \A S \in SUBSET (1..l) :
                                f[S] = IF S = {} THEN b ELSE g[<<Max(S), f[S \ {Max(S)}]>>]
           Bad == {l \in 0..n : ~ \E f : Solves(f, l)}
<1>1. \E f : Solves(f, 0)
  <2>1. PICK f : f = [S \in SUBSET (1..0) |-> b]
      OBVIOUS
  <2>2. \A S \in SUBSET (1..0) : S = {}
      OBVIOUS
  <2>3. Solves(f, 0)
      BY <2>1, <2>2
  <2>4. QED BY <2>3
<1>2. ASSUME NEW l \in 1..n, NEW h, Solves(h, l - 1) PROVE \E f : Solves(f, l)
  <2>1. PICK f : f = [S \in SUBSET (1..l) |-> IF l \in S THEN g[<<l, h[S \ {l}]>>] ELSE h[S]]
      OBVIOUS
  <2>2. \A S \in SUBSET (1..l) : S \ {l} \in SUBSET (1..(l - 1))
      OBVIOUS
  <2>3. \A S \in SUBSET (1..l) : l \notin S => S = S \ {l} /\ S \in SUBSET (1..(l - 1))
    <3>1. \A S : l \notin S => S = S \ {l}
        OBVIOUS
    <3>2. QED BY <2>2, <3>1
  <2>4. \A S \in SUBSET (1..l) : h[S \ {l}] \in V
      BY <1>2, <2>2
  <2>5. f \in [SUBSET (1..l) -> V]
    <3>1. ASSUME NEW S \in SUBSET (1..l) PROVE f[S] \in V
      <4>1. <<l, h[S \ {l}]>> \in (1..n) \X V
          BY <2>4
      <4>2. g[<<l, h[S \ {l}]>>] \in V
          BY <4>1
      <4>3. QED BY <2>1, <2>3, <2>4, <4>2
    <3>2. QED BY <2>1, <3>1
  <2>6. ASSUME NEW S \in SUBSET (1..l)
        PROVE  f[S] = IF S = {} THEN b ELSE g[<<Max(S), f[S \ {Max(S)}]>>]
    <3>1. CASE l \in S
      <4>1. Max(S) = l
          BY <3>1, MaxOf
      <4>2. S \ {l} \in SUBSET (1..l) /\ l \notin S \ {l}
          OBVIOUS
      <4>3. f[S \ {l}] = h[S \ {l}]
          BY <2>1, <4>2
      <4>4. QED BY <2>1, <3>1, <4>1, <4>3
    <3>2. CASE l \notin S /\ S # {}
      <4>1. S \in SUBSET (1..(l - 1)) /\ l - 1 \in Nat
          BY <2>3, <3>2
      <4>2. PICK T : T = S \ {Max(S)}
          OBVIOUS
      <4>3. T \in SUBSET (1..l) /\ l \notin T
          BY <3>2, <4>2
      <4>4. f[T] = h[T] /\ f[S] = h[S]
          BY <2>1, <3>2, <4>3
      <4>5. h[S] = g[<<Max(S), h[T]>>]
          BY <1>2, <3>2, <4>1, <4>2
      <4>6. QED BY <3>2, <4>2, <4>4, <4>5
    <3>3. CASE S = {}
      <4>1. S \in SUBSET (1..(l - 1)) /\ l \notin S
          BY <3>3
      <4>2. h[S] = b
          BY <1>2, <3>3, <4>1
      <4>3. QED BY <2>1, <3>3, <4>1, <4>2
    <3>4. QED BY <3>1, <3>2, <3>3
  <2>7. QED BY <2>5, <2>6
<1>3. Bad = {}
  <2> HIDE DEF Solves
  <2>1. SUFFICES ASSUME Bad # {} PROVE FALSE
      OBVIOUS
  <2>2. Bad \in SUBSET Nat
      OBVIOUS
  <2>3. PICK m \in Bad : \A k \in Bad : m <= k
      BY <2>1, <2>2, LeastOf
  <2>4. m \in 1..n
      BY <1>1
  <2>5. \E h : Solves(h, m - 1)
      BY <2>3, <2>4
  <2>6. QED BY <1>2, <2>4, <2>5
<1>4. \E f : Solves(f, n)
  <2> HIDE DEF Solves
  <2>1. n \in 0..n
      OBVIOUS
  <2>2. QED BY <1>3, <2>1
<1>5. QED BY <1>4 DEF Folds

\* The bytes of a sequence of attachments, or of what came of them.
Total(s) == FoldLeft(LAMBDA acc, o : acc + o.size, 0, s)
Sums(T, s, n) == T \in [0..n -> Nat] /\ T[0] = 0 /\ \A k \in 1..n : T[k] = T[k - 1] + s[k].size

\* FoldLeft adds the sizes from left to right.
LEMMA TotalSums ==
    ASSUME NEW n \in Nat, NEW s, DOMAIN s = 1..n, \A i \in 1..n : s[i].size \in Nat
    PROVE  \E T : Sums(T, s, n) /\ Total(s) = T[n]
<1> DEFINE Rounds(f) == [S \in SUBSET (1..n) |->
                            IF S = {} THEN 0 ELSE f[S \ {Max(S)}] + s[Max(S)].size]
<1>1. Total(s) = (CHOOSE f : f = Rounds(f))[1..n]
    BY DEF Total, FoldLeft, MapThenFoldSet
<1>2. \E f : f = Rounds(f)
  <2>1. PICK V, b, g : V = Nat /\ b = 0 /\ g = [p \in (1..n) \X V |-> p[2] + s[p[1]].size]
      OBVIOUS
  <2>2. g \in [(1..n) \X V -> V] /\ b \in V
      BY <2>1
  <2>3. PICK f : /\ f \in [SUBSET (1..n) -> V]
               /\ \A S \in SUBSET (1..n) :
                     f[S] = IF S = {} THEN b ELSE g[<<Max(S), f[S \ {Max(S)}]>>]
    <3>1. PICK f : Folds(f, n, V, b, g)
        BY <2>2, FoldExists
    <3>2. QED BY <3>1 DEF Folds
  <2>4. ASSUME NEW S \in SUBSET (1..n) PROVE f[S] = Rounds(f)[S]
    <3>1. CASE S # {}
      <4>1. Max(S) \in 1..n
          BY <3>1, MaxOf
      <4>2. f[S \ {Max(S)}] \in Nat
          BY <2>1, <2>3
      <4>3. QED BY <2>1, <2>3, <3>1, <4>1, <4>2
    <3>2. CASE S = {}
        BY <2>1, <2>3, <3>2
    <3>3. QED BY <3>1, <3>2
  <2>5. QED BY <2>3, <2>4
<1>3. PICK f : f = Rounds(f) /\ Total(s) = f[1..n]
    BY <1>1, <1>2
<1>4. PICK T : T = [k \in 0..n |-> f[1..k]]
    OBVIOUS
<1>5. T[0] = 0
  <2>1. 1..0 = {}
      OBVIOUS
  <2>2. f[{}] = 0
      BY <1>3
  <2>3. QED BY <1>4, <2>1, <2>2
<1>6. ASSUME NEW k \in 1..n PROVE T[k] = T[k - 1] + s[k].size
  <2>1. 1..k \in SUBSET (1..n) /\ 1..k # {} /\ k \in 1..k /\ (1..k) \ {k} = 1..(k - 1)
    <3>1. k \in Nat /\ 1 <= k /\ k <= n
        OBVIOUS
    <3>2. k \in 1..k /\ \A i \in 1..k : i \in 1..n
        BY <3>1
    <3>3. \A i : i \in (1..k) \ {k} <=> i \in 1..(k - 1)
        BY <3>1
    <3>4. QED BY <3>2, <3>3
  <2>2. Max(1..k) = k
      BY <2>1, MaxOf
  <2>3. f[1..k] = f[1..(k - 1)] + s[k].size
      BY <1>3, <2>1, <2>2
  <2>4. k \in 0..n /\ k - 1 \in 0..n
      OBVIOUS
  <2>5. QED BY <1>4, <2>3, <2>4
<1>7. \A k \in 0..n : T[k] \in Nat
  <2>1. PICK Bad : Bad = {k \in 0..n : T[k] \notin Nat}
      OBVIOUS
  <2>2. SUFFICES ASSUME Bad # {} PROVE FALSE
      BY <2>1
  <2>0. Bad \in SUBSET Nat
      BY <2>1
  <2>3. PICK k \in Bad : \A j \in Bad : k <= j
      BY <2>0, <2>2, LeastOf
  <2>4. k \in 1..n
      BY <1>5, <2>1
  <2>5. k - 1 \in 0..n /\ T[k - 1] \in Nat
      BY <2>1, <2>3, <2>4
  <2>6. s[k].size \in Nat
      BY <2>4
  <2>7. T[k] \in Nat
      BY <1>6, <2>4, <2>5, <2>6
  <2>8. QED BY <2>1, <2>7
<1>8. Sums(T, s, n)
    BY <1>4, <1>5, <1>6, <1>7 DEF Sums
<1>9. T[n] = f[1..n]
    BY <1>4
<1>10. QED BY <1>3, <1>8, <1>9

-----------------------------------------------------------------------------
\* stage_attachments.

\* Sums over the same sizes are the same.
LEMMA SumsAgree ==
    ASSUME NEW n \in Nat, NEW m \in Nat, NEW s, NEW r, NEW T, NEW U, Sums(T, s, n), Sums(U, r, m),
           m <= n, \A i \in 1..m : s[i].size = r[i].size
    PROVE  \A k \in 0..m : T[k] = U[k]
<1>1. PICK P : P = {k \in 0..m : T[k] = U[k]}
    OBVIOUS
<1>2. 0 \in P
    BY <1>1 DEF Sums
<1>3. ASSUME NEW k \in 1..m, k - 1 \in P PROVE k \in P
  <2>1. T[k] = T[k - 1] + s[k].size /\ U[k] = U[k - 1] + r[k].size
      BY DEF Sums
  <2>2. QED BY <1>1, <1>3, <2>1
<1>4. \A k \in 0..m : k \in P
    BY <1>2, <1>3, Climb
<1>5. QED BY <1>1, <1>4

\* One attachment of stage_attachments: what became of it, after total bytes.
Outcome(total, a, gateway) ==
    LET status == GatewayStage(a, gateway)
        size   == IF status = "staged" THEN a.size ELSE 0
        over   == OverLimit(total, size)
    IN [status |-> IF over THEN "failed" ELSE status, path |-> status = "staged",
        size |-> IF over THEN 0 ELSE size, name |-> a.name]
Counted(a, gateway) == IF GatewayStage(a, gateway) = "staged" THEN a.size ELSE 0
Tallies(R, list, gateway, n) ==
    /\ R \in [0..n -> Nat] /\ R[0] = 0
    /\ \A k \in 1..n : R[k] = R[k - 1] + Counted(list[k], gateway)

\* The loop of stage_attachments, attachment by attachment.
LEMMA StageRounds ==
    ASSUME NEW n \in Nat, NEW list, NEW gateway, Len(list) = n, DOMAIN list = 1..n,
           \A i \in 1..n : list[i].size \in Nat
    PROVE  \E R : /\ Tallies(R, list, gateway, n)
                  /\ StageAttachments(list, gateway) =
                       [k \in 1..n |-> Outcome(R[k - 1], list[k], gateway)]
<1> DEFINE One(acc, a) == [total |-> acc.total + Counted(a, gateway),
                           out   |-> Append(acc.out, Outcome(acc.total, a, gateway))]
           Rounds(f) == [k \in 0..n |-> IF k = 0 THEN [total |-> 0, out |-> <<>>]
                                        ELSE One(f[k - 1], list[k])]
<1>1. StageAttachments(list, gateway) = (CHOOSE f : f = Rounds(f))[n].out
    BY DEF StageAttachments, Outcome, Counted
<1>2. PICK Outs : Outs = [status : {"staged", "failed"}, path : BOOLEAN, size : Nat,
                         name : {list[i].name : i \in 1..n}]
    OBVIOUS
<1>3. \E f : f = Rounds(f)
  <2>1. PICK V, b, g : /\ V = [total : Nat, out : Seq(Outs)] /\ b = [total |-> 0, out |-> <<>>]
                       /\ g = [p \in (1..n) \X V |-> One(p[2], list[p[1]])]
      OBVIOUS
  <2>2. b \in V
      BY <2>1
  <2>3. ASSUME NEW k \in 1..n, NEW acc \in V PROVE One(acc, list[k]) \in V
    <3>1. Counted(list[k], gateway) \in Nat
        BY DEF Counted
    <3>2. Outcome(acc.total, list[k], gateway) \in Outs
      <4>1. GatewayStage(list[k], gateway) \in {"staged", "failed"}
          BY DEF GatewayStage
      <4>2. list[k].name \in {list[i].name : i \in 1..n}
          OBVIOUS
      <4>3. QED BY <1>2, <4>1, <4>2 DEF Outcome
    <3>3. acc.total \in Nat /\ acc.out \in Seq(Outs)
        BY <2>1
    <3>4. Append(acc.out, Outcome(acc.total, list[k], gateway)) \in Seq(Outs)
        BY <3>2, <3>3
    <3>5. QED BY <2>1, <3>1, <3>3, <3>4
  <2>4. g \in [(1..n) \X V -> V]
    <3> HIDE DEF One
    <3>1. QED BY <2>1, <2>3
  <2>5. PICK f : Recurs(f, n, V, b, g)
      BY <2>2, <2>4, RecursionExists
  <2>6. f = Rounds(f)
    <3> HIDE DEF One
    <3>1. f \in [0..n -> V] /\ f[0] = b /\ \A k \in 1..n : f[k] = g[<<k, f[k - 1]>>]
        BY <2>5 DEF Recurs
    <3>2. ASSUME NEW k \in 1..n PROVE f[k] = One(f[k - 1], list[k])
      <4>1. k - 1 \in 0..n
          OBVIOUS
      <4>2. <<k, f[k - 1]>> \in (1..n) \X V
          BY <3>1, <4>1
      <4>3. QED BY <2>1, <3>1, <4>2
    <3>3. \A k \in 0..n : f[k] = Rounds(f)[k]
      <4> SUFFICES ASSUME NEW k \in 0..n PROVE f[k] = Rounds(f)[k]
          OBVIOUS
      <4>1. CASE k = 0
          BY <2>1, <3>1, <4>1
      <4>2. CASE k # 0
        <5>1. k \in 1..n
            BY <4>2
        <5>2. QED BY <3>2, <4>2, <5>1
      <4>3. QED BY <4>1, <4>2
    <3>4. QED BY <3>1, <3>3
  <2>7. QED BY <2>6
<1>4. PICK f : f = Rounds(f) /\ StageAttachments(list, gateway) = f[n].out
    BY <1>1, <1>3
<1>5. f[0] = [total |-> 0, out |-> <<>>] /\ \A k \in 1..n : f[k] = One(f[k - 1], list[k])
  <2> HIDE DEF One
  <2>1. f[0] = [total |-> 0, out |-> <<>>]
      BY <1>4
  <2>2. ASSUME NEW k \in 1..n PROVE f[k] = One(f[k - 1], list[k])
    <3>1. k \in 0..n /\ k # 0
        OBVIOUS
    <3>2. QED BY <1>4, <3>1
  <2>3. QED BY <2>1, <2>2
<1>6. PICK R : R = [k \in 0..n |-> f[k].total]
    OBVIOUS
<1>7. PICK o : o = [k \in 1..n |-> Outcome(R[k - 1], list[k], gateway)]
    OBVIOUS
<1>8. R[0] = 0 /\ \A k \in 1..n : R[k] = R[k - 1] + Counted(list[k], gateway)
  <2>1. \A k \in 1..n : k \in 0..n /\ k - 1 \in 0..n
      OBVIOUS
  <2>2. 0 \in 0..n
      OBVIOUS
  <2>3. R[0] = 0
      BY <1>5, <1>6, <2>2
  <2>4. ASSUME NEW k \in 1..n PROVE R[k] = R[k - 1] + Counted(list[k], gateway)
    <3>1. f[k].total = f[k - 1].total + Counted(list[k], gateway)
      <4>1. f[k] = One(f[k - 1], list[k])
          BY <1>5
      <4>2. QED BY <4>1
    <3>2. QED BY <1>6, <2>1, <3>1
  <2>5. QED BY <2>3, <2>4
<1>9. \A k \in 1..n : Counted(list[k], gateway) \in Nat
    BY DEF Counted
<1>10. \A k \in 0..n : R[k] \in Nat
  <2>1. PICK P : P = {k \in 0..n : R[k] \in Nat}
      OBVIOUS
  <2>2. 0 \in P /\ \A k \in 1..n : k - 1 \in P => k \in P
      BY <1>8, <1>9, <2>1
  <2>3. \A k \in 0..n : k \in P
      BY <2>2, Climb
  <2>4. QED BY <2>1, <2>3
<1>11. \A k \in 0..n : f[k].out = [i \in 1..k |-> o[i]]
  <2>1. PICK P : P = {k \in 0..n : f[k].out = [i \in 1..k |-> o[i]]}
      OBVIOUS
  <2>2. 0 \in P
      BY <1>5, <2>1
  <2>3. ASSUME NEW k \in 1..n, k - 1 \in P PROVE k \in P
    <3>1. f[k - 1].out = [i \in 1..(k - 1) |-> o[i]]
        BY <2>1, <2>3
    <3>2. o[k] = Outcome(f[k - 1].total, list[k], gateway)
        BY <1>6, <1>7
    <3>3. f[k].out = Append([i \in 1..(k - 1) |-> o[i]], o[k])
      <4>1. f[k].out = Append(f[k - 1].out, Outcome(f[k - 1].total, list[k], gateway))
        <5>1. f[k] = One(f[k - 1], list[k])
            BY <1>5
        <5>2. QED BY <5>1
      <4>2. QED BY <3>1, <3>2, <4>1
    <3>4. Append([i \in 1..(k - 1) |-> o[i]], o[k]) = [i \in 1..k |-> o[i]]
      <4>1. PICK m \in Nat : m = k - 1
          OBVIOUS
      <4>2. PICK q : q = [i \in 1..m |-> o[i]]
          OBVIOUS
      <4>3. Len(q) = m /\ DOMAIN q = 1..m
          BY <4>2
      <4>4. PICK V : V = {o[i] : i \in 1..n}
          OBVIOUS
      <4>5. q \in Seq(V) /\ o[k] \in V
        <5>1. \A i \in 1..m : q[i] \in V
            BY <4>1, <4>2, <4>4
        <5>2. q \in [1..m -> V]
            BY <4>2, <5>1
        <5>3. QED BY <4>4, <5>2
      <4>6. PICK z : z = Append(q, o[k])
          OBVIOUS
      <4>7. z \in Seq(V) /\ Len(z) = m + 1 /\ z[m + 1] = o[k] /\ \A i \in 1..m : z[i] = q[i]
          BY <4>3, <4>5, <4>6, AppendProperties
      <4>8. z = [i \in 1..k |-> o[i]]
        <5>1. DOMAIN z = 1..k
            BY <4>1, <4>7
        <5>2. z = [i \in 1..k |-> z[i]]
            BY <4>7, <5>1
        <5>3. \A i \in 1..k : z[i] = o[i]
            BY <4>1, <4>2, <4>7
        <5>4. QED BY <5>2, <5>3
      <4>9. QED BY <4>2, <4>1, <4>6, <4>8
    <3>5. k \in 0..n
        OBVIOUS
    <3>6. QED BY <2>1, <3>3, <3>4, <3>5
  <2>4. \A k \in 0..n : k \in P
      BY <2>2, <2>3, Climb
  <2>5. QED BY <2>1, <2>4
<1>12. StageAttachments(list, gateway) = o
  <2>1. f[n].out = [i \in 1..n |-> o[i]]
      BY <1>11
  <2>2. QED BY <1>4, <1>7, <2>1
<1>13. Tallies(R, list, gateway, n)
    BY <1>6, <1>8, <1>10 DEF Tallies
<1>14. QED BY <1>7, <1>12, <1>13

\* What one call reports as staged stays within the limits and can be read, whatever
\* the attachments are; a refused file that can be read is within the limit of a file.
THEOREM StageLimits ==
    ASSUME MaxTotal \in Nat, NEW n \in Nat, NEW list, NEW gateway, Len(list) = n,
           DOMAIN list = 1..n, \A i \in 1..n : list[i].size \in Nat,
           NEW out, out = StageAttachments(list, gateway)
    PROVE  /\ Total(out) <= MaxTotal /\ DOMAIN out = 1..n
           /\ \A k \in 1..n :
                /\ out[k].status = "staged" => out[k].path /\ out[k].size = list[k].size
                /\ out[k].path => list[k].size <= MaxAttachment
                /\ ~ out[k].path => GatewayStage(list[k], gateway) = "failed"
                /\ out[k].path /\ out[k].status # "staged" => Total(SubSeq(list, 1, k)) > MaxTotal
<1>1. PICK R : /\ Tallies(R, list, gateway, n)
               /\ out = [k \in 1..n |-> Outcome(R[k - 1], list[k], gateway)]
    BY StageRounds
<1>2. \A k \in 1..n : /\ R[k - 1] \in Nat /\ R[k] \in Nat
                      /\ R[k] = R[k - 1] + Counted(list[k], gateway)
                      /\ Counted(list[k], gateway) \in Nat
                      /\ Counted(list[k], gateway) <= list[k].size
    BY <1>1 DEF Tallies, Counted
<1>3. ASSUME NEW k \in 1..n
      PROVE  /\ out[k].size \in Nat /\ out[k].size <= Counted(list[k], gateway)
             /\ out[k].size > 0 => R[k] <= MaxTotal
             /\ out[k].status = "staged" => out[k].size = list[k].size
             /\ out[k].path <=> GatewayStage(list[k], gateway) = "staged"
             /\ GatewayStage(list[k], gateway) \in {"staged", "failed"}
             /\ out[k].status = "staged" => GatewayStage(list[k], gateway) = "staged"
             /\ out[k].status # "staged" =>
                    GatewayStage(list[k], gateway) = "failed" \/ R[k] > MaxTotal
  <2>1. out[k] = Outcome(R[k - 1], list[k], gateway)
      BY <1>1
  <2>2. GatewayStage(list[k], gateway) \in {"staged", "failed"}
      BY DEF GatewayStage
  <2>3. PICK c \in Nat : c = Counted(list[k], gateway) /\ R[k] = R[k - 1] + c /\ R[k - 1] \in Nat
      BY <1>2
  <2>4. c = IF GatewayStage(list[k], gateway) = "staged" THEN list[k].size ELSE 0
      BY <2>3 DEF Counted
  <2>5. out[k] = [status |-> IF R[k - 1] + c > MaxTotal THEN "failed" ELSE GatewayStage(list[k], gateway),
                  path |-> GatewayStage(list[k], gateway) = "staged",
                  size |-> IF R[k - 1] + c > MaxTotal THEN 0 ELSE c, name |-> list[k].name]
      BY <2>1, <2>4 DEF Outcome, OverLimit
  <2>9. out[k].path <=> GatewayStage(list[k], gateway) = "staged"
    <3>1. PICK q \in BOOLEAN : q = (GatewayStage(list[k], gateway) = "staged")
        OBVIOUS
    <3>2. out[k].path = q
        BY <2>5, <3>1
    <3>3. QED BY <3>1, <3>2
  <2>6. CASE R[k] > MaxTotal
    <3>1. out[k].status = "failed" /\ out[k].size = 0
        BY <2>3, <2>5, <2>6
    <3>2. QED BY <2>2, <2>3, <2>6, <2>9, <3>1
  <2>7. CASE ~ (R[k] > MaxTotal)
    <3>1. out[k].status = GatewayStage(list[k], gateway) /\ out[k].size = c
        BY <2>3, <2>5, <2>7
    <3>2. R[k] <= MaxTotal
        BY <2>3, <2>7
    <3>3. QED BY <2>2, <2>3, <2>4, <2>9, <3>1, <3>2
  <2>8. QED BY <2>6, <2>7
<1>4. PICK T : Sums(T, out, n) /\ Total(out) = T[n]
    BY <1>1, <1>3, TotalSums
<1>5. PICK L : Sums(L, list, n) /\ Total(list) = L[n]
    BY TotalSums
<1>6. \A k \in 0..n : T[k] <= R[k] /\ T[k] <= MaxTotal /\ R[k] <= L[k]
  <2>1. PICK P : P = {k \in 0..n : T[k] <= R[k] /\ T[k] <= MaxTotal /\ R[k] <= L[k]}
      OBVIOUS
  <2>2. 0 \in P
      BY <1>1, <1>4, <1>5, <2>1 DEF Tallies, Sums
  <2>3. ASSUME NEW k \in 1..n, k - 1 \in P PROVE k \in P
    <3>1. T[k] = T[k - 1] + out[k].size /\ T[k - 1] \in Nat
        BY <1>4 DEF Sums
    <3>2. L[k] = L[k - 1] + list[k].size /\ L[k - 1] \in Nat
        BY <1>5 DEF Sums
    <3>3. T[k - 1] <= R[k - 1] /\ T[k - 1] <= MaxTotal /\ R[k - 1] <= L[k - 1]
        BY <2>1, <2>3
    <3>4. T[k] <= R[k] /\ R[k] <= L[k]
      <4>1. R[k] = R[k - 1] + Counted(list[k], gateway) /\ R[k - 1] \in Nat
            /\ Counted(list[k], gateway) \in Nat /\ Counted(list[k], gateway) <= list[k].size
          BY <1>2
      <4>2. out[k].size \in Nat /\ out[k].size <= Counted(list[k], gateway) /\ list[k].size \in Nat
          BY <1>3
      <4>3. PICK t, r, l, o, c, z : /\ t = T[k - 1] /\ r = R[k - 1] /\ l = L[k - 1] /\ o = out[k].size
                                    /\ c = Counted(list[k], gateway) /\ z = list[k].size
          OBVIOUS
      <4>4. /\ t \in Nat /\ r \in Nat /\ l \in Nat /\ o \in Nat /\ c \in Nat /\ z \in Nat
            /\ t <= r /\ r <= l /\ o <= c /\ c <= z
          BY <3>1, <3>2, <3>3, <4>1, <4>2, <4>3
      <4>5. t + o <= r + c /\ r + c <= l + z
          BY <4>4
      <4>6. QED BY <3>1, <3>2, <4>1, <4>3, <4>5
    <3>5. T[k] <= MaxTotal
      <4>1. CASE out[k].size > 0
          BY <1>2, <1>3, <3>1, <3>4, <4>1
      <4>2. CASE out[k].size = 0
          BY <3>1, <3>3, <4>2
      <4>3. QED BY <1>3, <4>1, <4>2
    <3>6. QED BY <2>1, <3>4, <3>5
  <2>4. \A k \in 0..n : k \in P
      BY <2>2, <2>3, Climb
  <2>5. QED BY <2>1, <2>4
<1>7. ASSUME NEW k \in 1..n, R[k] > MaxTotal PROVE Total(SubSeq(list, 1, k)) > MaxTotal
  <2>1. PICK s : s = SubSeq(list, 1, k)
      OBVIOUS
  <2>2. DOMAIN s = 1..k /\ \A i \in 1..k : s[i] = list[i]
    <3>1. PICK V : V = {list[i] : i \in 1..n}
        OBVIOUS
    <3>2. k \in Int /\ \A i \in 1..k : list[i] \in V
        BY <3>1
    <3>3. s \in Seq(V) /\ Len(s) = k /\ \A i \in 1..k : s[i] = list[i]
        BY <2>1, <3>2, SubSeqProperties
    <3>4. QED BY <3>3
  <2>3. PICK U : Sums(U, s, k) /\ Total(s) = U[k]
    <3>1. k \in Nat /\ \A i \in 1..k : s[i].size \in Nat
        BY <2>2
    <3>2. QED BY <2>2, <3>1, TotalSums
  <2>4. U[k] = L[k]
    <3>1. k \in Nat /\ k <= n /\ k \in 0..k /\ \A i \in 1..k : list[i].size = s[i].size
        BY <2>2
    <3>2. QED BY <1>5, <2>3, <3>1, SumsAgree
  <2>5. R[k] <= L[k] /\ L[k] \in Nat
      BY <1>5, <1>6 DEF Sums
  <2>6. QED BY <1>2, <1>7, <2>1, <2>3, <2>4, <2>5
<1>8. \A a : GatewayStage(a, gateway) = "staged" => a.size <= MaxAttachment
    BY DEF GatewayStage, UrlStage, Downloads
<1>9. Total(out) <= MaxTotal
    BY <1>4, <1>6
<1>10. QED BY <1>1, <1>3, <1>7, <1>8, <1>9

-----------------------------------------------------------------------------
\* _resolve_single_domain.

\* Which of the first k cases match, and how they compare.
HitsOf(cs, selectors, known, k) == {i \in 1..k : Matches(CaseSpec(cs[i], selectors), known)}
Under(c, d, selectors) ==
    \/ c.priority < d.priority
    \/ c.priority = d.priority
       /\ Specificity(CaseSpec(c, selectors)) < Specificity(CaseSpec(d, selectors))

\* What the scan of the first k cases may have found.
Found(r, cs, selectors, known, k) ==
    LET hits == HitsOf(cs, selectors, known, k)
    IN \/ r = None /\ hits = {}
       \/ r = Raised /\ \E i, j \in hits :
            /\ i # j /\ cs[i].priority = cs[j].priority
            /\ Specificity(CaseSpec(cs[i], selectors)) = Specificity(CaseSpec(cs[j], selectors))
       \/ \E w \in hits : r = cs[w] /\ \A i \in hits \ {w} : Under(cs[i], cs[w], selectors)

\* _resolve_single_domain finds the best of any number of cases, or two that tie.
THEOREM BestCaseFound ==
    ASSUME NEW n \in Nat, NEW cs, Len(cs) = n, NEW selectors, NEW known, None # Raised,
           \A i \in 1..n : /\ cs[i] \notin {None, Raised} /\ cs[i].priority \in Int
                           /\ CaseSpec(cs[i], selectors) # Raised
                           /\ Specificity(CaseSpec(cs[i], selectors)) \in Int
    PROVE  Found(BestCase(cs, selectors, known), cs, selectors, known, n)
<1> DEFINE spec(i) == CaseSpec(cs[i], selectors)
           Next1(best, i) ==
               IF best = Raised \/ spec(i) = Raised THEN Raised
               ELSE IF ~ Matches(spec(i), known) THEN best
               ELSE IF best = None THEN cs[i]
               ELSE IF KeyAbove(CaseKey(cs[i], selectors), CaseKey(best, selectors)) THEN cs[i]
               ELSE IF CaseKey(cs[i], selectors) = CaseKey(best, selectors) THEN Raised
               ELSE best
           Rounds(f) == [k \in 0..n |-> IF k = 0 THEN None ELSE Next1(f[k - 1], k)]
<1>1. BestCase(cs, selectors, known) = (CHOOSE f : f = Rounds(f))[n]
    BY DEF BestCase
<1>2. \E f : f = Rounds(f)
  <2>1. PICK V, b, g : /\ V = {None, Raised} \cup {cs[i] : i \in 1..n} /\ b = None
                       /\ g = [p \in (1..n) \X V |-> Next1(p[2], p[1])]
      OBVIOUS
  <2>2. b \in V
      BY <2>1
  <2>3. ASSUME NEW k \in 1..n, NEW best \in V PROVE Next1(best, k) \in V
    <3>1. Next1(best, k) \in {Raised, best, cs[k]}
        OBVIOUS
    <3>2. QED BY <2>1, <3>1
  <2>4. g \in [(1..n) \X V -> V]
    <3> HIDE DEF Next1
    <3>1. QED BY <2>1, <2>3
  <2>5. PICK f : Recurs(f, n, V, b, g)
      BY <2>2, <2>4, RecursionExists
  <2>6. f = Rounds(f)
    <3> HIDE DEF Next1
    <3>1. f \in [0..n -> V] /\ f[0] = b /\ \A k \in 1..n : f[k] = g[<<k, f[k - 1]>>]
        BY <2>5 DEF Recurs
    <3>2. ASSUME NEW k \in 1..n PROVE f[k] = Next1(f[k - 1], k)
      <4>1. k - 1 \in 0..n
          OBVIOUS
      <4>2. <<k, f[k - 1]>> \in (1..n) \X V
          BY <3>1, <4>1
      <4>3. QED BY <2>1, <3>1, <4>2
    <3>3. ASSUME NEW k \in 0..n PROVE f[k] = Rounds(f)[k]
      <4>1. CASE k = 0
          BY <2>1, <3>1, <4>1
      <4>2. CASE k # 0
        <5>1. k \in 1..n
            BY <4>2
        <5>2. QED BY <3>2, <4>2, <5>1
      <4>3. QED BY <4>1, <4>2
    <3>4. QED BY <3>1, <3>3
  <2>7. QED BY <2>6
<1>3. PICK f : f = Rounds(f) /\ BestCase(cs, selectors, known) = f[n]
    BY <1>1, <1>2
<1>4. f[0] = None /\ \A k \in 1..n : f[k] = Next1(f[k - 1], k)
  <2> HIDE DEF Next1
  <2>1. f[0] = None
      BY <1>3
  <2>2. ASSUME NEW k \in 1..n PROVE f[k] = Next1(f[k - 1], k)
    <3>1. k \in 0..n /\ k # 0
        OBVIOUS
    <3>2. QED BY <1>3, <3>1
  <2>3. QED BY <2>1, <2>2
<1>5. PICK P : P = {k \in 0..n : Found(f[k], cs, selectors, known, k)}
    OBVIOUS
<1>6. 0 \in P
  <2>1. HitsOf(cs, selectors, known, 0) = {}
      BY DEF HitsOf
  <2>2. QED BY <1>4, <1>5, <2>1 DEF Found
<1>7. ASSUME NEW k \in 1..n, k - 1 \in P PROVE k \in P
  <2>1. PICK before, now : /\ before = HitsOf(cs, selectors, known, k - 1)
                           /\ now = HitsOf(cs, selectors, known, k)
      OBVIOUS
  <2>2. /\ now = IF Matches(spec(k), known) THEN before \cup {k} ELSE before
        /\ k \notin before /\ before \subseteq 1..n
      BY <2>1 DEF HitsOf
  <2>3. PICK best : best = f[k - 1]
      OBVIOUS
  <2>4. f[k] = Next1(best, k)
      BY <1>4, <2>3
  <2>5. Found(best, cs, selectors, known, k - 1)
      BY <1>5, <1>7, <2>3
  <2>6. \/ best = None /\ before = {}
        \/ best = Raised /\ \E i, j \in before :
              /\ i # j /\ cs[i].priority = cs[j].priority
              /\ Specificity(spec(i)) = Specificity(spec(j))
        \/ \E w \in before : best = cs[w] /\ \A i \in before \ {w} : Under(cs[i], cs[w], selectors)
      BY <2>1, <2>5 DEF Found
  <2>7. SUFFICES Found(f[k], cs, selectors, known, k)
      BY <1>5
  <2>8. CASE best = Raised
    <3>1. f[k] = Raised
        BY <2>4, <2>8
    <3>2. \E i, j \in before : /\ i # j /\ cs[i].priority = cs[j].priority
                               /\ Specificity(spec(i)) = Specificity(spec(j))
        BY <2>2, <2>6, <2>8
    <3>3. before \subseteq now
        BY <2>2
    <3>4. QED BY <2>1, <3>1, <3>2, <3>3 DEF Found
  <2>9. CASE best # Raised /\ ~ Matches(spec(k), known)
    <3>1. f[k] = best /\ now = before
        BY <2>2, <2>4, <2>9
    <3>2. QED BY <2>1, <2>5, <3>1 DEF Found
  <2>10. CASE best = None /\ Matches(spec(k), known)
    <3>1. before = {}
        BY <2>2, <2>6, <2>10
    <3>2. f[k] = cs[k] /\ now = {k}
        BY <2>2, <2>4, <2>10, <3>1
    <3>3. QED BY <2>1, <3>2 DEF Found
  <2>11. CASE best \notin {Raised, None} /\ Matches(spec(k), known)
    <3>1. PICK w \in before : best = cs[w] /\ \A i \in before \ {w} : Under(cs[i], cs[w], selectors)
        BY <2>6, <2>11
    <3>2. now = before \cup {k} /\ w # k /\ w \in 1..n
        BY <2>2, <2>11
    <3>3. \A i \in 1..n : cs[i].priority \in Int /\ Specificity(spec(i)) \in Int
        OBVIOUS
    <3>4. f[k] = IF Under(cs[w], cs[k], selectors) THEN cs[k]
                 ELSE IF cs[k].priority = cs[w].priority /\ Specificity(spec(k)) = Specificity(spec(w))
                 THEN Raised ELSE cs[w]
        BY <2>4, <2>11, <3>1, <3>2, <3>3 DEF KeyAbove, CaseKey, Under
    <3>5. CASE Under(cs[w], cs[k], selectors)
      <4>1. \A i \in now \ {k} : Under(cs[i], cs[k], selectors)
        <5> SUFFICES ASSUME NEW i \in before PROVE Under(cs[i], cs[k], selectors)
            BY <3>2
        <5>1. CASE i = w
            BY <3>5, <5>1
        <5>2. CASE i # w
          <6>1. Under(cs[i], cs[w], selectors) /\ i \in 1..n
              BY <2>2, <3>1, <5>2
          <6>2. QED BY <3>2, <3>3, <3>5, <6>1 DEF Under
        <5>3. QED BY <5>1, <5>2
      <4>2. f[k] = cs[k] /\ k \in now
          BY <3>2, <3>4, <3>5
      <4>3. QED BY <2>1, <4>1, <4>2 DEF Found
    <3>6. CASE /\ ~ Under(cs[w], cs[k], selectors)
               /\ cs[k].priority = cs[w].priority /\ Specificity(spec(k)) = Specificity(spec(w))
      <4>1. f[k] = Raised /\ k \in now /\ w \in now
          BY <3>2, <3>4, <3>6
      <4>2. QED BY <2>1, <3>2, <3>6, <4>1 DEF Found
    <3>7. CASE /\ ~ Under(cs[w], cs[k], selectors)
               /\ ~ (cs[k].priority = cs[w].priority /\ Specificity(spec(k)) = Specificity(spec(w)))
      <4>1. Under(cs[k], cs[w], selectors)
          BY <3>2, <3>3, <3>7 DEF Under
      <4>2. f[k] = cs[w] /\ w \in now
          BY <3>2, <3>4, <3>7
      <4>3. \A i \in now \ {w} : Under(cs[i], cs[w], selectors)
          BY <3>1, <3>2, <4>1
      <4>4. QED BY <2>1, <4>2, <4>3 DEF Found
    <3>8. QED BY <3>5, <3>6, <3>7
  <2>12. QED BY <2>8, <2>9, <2>10, <2>11
<1>8. \A k \in 0..n : k \in P
    BY <1>6, <1>7, Climb
<1>9. n \in 0..n
    OBVIOUS
<1>10. QED BY <1>3, <1>5, <1>8, <1>9

\* What one case of the input declares, itself or through the selector.
LEMMA SpecificityNat ==
    ASSUME NEW w \in RawSpecs
    PROVE  Specificity(ParseMatchSpec(w)) \in Nat /\ Specificity(NoKeys) \in Nat
<1>1. IsFiniteSet(DOMAIN w)
  <2>1. \A a, b, c : IsFiniteSet({}) /\ IsFiniteSet({a}) /\ IsFiniteSet({a, b}) /\ IsFiniteSet({a, b, c})
    <3> SUFFICES ASSUME NEW a, NEW b, NEW c
                 PROVE  IsFiniteSet({}) /\ IsFiniteSet({a}) /\ IsFiniteSet({a, b}) /\ IsFiniteSet({a, b, c})
        OBVIOUS
    <3>1. IsFiniteSet({}) /\ IsFiniteSet({} \cup {a})
        BY FS_EmptySet, FS_AddElement
    <3>2. IsFiniteSet(({} \cup {a}) \cup {b})
        BY <3>1, FS_AddElement
    <3>3. IsFiniteSet((({} \cup {a}) \cup {b}) \cup {c})
        BY <3>2, FS_AddElement
    <3>4. /\ {a} = {} \cup {a} /\ {a, b} = ({} \cup {a}) \cup {b}
          /\ {a, b, c} = (({} \cup {a}) \cup {b}) \cup {c}
        OBVIOUS
    <3>5. QED BY <3>1, <3>2, <3>3, <3>4
  <2>2. \/ DOMAIN w = {} \/ DOMAIN w = {"scene"} \/ DOMAIN w = {"platform"}
        \/ DOMAIN w = {"scene", "is_bot_admin"}
        \/ DOMAIN w = {"sender_roles", "attachment_kinds", "notice_type"}
      BY DEF RawSpecs, NoKeys
  <2>3. CASE DOMAIN w = {}
      BY <2>1, <2>3, Zenon
  <2>4. CASE DOMAIN w = {"scene"}
      BY <2>1, <2>4, Zenon
  <2>5. CASE DOMAIN w = {"platform"}
      BY <2>1, <2>5, Zenon
  <2>6. CASE DOMAIN w = {"scene", "is_bot_admin"}
      BY <2>1, <2>6, Zenon
  <2>7. CASE DOMAIN w = {"sender_roles", "attachment_kinds", "notice_type"}
    <3>1. IsFiniteSet({"sender_roles", "attachment_kinds", "notice_type"})
        BY <2>1, Zenon
    <3>2. QED BY <2>7, <3>1
  <2>8. QED BY <2>2, <2>3, <2>4, <2>5, <2>6, <2>7
<1>2. DOMAIN ParseMatchSpec(w) \subseteq DOMAIN w
    BY DEF ParseMatchSpec
<1>3. DOMAIN NoKeys = {}
    BY DEF NoKeys
<1>4. IsFiniteSet(DOMAIN ParseMatchSpec(w))
    BY <1>1, <1>2, FS_Subset
<1>5. QED BY <1>3, <1>4, FS_EmptySet, FS_CardinalityType DEF Specificity

\* The conditions of a case of the input.
Conditions == {[when_ref |-> "s"]} \cup {[when |-> w] : w \in RawSpecs}

GroupSelector == [s \in {"s"} |-> ParseMatchSpec([scene |-> "group"])]
WellParsed(c, i, p) ==
    /\ c.case_id = i /\ c.priority = p /\ c.use = [mode |-> "respond"] /\ c \in ParsedCases
    /\ CaseSpec(c, GroupSelector) # Raised /\ Specificity(CaseSpec(c, GroupSelector)) \in Nat

\* The loader reads such a case as written, and it is none of the marks.
LEMMA CaseParsed ==
    ASSUME NEW i \in Nat, NEW p \in Nat, NEW h \in Conditions
    PROVE  WellParsed(ParseCase(RawCase(i, p, h)), i, p)
<1> DEFINE selectors == GroupSelector
<1>0. PICK c : c = ParseCase(RawCase(i, p, h))
    OBVIOUS
<1>1. PICK raw : raw = RawCase(i, p, h)
    OBVIOUS
<1>2. /\ raw.case_id = i /\ raw.priority = p /\ raw.use = [mode |-> "respond"]
      /\ {"case_id", "priority", "use"} \subseteq DOMAIN raw
      /\ DOMAIN raw = {"case_id", "priority", "use"} \cup DOMAIN h
      /\ \A k \in DOMAIN h : raw[k] = h[k]
  <2>1. DOMAIN h = {"when_ref"} \/ DOMAIN h = {"when"}
      BY DEF Conditions
  <2>2. DOMAIN [case_id |-> i, priority |-> p, use |-> [mode |-> "respond"]] = {"case_id", "priority", "use"}
      OBVIOUS
  <2>3. QED BY <1>1, <2>1, <2>2 DEF RawCase, Overlay
<1>3. c.case_id = i /\ c.priority = p /\ c.use = [mode |-> "respond"]
    BY <1>0, <1>1, <1>2 DEF ParseCase, Get
<1>4. c.when = IF Get(raw, "when", None) = None THEN None ELSE ParseMatchSpec(raw.when)
    BY <1>0, <1>1 DEF ParseCase
<1>5. c.when_ref = Get(raw, "when_ref", "")
    BY <1>0, <1>1 DEF ParseCase
<1>6. [scene |-> "group"] \in RawSpecs /\ NoKeys \in RawSpecs
    BY DEF RawSpecs
<1>7. ParseMatchSpec(NoKeys) = NoKeys
    BY DEF ParseMatchSpec, NoKeys
<1>8. \/ c.when = None /\ c.when_ref = "s"
      \/ c.when_ref = "" /\ \E w \in RawSpecs : c.when \in {None, ParseMatchSpec(w)}
  <2>1. CASE h = [when_ref |-> "s"]
    <3>1. DOMAIN h = {"when_ref"} /\ h["when_ref"] = "s"
        BY <2>1
    <3>2. QED BY <1>2, <1>4, <1>5, <3>1 DEF Get
  <2>2. CASE \E w \in RawSpecs : h = [when |-> w]
    <3>1. PICK w \in RawSpecs : h = [when |-> w]
        BY <2>2
    <3>2. DOMAIN h = {"when"} /\ h["when"] = w
        BY <3>1
    <3>3. "when_ref" \notin DOMAIN raw /\ raw["when"] = w
        BY <1>2, <3>2
    <3>4. QED BY <1>4, <1>5, <3>3 DEF Get
  <2>3. QED BY <2>1, <2>2 DEF Conditions
<1>9. \E w \in RawSpecs : CaseSpec(c, selectors) = ParseMatchSpec(w)
    BY <1>6, <1>7, <1>8 DEF CaseSpec, Get, GroupSelector
<1>10. CaseSpec(c, selectors) # Raised /\ Specificity(CaseSpec(c, selectors)) \in Nat
    BY <1>9, SpecificityNat, MarksAssumption DEF CaseSpecs
<1>11. c \in ParsedCases
  <2>1. c = [case_id |-> c.case_id, when |-> c.when, when_ref |-> c.when_ref,
             use |-> c.use, priority |-> c.priority]
      BY <1>0 DEF ParseCase
  <2>2. c.when \in {None} \cup {ParseMatchSpec(r) : r \in RawSpecs}
      BY <1>8, Zenon
  <2>5. c.when_ref \in {"", "s"}
      BY <1>8
  <2>3. c.use \in Payloads
      BY <1>3 DEF Modes, Payloads
  <2>4. QED BY <1>3, <2>1, <2>2, <2>3, <2>5 DEF ParsedCases, CaseIds, CaseSpecs
<1>12. QED BY <1>0, <1>3, <1>10, <1>11 DEF WellParsed

\* Every step of the model sets another part, or goes back to the start.
LEMMA PartOf ==
    /\ ChooseWindows => part' = "windows"
    /\ ChoosePages => part' = "pages"
    /\ ChooseEdit => part' = "edit"
    /\ ChooseStage => part' = "stage"
    /\ ChooseWorld => part' = "world"
    /\ ChooseCases => part' = "cases"
    /\ ChooseForm => part' = "form"
    /\ ChooseGroup => part' = "group"
    /\ ChooseContext => part' = "context"
    /\ ChooseExtraction => part' = "extraction"
    /\ ChooseTimes => part' = "times"
    /\ ChooseRecall => part' = "recall"
    /\ Return => part' = "start"
<1>0. \A p, x : Choose(p, x) => part' = p
    BY DEF Choose
<1>1. ChooseWindows => part' = "windows"
    BY <1>0, Zenon DEF ChooseWindows
<1>2. ChoosePages => part' = "pages"
    BY <1>0, Zenon DEF ChoosePages
<1>3. ChooseEdit => part' = "edit"
    BY <1>0, Zenon DEF ChooseEdit
<1>4. ChooseStage => part' = "stage"
    BY <1>0 DEF ChooseStage
<1>5. ChooseWorld => part' = "world"
    BY <1>0, Zenon DEF ChooseWorld
<1>6. ChooseCases => part' = "cases"
    BY <1>0, Zenon DEF ChooseCases
<1>7. ChooseForm => part' = "form"
    BY <1>0, Zenon DEF ChooseForm
<1>8. ChooseGroup => part' = "group"
    BY <1>0, Zenon DEF ChooseGroup
<1>9. ChooseContext => part' = "context"
    BY <1>0 DEF ChooseContext
<1>10. ChooseExtraction => part' = "extraction"
    BY <1>0, Zenon DEF ChooseExtraction
<1>11. ChooseTimes => part' = "times"
    BY <1>0, Zenon DEF ChooseTimes
<1>12. ChooseRecall => part' = "recall"
    BY <1>0, Zenon DEF ChooseRecall
<1>13. Return => part' = "start"
    BY DEF Return
<1>14. QED BY <1>1, <1>2, <1>3, <1>4, <1>5, <1>6, <1>7, <1>8, <1>9, <1>10, <1>11, <1>12, <1>13

\* So only the action of a part leads into it.
LEMMA OnlyItsAction ==
    ASSUME FunctionsNext
    PROVE  /\ part' = "stage" => ChooseStage
           /\ part' = "cases" => ChooseCases
           /\ part' = "form" => ChooseForm
           /\ part' = "group" => ChooseGroup
           /\ part' = "times" => ChooseTimes
           /\ part' = "world" => ChooseWorld
BY PartOf DEF FunctionsNext

\* The input of a resolution.
Written(n, whens, prios, byRef) ==
    [cases |-> [i \in 1..n |->
         RawCase(i, prios[i], IF byRef[i] THEN [when_ref |-> "s"] ELSE [when |-> whens[i]])],
     selector |-> [scene |-> "group"]]
CasesOf(x) ==
    \E n \in 0..3 : \E whens \in [1..n -> RawSpecs], prios \in [1..n -> {100, 200}],
                       byRef \in [1..n -> BOOLEAN] : x = Written(n, whens, prios, byRef)
CasesInput == part = "cases" => CasesOf(in)

\* Only ChooseCases makes such an input.
LEMMA CasesStep == CasesInput /\ [FunctionsNext]_inputs => CasesInput'
<1>1. ASSUME ChooseCases PROVE CasesOf(in')
  <2>1. PICK n \in 0..3 : \E whens \in [1..n -> RawSpecs], prios \in [1..n -> {100, 200}],
                            byRef \in [1..n -> BOOLEAN] :
           Choose("cases",
                  [cases |-> [i \in 1..n |->
                       RawCase(i, prios[i], IF byRef[i] THEN [when_ref |-> "s"] ELSE [when |-> whens[i]])],
                   selector |-> [scene |-> "group"]])
      BY <1>1, Zenon DEF ChooseCases
  <2>2. PICK whens \in [1..n -> RawSpecs], prios \in [1..n -> {100, 200}], byRef \in [1..n -> BOOLEAN] :
           Choose("cases",
                  [cases |-> [i \in 1..n |->
                       RawCase(i, prios[i], IF byRef[i] THEN [when_ref |-> "s"] ELSE [when |-> whens[i]])],
                   selector |-> [scene |-> "group"]])
      BY <2>1
  <2>3. in' = Written(n, whens, prios, byRef)
      BY <2>2 DEF Choose, Written
  <2>4. QED BY <2>3 DEF CasesOf
<1>2. ASSUME CasesInput, UNCHANGED inputs PROVE CasesInput'
    BY <1>2 DEF inputs, CasesInput
<1>3. ASSUME FunctionsNext PROVE CasesInput'
    BY <1>1, <1>3, OnlyItsAction DEF CasesInput
<1>4. QED BY <1>2, <1>3

\* The case that wins has the highest priority and then the most conditions.
LEMMA CasesWinner == ASSUME CasesInput PROVE WinnerIsBest
<1>1. SUFFICES ASSUME part = "cases" PROVE WinnerIsBest
    BY DEF WinnerIsBest
<1>2. PICK n \in 0..3 : \E whens \in [1..n -> RawSpecs], prios \in [1..n -> {100, 200}],
                          byRef \in [1..n -> BOOLEAN] : in = Written(n, whens, prios, byRef)
    BY <1>1 DEF CasesInput, CasesOf
<1>3. PICK whens \in [1..n -> RawSpecs], prios \in [1..n -> {100, 200}], byRef \in [1..n -> BOOLEAN] :
        in = [cases |-> [i \in 1..n |->
                  RawCase(i, prios[i], IF byRef[i] THEN [when_ref |-> "s"] ELSE [when |-> whens[i]])],
              selector |-> [scene |-> "group"]]
    BY <1>2 DEF Written
<1>4. Len(in.cases) = n /\ \A i \in 1..n : \E p \in Nat, h \in Conditions : in.cases[i] = RawCase(i, p, h)
  <2>1. Len(in.cases) = n
      BY <1>3
  <2>2. ASSUME NEW i \in 1..n PROVE \E p \in Nat, h \in Conditions : in.cases[i] = RawCase(i, p, h)
    <3>1. PICK h : h = IF byRef[i] THEN [when_ref |-> "s"] ELSE [when |-> whens[i]]
        OBVIOUS
    <3>2. h \in Conditions /\ prios[i] \in Nat
        BY <3>1 DEF Conditions
    <3>3. in.cases[i] = RawCase(i, prios[i], h)
        BY <1>3, <3>1
    <3>4. QED BY <3>2, <3>3
  <2>3. QED BY <2>1, <2>2
<1> DEFINE cases == [i \in 1..Len(in.cases) |-> ParseCase(in.cases[i])]
           sels  == [s \in {"s"} |-> ParseMatchSpec(in.selector)]
           known == MCFacts
           hits  == {i \in DOMAIN cases : Matches(CaseSpec(cases[i], sels), known)}
           r     == ResolveDomain([default |-> [mode |-> "record_only"], cases |-> cases], sels, known)
<1>5. /\ cases = [i \in 1..n |-> ParseCase(in.cases[i])]
      /\ sels = GroupSelector
    BY <1>3, <1>4 DEF GroupSelector
<1>6. PICK domain : /\ domain = [default |-> [mode |-> "record_only"], cases |-> cases]
                     /\ r = ResolveDomain(domain, sels, known)
    OBVIOUS
<1>6a. hits = {i \in DOMAIN cases : Matches(CaseSpec(cases[i], sels), known)}
    OBVIOUS
<1> HIDE DEF cases, sels, known, r, hits
<1>7. \A i \in 1..n : /\ cases[i].case_id = i /\ cases[i].priority \in Nat
                      /\ cases[i].use = [mode |-> "respond"] /\ cases[i] \in ParsedCases
                      /\ CaseSpec(cases[i], sels) # Raised
                      /\ Specificity(CaseSpec(cases[i], sels)) \in Nat
  <2> SUFFICES ASSUME NEW i \in 1..n
               PROVE  /\ cases[i].case_id = i /\ cases[i].priority \in Nat
                      /\ cases[i].use = [mode |-> "respond"] /\ cases[i] \in ParsedCases
                      /\ CaseSpec(cases[i], sels) # Raised
                      /\ Specificity(CaseSpec(cases[i], sels)) \in Nat
      OBVIOUS
  <2>1. PICK p \in Nat, h \in Conditions : in.cases[i] = RawCase(i, p, h)
      BY <1>4
  <2>2. cases[i] = ParseCase(RawCase(i, p, h)) /\ i \in Nat
      BY <1>5, <2>1
  <2>3. WellParsed(cases[i], i, p)
      BY <2>2, CaseParsed
  <2>4. QED BY <1>5, <2>3 DEF WellParsed
<1>8. PICK best : best = BestCase(cases, sels, known)
    OBVIOUS
<1>9. Found(best, cases, sels, known, n)
  <2>1. Len(cases) = n /\ n \in Nat
      BY <1>5
  <2>2. \A i \in 1..n : cases[i] \notin {None, Raised}
      BY <1>7, MarksAssumption
  <2>3. None # Raised /\ \A i \in 1..n : cases[i].priority \in Int /\ Specificity(CaseSpec(cases[i], sels)) \in Int
      BY <1>7, MarksAssumption
  <2>4. QED BY <1>7, <1>8, <2>1, <2>2, <2>3, BestCaseFound
<1>11. hits = HitsOf(cases, sels, known, n) /\ hits \subseteq 1..n
    BY <1>5, <1>6a DEF HitsOf
<1>12. domain # None
  <2>1. cases \in Seq(ParsedCases)
    <3>1. cases \in [1..n -> ParsedCases]
        BY <1>5, <1>7
    <3>2. QED BY <3>1
  <2>2. domain \in ParsedDomains
      BY <1>6, <2>1 DEF ParsedDomains, Payloads, Modes
  <2>3. QED BY <2>2, MarksAssumption
<1>13. r = IF best = Raised THEN Raised
           ELSE IF best = None
           THEN [payload |-> [mode |-> "record_only"], case_id |-> "", priority |-> 100, specificity |-> 0]
           ELSE [payload |-> Overlay([mode |-> "record_only"], best.use), case_id |-> best.case_id,
                 priority |-> best.priority, specificity |-> Specificity(CaseSpec(best, sels))]
    BY <1>8, <1>6, <1>12 DEF ResolveDomain
<1>14. Overlay([mode |-> "record_only"], [mode |-> "respond"]) = [mode |-> "respond"]
    BY DEF Overlay
<1>15. \/ best = None /\ hits = {}
       \/ best = Raised /\ \E i, j \in hits :
            /\ i # j /\ cases[i].priority = cases[j].priority
            /\ Specificity(CaseSpec(cases[i], sels)) = Specificity(CaseSpec(cases[j], sels))
       \/ \E w \in hits : best = cases[w] /\ \A i \in hits \ {w} : Under(cases[i], cases[w], sels)
    BY <1>9, <1>11 DEF Found
<1>16. IF r = Raised
       THEN \E i, j \in hits : i # j /\ cases[i].priority = cases[j].priority
              /\ Specificity(CaseSpec(cases[i], sels)) = Specificity(CaseSpec(cases[j], sels))
       ELSE IF hits = {} THEN r.payload.mode = "record_only" /\ r.case_id = ""
       ELSE /\ r.case_id \in hits
            /\ r.payload.mode = "respond"
            /\ \A i \in hits \ {r.case_id} :
                 \/ cases[i].priority < cases[r.case_id].priority
                 \/ cases[i].priority = cases[r.case_id].priority
                    /\ Specificity(CaseSpec(cases[i], sels)) < Specificity(CaseSpec(cases[r.case_id], sels))
  <2>1. CASE best = Raised
    <3>1. r = Raised
        BY <1>13, <2>1
    <3>2. best # None /\ \A w \in hits : best # cases[w]
        BY <1>7, <1>11, <2>1, MarksAssumption
    <3>3. QED BY <1>15, <3>1, <3>2
  <2>2. CASE best = None
    <3>1. r = [payload |-> [mode |-> "record_only"], case_id |-> "", priority |-> 100, specificity |-> 0]
        BY <1>13, <2>2, MarksAssumption
    <3>2. [mode |-> "record_only"] \in Payloads
        BY DEF Modes, Payloads
    <3>3. r \in Resolutions
        BY <3>1, <3>2 DEF Resolutions, CaseIds
    <3>4. r # Raised
        BY <3>3, MarksAssumption
    <3>5. best # Raised /\ \A w \in hits : best # cases[w]
        BY <1>7, <1>11, <2>2, MarksAssumption
    <3>6. hits = {}
        BY <1>15, <3>5
    <3>7. QED BY <3>1, <3>4, <3>6
  <2>3. CASE best \notin {None, Raised}
    <3>1. PICK w \in hits : best = cases[w] /\ \A i \in hits \ {w} : Under(cases[i], cases[w], sels)
        BY <1>15, <2>3
    <3>2. r = [payload |-> [mode |-> "respond"], case_id |-> w, priority |-> best.priority,
               specificity |-> Specificity(CaseSpec(best, sels))]
        BY <1>7, <1>11, <1>13, <1>14, <2>3, <3>1
    <3>3. w \in Nat /\ best.priority \in Nat /\ Specificity(CaseSpec(best, sels)) \in Nat
        BY <1>7, <1>11, <3>1
    <3>4. [mode |-> "respond"] \in Payloads
        BY DEF Modes, Payloads
    <3>5. r \in Resolutions
        BY <3>2, <3>3, <3>4 DEF Resolutions, CaseIds
    <3>6. r # Raised
        BY <3>5, MarksAssumption
    <3>7. r.case_id = w /\ r.payload.mode = "respond"
        BY <3>2
    <3>8. QED BY <3>1, <3>6, <3>7 DEF Under
  <2>4. QED BY <2>1, <2>2, <2>3
<1>17. QED BY <1>16, Zenon DEF WinnerIsBest, cases, sels, known, hits, r

-----------------------------------------------------------------------------
\* The attachments and the times of the inputs.

\* A sequence of a bounded length.
LEMMA UpTo ==
    ASSUME NEW S, NEW n \in Nat, NEW s \in SeqsUpTo(S, n)
    PROVE  \E m \in 0..n : s \in [1..m -> S]
<1>1. PICK U : U = {[1..m -> S] : m \in 0..n}
    OBVIOUS
<1>2. s \in UNION U
    BY <1>1 DEF SeqsUpTo
<1>3. PICK D \in U : s \in D
    BY <1>2
<1>4. \A Y \in U : \E m \in 0..n : Y = [1..m -> S]
    BY <1>1
<1>5. PICK m \in 0..n : D = [1..m -> S]
    BY <1>4
<1>6. QED BY <1>3, <1>5

\* The attachments of an event.
StageInput ==
    part = "stage" => \E n \in Nat : /\ Len(in.list) = n /\ DOMAIN in.list = 1..n
                                     /\ \A i \in 1..n : in.list[i].size \in Nat

\* Only ChooseStage makes such an input.
LEMMA StageStep == StageInput /\ [FunctionsNext]_inputs => StageInput'
<1>1. ASSUME ChooseStage PROVE StageInput'
  <2>1. PICK list \in SeqsUpTo(Attachments, 2) \cup {<<a, a, b>> : a, b \in Attachments},
             gateway \in BOOLEAN : Choose("stage", [list |-> list, gateway |-> gateway])
      BY <1>1 DEF ChooseStage
  <2>2. in'.list = list
      BY <2>1 DEF Choose
  <2>3. \A a \in Attachments : a.size \in Nat
      BY LimitsAssumption DEF Attachments
  <2>4. PICK n \in Nat : list \in [1..n -> Attachments]
    <3>1. CASE list \in SeqsUpTo(Attachments, 2)
        BY <3>1, UpTo
    <3>2. CASE list \in {<<a, a, b>> : a, b \in Attachments}
      <4>1. PICK a, b \in Attachments : list = <<a, a, b>>
          BY <3>2
      <4>2. list \in [1..3 -> Attachments]
        <5> HIDE DEF Attachments
        <5>1. QED BY <4>1
      <4>3. QED BY <4>2
    <3>3. QED BY <2>1, <3>1, <3>2
  <2>5. Len(list) = n /\ DOMAIN list = 1..n /\ \A i \in 1..n : list[i].size \in Nat
    <3> HIDE DEF Attachments
    <3>1. QED BY <2>3, <2>4
  <2>6. \E k \in Nat : Len(in'.list) = k /\ DOMAIN in'.list = 1..k /\ \A i \in 1..k : in'.list[i].size \in Nat
      BY <2>2, <2>5
  <2>7. QED BY <2>6 DEF StageInput
<1>2. ASSUME StageInput, UNCHANGED inputs PROVE StageInput'
    BY <1>2 DEF inputs, StageInput
<1>3. ASSUME FunctionsNext PROVE StageInput'
    BY <1>1, <1>3, OnlyItsAction DEF StageInput
<1>4. QED BY <1>2, <1>3

\* What is staged of such an input stays within the limits.
LEMMA StagedInput == ASSUME StageInput PROVE StagedWithinLimits
<1>1. SUFFICES ASSUME part = "stage" PROVE StagedWithinLimits
    BY DEF StagedWithinLimits
<1>2. PICK n \in Nat : Len(in.list) = n /\ DOMAIN in.list = 1..n /\ \A i \in 1..n : in.list[i].size \in Nat
    BY <1>1 DEF StageInput
<1> DEFINE out == StageAttachments(in.list, in.gateway)
<1>3. PICK list, gateway : list = in.list /\ gateway = in.gateway
    OBVIOUS
<1>4. /\ Total(out) <= MaxTotal /\ DOMAIN out = 1..n
      /\ \A k \in 1..n :
           /\ out[k].status = "staged" => out[k].path /\ out[k].size = list[k].size
           /\ out[k].path => list[k].size <= MaxAttachment
           /\ ~ out[k].path => GatewayStage(list[k], gateway) = "failed"
           /\ out[k].path /\ out[k].status # "staged" => Total(SubSeq(list, 1, k)) > MaxTotal
  <2>1. PICK o : o = out
      OBVIOUS
  <2>2. o = StageAttachments(list, gateway)
      BY <1>3, <2>1
  <2>3. QED BY <1>2, <1>3, <2>1, <2>2, StageLimits, LimitsAssumption
<1>5. /\ Total(out) <= MaxTotal
      /\ \A k \in DOMAIN out :
           /\ out[k].status = "staged" => out[k].path /\ out[k].size = in.list[k].size
           /\ out[k].path => in.list[k].size <= MaxAttachment
           /\ ~ out[k].path => GatewayStage(in.list[k], in.gateway) = "failed"
           /\ out[k].path /\ ~ (out[k].status = "staged") =>
                Total(SubSeq(in.list, 1, k)) > MaxTotal
  <2> HIDE DEF out
  <2>1. QED BY <1>3, <1>4
<1>6. QED BY <1>5, Zenon DEF StagedWithinLimits, Total

\* StagedWithinLimits of every list the model makes.
THEOREM StagedTheorem == FunctionsSpec => []StagedWithinLimits
<1>1. FunctionsInit => StageInput
    BY DEF FunctionsInit, StageInput
<1>2. StageInput /\ [FunctionsNext]_inputs => StageInput'
    BY StageStep
<1>3. StageInput => StagedWithinLimits
    BY StagedInput
<1>4. QED BY <1>1, <1>2, <1>3, PTL DEF FunctionsSpec

\* The bounds of a question and of an entry.
TimesInput ==
    part = "times" =>
    \E from, to \in Dates, point, start, end \in Times :
        /\ point # None => start = None /\ end = None
        /\ in = [from |-> from, to |-> to, entry |-> [point |-> point, start |-> start, end |-> end]]

\* Only ChooseTimes makes such an input.
LEMMA TimesStep == TimesInput /\ [FunctionsNext]_inputs => TimesInput'
<1>1. ASSUME ChooseTimes PROVE TimesInput'
    BY <1>1 DEF ChooseTimes, Choose, TimesInput
<1>2. ASSUME TimesInput, UNCHANGED inputs PROVE TimesInput'
    BY <1>2 DEF inputs, TimesInput
<1>3. ASSUME FunctionsNext PROVE TimesInput'
    BY <1>1, <1>3, OnlyItsAction DEF TimesInput
<1>4. QED BY <1>2, <1>3

\* The day of a text: its date comes before every timestamp of it.
LEMMA DayOrder ==
    ASSUME NEW t \in Nat, NEW d \in Nat
    PROVE  /\ t >= Date(d) <=> Day(t) >= d
           /\ t <= Date(d) <=> Day(t) < d \/ t = Date(d)
           /\ Day(Date(d)) = d
BY DEF Date, Day

\* Where a question of dates finds an entry, of any texts and any days.
AnyDate(a) == a = None \/ \E d \in Nat : a = Date(d)
DaysMeet(a, b, first, last) ==
    /\ a # None /\ last # None => Day(last) >= Day(a)
    /\ b # None /\ first # None => Day(first) < Day(b) \/ first = b

\* _time_overlaps: a question of dates finds an entry just if it ends on the first
\* day or later and begins before the last day, or with its very date.
LEMMA RangesMeet ==
    ASSUME NEW a, NEW b, AnyDate(a), AnyDate(b), NEW e,
           \A x \in {e.point, e.start, e.end} : x = None \/ x \in Nat,
           e.point # None => e.start = None /\ e.end = None
    PROVE  Memory!TimeOverlaps(a, b, e) =
             DaysMeet(a, b, IF e.point # None THEN e.point ELSE e.start,
                            IF e.point # None THEN e.point ELSE e.end)
<1>1. \A t \in Nat : t # None
    BY MarksAssumption
<1>2. ASSUME NEW t, t = None \/ t \in Nat
      PROVE  /\ (a = None \/ t = None \/ t >= a) <=> (a # None /\ t # None => Day(t) >= Day(a))
             /\ (b = None \/ t = None \/ t <= b) <=> (b # None /\ t # None => Day(t) < Day(b) \/ t = b)
  <2>1. (a = None \/ t = None \/ t >= a) <=> (a # None /\ t # None => Day(t) >= Day(a))
    <3>1. CASE a = None \/ t = None
        BY <3>1
    <3>2. CASE a # None /\ t # None
      <4>1. PICK d \in Nat : a = Date(d)
          BY <3>2 DEF AnyDate
      <4>2. QED BY <1>2, <3>2, <4>1, DayOrder
    <3>3. QED BY <3>1, <3>2
  <2>2. (b = None \/ t = None \/ t <= b) <=> (b # None /\ t # None => Day(t) < Day(b) \/ t = b)
    <3>1. CASE b = None \/ t = None
        BY <3>1
    <3>2. CASE b # None /\ t # None
      <4>1. PICK d \in Nat : b = Date(d)
          BY <3>2 DEF AnyDate
      <4>2. QED BY <1>2, <3>2, <4>1, DayOrder
    <3>3. QED BY <3>1, <3>2
  <2>3. QED BY <2>1, <2>2
<1>3. PICK p, c, d : p = e.point /\ c = e.start /\ d = e.end
    OBVIOUS
<1>4. (p = None \/ p \in Nat) /\ (c = None \/ c \in Nat) /\ (d = None \/ d \in Nat)
    BY <1>3
<1>5. Memory!TimeOverlaps(a, b, e) =
        (\/ a = None /\ b = None
         \/ p # None /\ (a = None \/ p >= a) /\ (b = None \/ p <= b)
         \/ p = None /\ (b = None \/ c = None \/ c <= b) /\ (a = None \/ d = None \/ d >= a))
    BY <1>3 DEF Memory!TimeOverlaps
<1>6. DEFINE Extends(t) == a = None \/ t = None \/ t >= a
             Begins(t)  == b = None \/ t = None \/ t <= b
<1>7. \A t : t = None \/ t \in Nat =>
        /\ Extends(t) <=> (a # None /\ t # None => Day(t) >= Day(a))
        /\ Begins(t) <=> (b # None /\ t # None => Day(t) < Day(b) \/ t = b)
    BY <1>2
<1>8. CASE p # None
  <2>1. Memory!TimeOverlaps(a, b, e) = (Extends(p) /\ Begins(p))
      BY <1>5, <1>8
  <2>2. QED BY <1>3, <1>4, <1>7, <1>8, <2>1 DEF DaysMeet
<1>9. CASE p = None
  <2>1. Memory!TimeOverlaps(a, b, e) = (Extends(d) /\ Begins(c))
      BY <1>5, <1>9
  <2>2. QED BY <1>3, <1>4, <1>7, <1>9, <2>1 DEF DaysMeet
<1>10. QED BY <1>8, <1>9

\* Such a question finds what TimesMeet says.
LEMMA TimesInputMeets == ASSUME TimesInput PROVE TimesMeet
<1>1. SUFFICES ASSUME part = "times" PROVE TimesMeet
    BY DEF TimesMeet
<1>2. PICK a, b \in Dates, p, c, d \in Times :
        /\ p # None => c = None /\ d = None
        /\ in = [from |-> a, to |-> b, entry |-> [point |-> p, start |-> c, end |-> d]]
    BY <1>1, Zenon DEF TimesInput
<1>3. PICK e : e = [point |-> p, start |-> c, end |-> d]
    OBVIOUS
<1>4. in.from = a /\ in.to = b /\ in.entry = e /\ e.point = p /\ e.start = c /\ e.end = d
    BY <1>2, <1>3
<1>5. AnyDate(a) /\ AnyDate(b)
    BY DEF Dates, Days, AnyDate
<1>6. \A x \in Times : x = None \/ x \in Nat
    BY DEF Times, Dates, Days, Date, Stamp
<1>7. Memory!TimeOverlaps(a, b, e) =
        DaysMeet(a, b, IF e.point # None THEN e.point ELSE e.start,
                       IF e.point # None THEN e.point ELSE e.end)
  <2>1. \A x \in {e.point, e.start, e.end} : x = None \/ x \in Nat
      BY <1>2, <1>4, <1>6
  <2>2. e.point # None => e.start = None /\ e.end = None
      BY <1>2, <1>4
  <2>3. QED BY <1>5, <2>1, <2>2, RangesMeet
<1>8. QED BY <1>4, <1>7 DEF TimesMeet, DaysMeet

\* TimesMeet of every question and entry the model makes.
THEOREM TimesTheorem == FunctionsSpec => []TimesMeet
<1>1. FunctionsInit => TimesInput
    BY DEF FunctionsInit, TimesInput
<1>2. TimesInput /\ [FunctionsNext]_inputs => TimesInput'
    BY TimesStep
<1>3. TimesInput => TimesMeet
    BY TimesInputMeets
<1>4. QED BY <1>1, <1>2, <1>3, PTL DEF FunctionsSpec

-----------------------------------------------------------------------------
\* The decision about a message of a group.

\* No value computed here is one of the marks.
LEMMA MarksApart ==
    /\ \A x \in ParsedCases : x # None /\ x # Raised
    /\ \A x \in ParsedDomains : x # None /\ x # Raised
    /\ \A x \in Resolutions : x # Raised
    /\ \A x \in Computers : x # None
    /\ \A m \in Modes : m # Raised /\ Admits(m) # None
    /\ None # Raised /\ Missing # Raised /\ GroupComputer # None /\ TRUE # None
    /\ \A x \in CaseSpecs : x # None /\ ParseMatchSpec(x) # None /\ ParseMatchSpec(x) # Raised
<1>1. \A x \in ParsedCases : x # None /\ x # Raised
    BY MarksAssumption, Zenon
<1>2. \A x \in ParsedDomains : x # None /\ x # Raised
    BY MarksAssumption, Zenon
<1>3. (\A x \in Resolutions : x # Raised) /\ \A x \in Computers : x # None
    BY MarksAssumption, Zenon
<1>4. \A m \in Modes : m # Raised
    BY MarksAssumption, Zenon
<1>5. \A m \in Modes : Admits(m) # None
    BY MarksAssumption, Zenon
<1>6. None # Raised /\ Missing # Raised /\ GroupComputer # None
    BY MarksAssumption, Zenon
<1>7. TRUE # None
  <2>1. TRUE \in BOOLEAN
      OBVIOUS
  <2>2. None \notin BOOLEAN
      BY MarksAssumption, Zenon
  <2>3. QED BY <2>1, <2>2, Zenon
<1>8. \A x \in CaseSpecs : x # None /\ ParseMatchSpec(x) # None /\ ParseMatchSpec(x) # Raised
    BY MarksAssumption, Zenon
<1>9. QED BY <1>1, <1>2, <1>3, <1>4, <1>5, <1>6, <1>7, <1>8, Zenon

\* A resolution is none of the marks.
LEMMA ResolutionApart ==
    ASSUME NEW p \in Payloads \cup {NoKeys}, NEW i \in CaseIds, NEW q \in Nat, NEW s \in Nat, NEW r,
           r = [payload |-> p, case_id |-> i, priority |-> q, specificity |-> s]
    PROVE  r # Raised /\ r.payload = p
<1>1. r \in Resolutions
    BY DEF Resolutions
<1>2. r # Raised
    BY <1>1, MarksApart, Zenon
<1>3. QED BY <1>2

\* An unnamed case has an id of the input.
LEMMA EmptyId == "" \in CaseIds
BY Zenon DEF CaseIds

\* The first candidate that the session has is the surface of an event.
LEMMA FirstHit ==
    ASSUME NEW known, NEW session, NEW n \in Nat, NEW chain, chain = SurfaceCandidates(known),
           DOMAIN chain = 1..n, NEW i \in 1..n, chain[i] \in DOMAIN session.surfaces,
           \A j \in 1..n : j < i => chain[j] \notin DOMAIN session.surfaces
    PROVE  ResolveSurface(known, session).surface_id = chain[i]
<1>1. PICK hits : hits = {j \in DOMAIN chain : chain[j] \in DOMAIN session.surfaces}
    OBVIOUS
<1>2. i \in hits /\ \A j \in hits : j \in Nat /\ i <= j
    BY <1>1
<1>3. Min(hits) = i
  <2>1. Min(hits) \in hits /\ \A j \in hits : Min(hits) <= j
      BY <1>2 DEF Min
  <2>2. PICK m : m = Min(hits)
      OBVIOUS
  <2>3. m \in Nat /\ i \in Nat /\ i <= m /\ m <= i
      BY <1>2, <2>1, <2>2
  <2>4. QED BY <2>2, <2>3
<1>4. hits # {}
    BY <1>2
<1>5. QED BY <1>1, <1>3, <1>4 DEF ResolveSurface

\* Which of the first two candidates is the surface.
LEMMA FirstHits ==
    ASSUME NEW known, NEW session, NEW chain, chain = SurfaceCandidates(known),
           DOMAIN chain \in {1..1, 1..2, 1..3}
    PROVE  /\ chain[1] \in DOMAIN session.surfaces => ResolveSurface(known, session).surface_id = chain[1]
           /\ /\ chain[1] \notin DOMAIN session.surfaces
              /\ 2 \in DOMAIN chain /\ chain[2] \in DOMAIN session.surfaces
              => ResolveSurface(known, session).surface_id = chain[2]
<1>1. \E n \in 1..3 : DOMAIN chain = 1..n
  <2>1. CASE DOMAIN chain = 1..1
      BY <2>1
  <2>2. CASE DOMAIN chain = 1..2
      BY <2>2
  <2>3. CASE DOMAIN chain = 1..3
      BY <2>3
  <2>4. QED BY <2>1, <2>2, <2>3, Zenon
<1>0. PICK n \in Nat : DOMAIN chain = 1..n
  <2>1. \A n \in 1..3 : n \in Nat
      OBVIOUS
  <2>2. QED BY <1>1, <2>1, Zenon
<1>2. ASSUME chain[1] \in DOMAIN session.surfaces PROVE ResolveSurface(known, session).surface_id = chain[1]
  <2>1. PICK i \in 1..n : i = 1
      BY <1>0
  <2>2. chain[i] \in DOMAIN session.surfaces /\ \A j \in 1..n : j < i => chain[j] \notin DOMAIN session.surfaces
      BY <1>2, <2>1
  <2>3. ResolveSurface(known, session).surface_id = chain[i]
      BY <1>0, <2>2, FirstHit
  <2>4. QED BY <2>1, <2>3
<1>3. ASSUME chain[1] \notin DOMAIN session.surfaces, 2 \in DOMAIN chain, chain[2] \in DOMAIN session.surfaces
      PROVE  ResolveSurface(known, session).surface_id = chain[2]
  <2>1. PICK i \in 1..n : i = 2
      BY <1>0, <1>3
  <2>2. chain[i] \in DOMAIN session.surfaces /\ \A j \in 1..n : j < i => chain[j] \notin DOMAIN session.surfaces
      BY <1>3, <2>1
  <2>3. ResolveSurface(known, session).surface_id = chain[i]
      BY <1>0, <2>2, FirstHit
  <2>4. QED BY <2>1, <2>3
<1>4. QED BY <1>2, <1>3

\* A domain without cases says what its default says.
LEMMA ModeResolved ==
    ASSUME NEW m \in Modes, NEW selectors, NEW known, NEW r,
           r = ResolveDomain([default |-> [mode |-> m], cases |-> <<>>], selectors, known)
    PROVE  r # Raised /\ r.payload = [mode |-> m]
<1>1. PICK domain : domain = [default |-> [mode |-> m], cases |-> <<>>]
    OBVIOUS
<1>2. [mode |-> m] \in Payloads
    BY DEF Payloads
<1>3. domain # None
  <2>1. domain \in ParsedDomains
      BY <1>1, <1>2 DEF ParsedDomains
  <2>2. QED BY <2>1, MarksApart
<1>4. BestCase(<<>>, selectors, known) = None
  <2>1. Found(BestCase(<<>>, selectors, known), <<>>, selectors, known, 0)
      BY MarksApart, BestCaseFound
  <2>2. HitsOf(<<>>, selectors, known, 0) = {}
      BY DEF HitsOf
  <2>3. QED BY <2>1, <2>2 DEF Found
<1>5. r = [payload |-> [mode |-> m], case_id |-> "", priority |-> 100, specificity |-> 0]
    BY <1>1, <1>3, <1>4, MarksApart DEF ResolveDomain
<1>6. PICK p, i : p = [mode |-> m] /\ i = ""
    OBVIOUS
<1>7. p \in Payloads \cup {NoKeys} /\ i \in CaseIds
    BY <1>2, <1>6, EmptyId
<1>8. r = [payload |-> p, case_id |-> i, priority |-> 100, specificity |-> 0]
    BY <1>5, <1>6
<1>9. r # Raised /\ r.payload = p
    BY <1>7, <1>8, ResolutionApart
<1>10. QED BY <1>6, <1>9

\* The default computer of a group: the host is for its admins.
AdminCase == [case_id |-> "bot_admin_host", when |-> ParseMatchSpec([is_bot_admin |-> TRUE]),
              when_ref |-> "", use |-> GroupComputer.cases[1].use, priority |-> 100]

\* The default computer of a group is the host for an admin and docker for others.
LEMMA HostResolved ==
    ASSUME NEW selectors, NEW known, known.is_bot_admin \in BOOLEAN, NEW r,
           r = ResolveDomain([default |-> GroupComputer.default, cases |-> <<AdminCase>>], selectors, known)
    PROVE  /\ r # Raised /\ r.payload \in Payloads /\ DOMAIN r.payload = DOMAIN GroupComputer.default
           /\ r.payload.backend = IF known.is_bot_admin THEN "host" ELSE "docker"
<1>1. PICK w : w = ParseMatchSpec([is_bot_admin |-> TRUE])
    OBVIOUS
<1>2. w \notin {None, Raised} /\ [is_bot_admin |-> TRUE] \in CaseSpecs
    BY <1>1, MarksApart DEF CaseSpecs
<1>3. w = [k \in {"is_bot_admin"} |-> TRUE]
  <2>1. TRUE # None
      BY MarksApart
  <2>2. PICK raw : raw = [is_bot_admin |-> TRUE]
      OBVIOUS
  <2>3. DOMAIN raw = {"is_bot_admin"} /\ raw["is_bot_admin"] = TRUE
      BY <2>2
  <2>4. {j \in DOMAIN raw : CASE j \in ListKeys -> raw[j] # {}
                               [] j \in FlagKeys \cup IdKeys -> raw[j] # None
                               [] OTHER -> raw[j] # None /\ raw[j] # ""} = {"is_bot_admin"}
    <3>1. "is_bot_admin" \notin ListKeys /\ "is_bot_admin" \in FlagKeys \cup IdKeys
        BY DEF ListKeys, FlagKeys, IdKeys
    <3>2. QED BY <2>1, <2>3, <3>1
  <2>5. w = [k \in {"is_bot_admin"} |-> raw[k]]
      BY <1>1, <2>2, <2>4 DEF ParseMatchSpec
  <2>6. QED BY <2>3, <2>5
<1>4. PICK c : c = AdminCase
    OBVIOUS
<1>5. c \in ParsedCases
  <2>1. c.use \in Payloads
      BY <1>4 DEF AdminCase, GroupComputer, Payloads
  <2>2. c.when \in {None} \cup {ParseMatchSpec(x) : x \in CaseSpecs}
      BY <1>1, <1>2, <1>4 DEF AdminCase
  <2>3. QED BY <1>4, <2>1, <2>2 DEF AdminCase, ParsedCases, CaseIds
<1>6. CaseSpec(c, selectors) = w
    BY <1>1, <1>2, <1>4 DEF CaseSpec, AdminCase
<1>7. Matches(w, known) <=> known.is_bot_admin = TRUE
    BY <1>3 DEF Matches, ListKeys
<1>8. Specificity(w) \in Int
  <2>1. DOMAIN w = {} \cup {"is_bot_admin"}
      BY <1>3
  <2>2. QED BY <2>1, FS_EmptySet, FS_AddElement, FS_CardinalityType DEF Specificity
<1>9. PICK cs, best : cs = <<c>> /\ best = BestCase(cs, selectors, known)
    OBVIOUS
<1>10. best = IF known.is_bot_admin THEN c ELSE None
  <2>1. Found(best, cs, selectors, known, 1)
    <3>1. Len(cs) = 1 /\ \A i \in 1..1 : cs[i] = c
        BY <1>9
    <3>2. c \notin {None, Raised} /\ c.priority \in Int
      <4>1. c.priority = 100
          BY <1>4 DEF AdminCase
      <4>2. c # None /\ c # Raised
          BY <1>5, MarksApart, Zenon
      <4>3. QED BY <4>1, <4>2
    <3>3. QED BY <1>2, <1>6, <1>8, <1>9, <3>1, <3>2, MarksApart, BestCaseFound
  <2>2. HitsOf(cs, selectors, known, 1) = IF known.is_bot_admin THEN {1} ELSE {}
    <3>1. \A i \in 1..1 : cs[i] = c
        BY <1>9
    <3>2. QED BY <1>6, <1>7, <3>1 DEF HitsOf
  <2>3. QED BY <1>9, <2>1, <2>2 DEF Found
<1>11. PICK domain : domain = [default |-> GroupComputer.default, cases |-> cs]
    OBVIOUS
<1>12. GroupComputer.default \in Payloads
    BY DEF GroupComputer, Payloads
<1>13. domain # None
  <2>1. cs \in Seq(ParsedCases)
      BY <1>5, <1>9
  <2>2. domain \in ParsedDomains
      BY <1>11, <1>12, <2>1 DEF ParsedDomains
  <2>3. QED BY <2>2, MarksApart
<1>14. r = ResolveDomain(domain, selectors, known)
    BY <1>4, <1>9, <1>11
<1>15. best # Raised
    BY <1>5, <1>10, MarksApart
<1>16. CASE known.is_bot_admin
  <2>1. PICK p : p = Overlay(GroupComputer.default, c.use)
      OBVIOUS
  <2>2. p = [backend |-> "host", allow_exec |-> TRUE, allow_sessions |-> TRUE]
      BY <1>4, <2>1 DEF Overlay, AdminCase, GroupComputer
  <2>3. best = c /\ c # None
      BY <1>5, <1>10, <1>16, MarksApart
  <2>4. r = [payload |-> p, case_id |-> c.case_id, priority |-> c.priority, specificity |-> Specificity(w)]
      BY <1>6, <1>9, <1>11, <1>13, <1>14, <1>15, <2>1, <2>3 DEF ResolveDomain
  <2>5. p \in Payloads /\ DOMAIN p = DOMAIN GroupComputer.default
      BY <2>2 DEF Payloads, GroupComputer
  <2>6. c.case_id \in CaseIds /\ c.priority \in Nat /\ Specificity(w) \in Nat
    <3>1. IsFiniteSet(DOMAIN w)
      <4>1. DOMAIN w = {} \cup {"is_bot_admin"}
          BY <1>3
      <4>2. QED BY <4>1, FS_EmptySet, FS_AddElement
    <3>2. QED BY <1>4, <3>1, FS_CardinalityType DEF AdminCase, CaseIds, Specificity
  <2>7. r # Raised /\ r.payload = p
      BY <2>4, <2>5, <2>6, ResolutionApart
  <2>8. QED BY <1>16, <2>2, <2>5, <2>7
<1>17. CASE ~ known.is_bot_admin
  <2>1. r = [payload |-> GroupComputer.default, case_id |-> "", priority |-> 100, specificity |-> 0]
      BY <1>9, <1>10, <1>11, <1>13, <1>14, <1>15, <1>17 DEF ResolveDomain
  <2>2. PICK p, i : p = GroupComputer.default /\ i = ""
      OBVIOUS
  <2>3. r # Raised /\ r.payload = p
    <3>1. p \in Payloads \cup {NoKeys} /\ i \in CaseIds
        BY <1>12, <2>2, EmptyId
    <3>2. r = [payload |-> p, case_id |-> i, priority |-> 100, specificity |-> 0]
        BY <2>1, <2>2
    <3>3. QED BY <3>1, <3>2, ResolutionApart
  <2>4. p.backend = "docker"
      BY <2>2 DEF GroupComputer
  <2>5. QED BY <1>12, <1>17, <2>2, <2>3, <2>4
<1>18. QED BY <1>16, <1>17

\* A surface with an admission and, perhaps, the default computer of a group.
Admitting(surface, m) ==
    /\ {"admission"} \subseteq DOMAIN surface /\ DOMAIN surface \subseteq {"admission", "computer"}
    /\ surface["admission"] = Admits(m)
    /\ "computer" \in DOMAIN surface => surface["computer"] = GroupComputer
ParsedTo(config, surface, m) ==
    /\ config["admission"] = [default |-> [mode |-> m], cases |-> <<>>]
    /\ config["computer"] = IF "computer" \in DOMAIN surface
                            THEN [default |-> GroupComputer.default, cases |-> <<AdminCase>>] ELSE None
    /\ \A d \in Domains \ {"admission", "computer"} : config[d] = None
    /\ \A d \in Domains : config[d] # Raised

\* The loader reads such a surface as written.
LEMMA SurfaceParsed ==
    ASSUME NEW surface, NEW m \in Modes, Admitting(surface, m)
    PROVE  ParsedTo(ParseSurface(surface), surface, m)
<1>1. PICK config : config = ParseSurface(surface)
    OBVIOUS
<1>2. \A d \in Domains : config[d] = ParseDomain(surface, d)
    BY <1>1 DEF ParseSurface
<1>3. ASSUME NEW d \in Domains \ {"admission", "computer"} PROVE config[d] = None
    BY <1>2 DEF Admitting, ParseDomain, Get
<1>4. config["admission"] = [default |-> [mode |-> m], cases |-> <<>>]
  <2>1. PICK raw : raw = Admits(m)
      OBVIOUS
  <2>2. raw # None
      BY <2>1, MarksApart
  <2>3. Get(surface, "admission", None) = raw
      BY <2>1 DEF Admitting, Get
  <2>4. DOMAIN raw = {"default"} /\ raw.default = [mode |-> m]
      BY <2>1 DEF Admits
  <2>5. Get(raw, "default", NoKeys) = [mode |-> m] /\ Get(raw, "cases", <<>>) = <<>>
      BY <2>4 DEF Get
  <2>6. ParseDomain(surface, "admission") =
            [default |-> [mode |-> m], cases |-> [i \in 1..Len(<<>>) |-> ParseCase(<<>>[i])]]
      BY <2>2, <2>3, <2>5 DEF ParseDomain
  <2>7. [i \in 1..Len(<<>>) |-> ParseCase(<<>>[i])] = <<>>
      OBVIOUS
  <2>8. QED BY <1>2, <2>6, <2>7 DEF Domains
<1>5. ASSUME "computer" \in DOMAIN surface
      PROVE  /\ config["computer"] = [default |-> GroupComputer.default, cases |-> <<AdminCase>>]
             /\ config["computer"] # Raised
  <2>1. PICK raw : raw = GroupComputer
      OBVIOUS
  <2>2. raw # None
      BY <2>1, MarksApart
  <2>3. Get(surface, "computer", None) = raw
      BY <1>5, <2>1 DEF Admitting, Get
  <2>4. PICK cs : cs = GroupComputer.cases
      OBVIOUS
  <2>5. Get(raw, "default", NoKeys) = GroupComputer.default /\ Get(raw, "cases", <<>>) = cs
      BY <2>1, <2>4 DEF Get, GroupComputer
  <2>6. ParseDomain(surface, "computer") =
            [default |-> GroupComputer.default, cases |-> [i \in 1..Len(cs) |-> ParseCase(cs[i])]]
      BY <2>2, <2>3, <2>5 DEF ParseDomain
  <2>7. ParseCase(cs[1]) = AdminCase
    <3>1. PICK c : c = cs[1]
        OBVIOUS
    <3>2. c = [case_id |-> "bot_admin_host", when |-> [is_bot_admin |-> TRUE],
               use |-> GroupComputer.cases[1].use]
        BY <2>4, <3>1 DEF GroupComputer
    <3>3. c.when # None
        BY <3>2, MarksApart DEF CaseSpecs
    <3>4. PICK u : u = c.use
        OBVIOUS
    <3>5. DOMAIN c = {"case_id", "when", "use"} /\ c["case_id"] = "bot_admin_host" /\ c["use"] = u
          /\ c["when"] = [is_bot_admin |-> TRUE] /\ u = GroupComputer.cases[1].use
        BY <3>2, <3>4
    <3>6. /\ Get(c, "case_id", "") = "bot_admin_host" /\ Get(c, "when", None) # None
          /\ Get(c, "when_ref", "") = "" /\ Get(c, "use", NoKeys) = u /\ Get(c, "priority", 100) = 100
        BY <3>3, <3>5 DEF Get
    <3>7. QED BY <3>1, <3>5, <3>6 DEF ParseCase, AdminCase
  <2>8. Len(cs) = 1
      BY <2>4 DEF GroupComputer
  <2>9. [i \in 1..Len(cs) |-> ParseCase(cs[i])] = <<AdminCase>>
      BY <2>7, <2>8
  <2>10. config["computer"] = [default |-> GroupComputer.default, cases |-> <<AdminCase>>]
      BY <1>2, <2>6, <2>9 DEF Domains
  <2>11. config["computer"] \in ParsedDomains
    <3>1. GroupComputer.default \in Payloads /\ GroupComputer.cases[1].use \in Payloads
        BY DEF GroupComputer, Payloads
    <3>2. AdminCase \in ParsedCases
        BY <3>1 DEF AdminCase, ParsedCases, CaseIds, CaseSpecs
    <3>3. QED BY <2>10, <3>1, <3>2 DEF ParsedDomains
  <2>12. config["computer"] # Raised
      BY <2>11, MarksApart, Zenon
  <2>13. QED BY <2>10, <2>12
<1>6. ASSUME "computer" \notin DOMAIN surface PROVE config["computer"] = None
    BY <1>2, <1>6 DEF ParseDomain, Get, Domains
<1>7. config["admission"] \in ParsedDomains
    BY <1>4 DEF ParsedDomains, Payloads
<1>8. \A d \in Domains : config[d] # Raised
  <2>1. config["admission"] # Raised
      BY <1>7, MarksApart, Zenon
  <2>2. config["computer"] # Raised
      BY <1>5, <1>6, MarksApart
  <2>3. QED BY <1>3, <2>1, <2>2, MarksApart
<1>9. QED BY <1>1, <1>3, <1>4, <1>5, <1>6, <1>8 DEF ParsedTo

\* The decision about an event whose surface is configured like that.
THEOREM Routes ==
    ASSUME NEW e, NEW files, NEW admins, NEW known, known = EventFacts(e, admins),
           NEW session, session = LoadSession(files, known.channel_scope),
           session # Raised, session # Missing,
           NEW s, s = ResolveSurface(known, session).surface_id, s \in DOMAIN session.surfaces,
           NEW surface, session.surfaces[s] = ParseSurface(surface),
           NEW m \in Modes, Admitting(surface, m), known.is_bot_admin \in BOOLEAN,
           NEW d, d = Route(e, files, admins)
    PROVE  /\ d.run_mode = m /\ d.relation = BotRelation(e)
           /\ "computer" \in DOMAIN surface =>
                /\ d.computer # None
                /\ d.computer.backend = IF known.is_bot_admin THEN "host" ELSE "docker"
<1>1. PICK place, config : place = ResolveSurface(known, session) /\ config = SurfaceConfig(session, place)
    OBVIOUS
<1>2. ParsedTo(config, surface, m)
  <2>1. config = ParseSurface(surface)
      BY <1>1 DEF SurfaceConfig, Get
  <2>2. QED BY <2>1, SurfaceParsed
<1>3. PICK res : res = [k \in Domains |-> ResolveDomain(config[k], session.selectors, known)]
    OBVIOUS
<1>4. res["admission"] # Raised /\ res["admission"].payload = [mode |-> m]
  <2>1. res["admission"] = ResolveDomain([default |-> [mode |-> m], cases |-> <<>>], session.selectors, known)
      BY <1>2, <1>3 DEF ParsedTo, Domains
  <2>2. QED BY <2>1, ModeResolved
<1>5. ASSUME NEW k \in Domains, config[k] = None PROVE res[k] # Raised
  <2>1. res[k] = [payload |-> NoKeys, case_id |-> "", priority |-> 100, specificity |-> 0]
      BY <1>3, <1>5 DEF ResolveDomain
  <2>2. PICK p, i : p = NoKeys /\ i = ""
      OBVIOUS
  <2>3. p \in Payloads \cup {NoKeys} /\ i \in CaseIds
      BY <2>2, EmptyId
  <2>4. res[k] = [payload |-> p, case_id |-> i, priority |-> 100, specificity |-> 0]
      BY <2>1, <2>2
  <2>5. QED BY <2>3, <2>4, ResolutionApart
<1>6. ASSUME "computer" \in DOMAIN surface
      PROVE  /\ res["computer"] # Raised /\ res["computer"].payload \in Payloads
             /\ DOMAIN res["computer"].payload = DOMAIN GroupComputer.default
             /\ res["computer"].payload.backend = IF known.is_bot_admin THEN "host" ELSE "docker"
  <2>1. res["computer"] =
          ResolveDomain([default |-> GroupComputer.default, cases |-> <<AdminCase>>], session.selectors, known)
      BY <1>2, <1>3, <1>6 DEF ParsedTo, Domains
  <2>2. QED BY <2>1, HostResolved
<1>7. \A k \in Domains : res[k] # Raised
  <2>1. res["computer"] # Raised
    <3>1. CASE "computer" \in DOMAIN surface
        BY <1>6, <3>1
    <3>2. CASE "computer" \notin DOMAIN surface
        BY <1>2, <1>5, <3>2 DEF ParsedTo, Domains
    <3>3. QED BY <3>1, <3>2
  <2>2. QED BY <1>2, <1>4, <1>5, <2>1 DEF ParsedTo
<1>8. AdmissionOf(res["admission"].payload) = m
    BY <1>4 DEF AdmissionOf, Get
<1>9. m # Raised
    BY MarksApart
<1> DEFINE base == [thread_id |-> known.thread_id, actor_id |-> known.actor_id,
                    channel_scope |-> known.channel_scope,
                    relation |-> BotRelation(e), reasons |-> TargetReasons(e)]
           over == [agent_id |-> session.frontstage_agent_id,
                    run_mode |-> AdmissionOf(res["admission"].payload),
                    route_source |-> "session_config", surface |-> place,
                    routing |-> RoutingOf(res["routing"].payload, session),
                    context |-> ContextOf(res["context"].payload, known),
                    event_persist |-> PersistenceOf(res["persistence"].payload),
                    event_tags |-> ExtractionOf(res["extraction"].payload),
                    computer |-> ComputerOf(res["computer"].payload)]
<1>10. d = Overlay(base, over)
  <2> DEFINE res2 == [k \in Domains |-> ResolveDomain(SurfaceConfig(session, place)[k], session.selectors, known)]
  <2>1. res = res2
      BY <1>1, <1>3
  <2>2. (\A k \in Domains : res2[k] # Raised) /\ AdmissionOf(res2["admission"].payload) # Raised
      BY <1>7, <1>8, <1>9, <2>1
  <2>3. d = Overlay(base,
                [agent_id |-> session.frontstage_agent_id,
                 run_mode |-> AdmissionOf(res2["admission"].payload),
                 route_source |-> "session_config", surface |-> place,
                 routing |-> RoutingOf(res2["routing"].payload, session),
                 context |-> ContextOf(res2["context"].payload, known),
                 event_persist |-> PersistenceOf(res2["persistence"].payload),
                 event_tags |-> ExtractionOf(res2["extraction"].payload),
                 computer |-> ComputerOf(res2["computer"].payload)])
      BY <1>1, <2>2 DEF Route
  <2>4. QED BY <2>1, <2>3
<1>11. DOMAIN over = {"agent_id", "run_mode", "route_source", "surface", "routing", "context",
                      "event_persist", "event_tags", "computer"}
    OBVIOUS
<1>12. DOMAIN base = {"thread_id", "actor_id", "channel_scope", "relation", "reasons"}
    OBVIOUS
<1>13. over["run_mode"] = m /\ over["computer"] = ComputerOf(res["computer"].payload)
       /\ base["relation"] = BotRelation(e)
    BY <1>8
<1>14. /\ d["run_mode"] = m /\ d["computer"] = ComputerOf(res["computer"].payload)
       /\ d["relation"] = BotRelation(e)
  <2> HIDE DEF over, base
  <2>1. QED BY <1>10, <1>11, <1>12, <1>13 DEF Overlay
<1>15. ASSUME "computer" \in DOMAIN surface
       PROVE  /\ d["computer"] # None
              /\ d["computer"].backend = IF known.is_bot_admin THEN "host" ELSE "docker"
  <2>1. PICK p : p = res["computer"].payload
      OBVIOUS
  <2>2. /\ p \in Payloads /\ DOMAIN p = {"backend", "allow_exec", "allow_sessions"}
        /\ p.backend = IF known.is_bot_admin THEN "host" ELSE "docker"
    <3>1. DOMAIN GroupComputer.default = {"backend", "allow_exec", "allow_sessions"}
        BY DEF GroupComputer
    <3>2. QED BY <1>6, <1>15, <2>1, <3>1
  <2>3. p \in [backend : {"docker", "host"}, allow_exec : BOOLEAN, allow_sessions : BOOLEAN]
    <3>1. \A x \in [mode : Modes] : DOMAIN x = {"mode"}
        OBVIOUS
    <3>2. QED BY <2>2, <3>1 DEF Payloads
  <2>4. ComputerOf(p) = [actor_kind |-> "frontstage_agent", backend |-> p.backend,
                         allow_exec |-> p.allow_exec, allow_sessions |-> p.allow_sessions,
                         roots |-> DefaultRoots("frontstage_agent"), visible_skills |-> None,
                         visible_subagents |-> {}]
      BY <2>2 DEF ComputerOf, Get
  <2>5. ComputerOf(p) \in Computers
      BY <2>3, <2>4 DEF Computers
  <2>6. ComputerOf(p) # None
      BY <2>5, MarksApart, Zenon
  <2>7. QED BY <1>14, <2>1, <2>2, <2>4, <2>6
<1>16. QED BY <1>14, <1>15

\* The fields of a message that the decision needs.
LEMMA MessageFields ==
    ASSUME NEW raw, Text(raw, "post_type") = "message", TranslateMessage(raw, "bot") # None,
           NEW e, e = Translate(raw, "bot")
    PROVE  /\ e.event_type = "message" /\ e.mentions_self \in BOOLEAN /\ e.reply_targets_self \in BOOLEAN
           /\ e.source = EventSource(Text(raw, "message_type"), Text(raw, "user_id"), GroupIn(raw))
<1>1. PICK t : t = TranslateMessage(raw, "bot")
    OBVIOUS
<1>2. /\ t.event_type = "message" /\ t.mentions_self \in BOOLEAN /\ t.reply_targets_self \in BOOLEAN
      /\ t.source = EventSource(Text(raw, "message_type"), Text(raw, "user_id"), GroupIn(raw))
    BY <1>1 DEF TranslateMessage, Blank
<1>3. e = PostInit(t)
    BY <1>1 DEF Translate
<1>4. {"event_type", "mentions_self", "reply_targets_self", "source"} \subseteq DOMAIN t
    BY <1>1 DEF TranslateMessage, Blank
<1>5. QED BY <1>2, <1>3, <1>4 DEF PostInit

\* A raw object of a group or of a private chat.
ChatObject(kind, raw, given) ==
    raw = Overlay(given, InChat(kind)) /\ DOMAIN given \cap {"group_id"} = {}

\* The fields of a raw object: what is given, and the group of the chat.
LEMMA RawFields ==
    ASSUME NEW kind \in {"group", "private"}, NEW raw, NEW given, ChatObject(kind, raw, given)
    PROVE  /\ \A k \in DOMAIN given : k \in DOMAIN raw /\ raw[k] = given[k]
           /\ kind = "group" => "group_id" \in DOMAIN raw /\ raw["group_id"] = "g1"
           /\ \A k \in DOMAIN raw : k \in DOMAIN given \/ (k = "group_id" /\ kind = "group")
BY DEF ChatObject, Overlay, InChat, NoKeys

\* The events of the messages of the group.
LEMMA GroupMessages ==
    ASSUME NEW raw \in RawMessages("group", {"u1", "u2"}), NEW e, e = Translate(raw, "bot"),
           TranslateMessage(raw, "bot") # None
    PROVE  \E u \in {"u1", "u2"} :
             /\ e.event_type = "message" /\ e.mentions_self \in BOOLEAN /\ e.reply_targets_self \in BOOLEAN
             /\ e.source = EventSource("group", u, "g1")
<1>1. PICK u \in {"u1", "u2"}, segs \in Segments :
        raw = Overlay([post_type |-> "message", message_type |-> "group", user_id |-> u, message |-> segs,
                       role |-> "member"], InChat("group"))
    BY DEF RawMessages
<1>2. PICK given : given = [post_type |-> "message", message_type |-> "group", user_id |-> u,
                            message |-> segs, role |-> "member"]
    OBVIOUS
<1>3. ChatObject("group", raw, given)
    BY <1>1, <1>2 DEF ChatObject
<1>4. /\ Text(raw, "post_type") = "message" /\ Text(raw, "message_type") = "group"
      /\ Text(raw, "user_id") = u /\ GroupIn(raw) = "g1"
  <2>1. {"post_type", "message_type", "user_id"} \subseteq DOMAIN given
        /\ given["post_type"] = "message" /\ given["message_type"] = "group" /\ given["user_id"] = u
      BY <1>2
  <2>2. {"post_type", "message_type", "user_id", "group_id"} \subseteq DOMAIN raw /\ raw["post_type"] = "message"
        /\ raw["message_type"] = "group" /\ raw["user_id"] = u /\ raw["group_id"] = "g1"
      BY <1>3, <2>1, RawFields
  <2>3. QED BY <2>2 DEF Text, GroupIn
<1>5. QED BY <1>4, MessageFields

\* What EventFacts says of a message of a group.
LEMMA GroupFacts ==
    ASSUME NEW e, NEW u \in {"u1", "u2"}, e.event_type = "message", e.source = EventSource("group", u, "g1"),
           NEW admins, NEW known, known = EventFacts(e, admins)
    PROVE  /\ known.channel_scope = GroupId /\ known.event_kind = "message" /\ known.scene = "group"
           /\ known.mentions_self = e.mentions_self /\ known.reply_targets_self = e.reply_targets_self
           /\ known.is_bot_admin \in BOOLEAN
           /\ known.is_bot_admin <=> \E k \in {"user", "private"} : <<"qq", k, u>> \in admins
<1>1. e.source.message_type = "group" /\ e.source.user_id = u /\ e.source.group_id = "g1"
    BY DEF EventSource
<1>2. ActorId(e) = <<"qq", "user", u>> /\ ChannelScope(e) = GroupId /\ Scene(e) = "group"
    BY <1>1 DEF ActorId, ChannelScope, Scene, IsMessage, IsGroup, Platform, GroupId
<1>3. IsSharedAdmin(admins, <<"qq", "user", u>>) <=> \E k \in {"user", "private"} : <<"qq", k, u>> \in admins
    BY DEF IsSharedAdmin
<1>4. IsSharedAdmin(admins, ActorId(e)) \in BOOLEAN
    BY DEF IsSharedAdmin
<1>5. QED BY <1>2, <1>3, <1>4 DEF EventFacts

\* The session of a group that is created with the default surfaces.
LEMMA GroupSession ==
    ASSUME NEW files, files = [s \in {GroupId} |-> GroupFile], NEW session, session = LoadSession(files, GroupId)
    PROVE  /\ session # Raised /\ session # Missing
           /\ session.surfaces = [s \in DOMAIN DefaultGroupSurfaces |-> ParseSurface(DefaultGroupSurfaces[s])]
<1>1. ValidSessionId(GroupId)
    BY DEF ValidSessionId, ValidPart, GroupId
<1>2. session = ParseSessionConfig(GroupFile, GroupId)
    BY <1>1 DEF LoadSession
<1>3. PICK raw : raw = GroupFile
    OBVIOUS
<1>4. DOMAIN raw = {"id", "agent_id", "template", "selectors", "surfaces"} /\ raw["id"] = GroupId
      /\ raw["agent_id"] = "agent" /\ raw["surfaces"] = DefaultGroupSurfaces
    BY <1>3 DEF GroupFile, SessionPayload, DefaultSurfaces
<1>5. ParsedSurfaces(raw) = [s \in DOMAIN DefaultGroupSurfaces |-> ParseSurface(DefaultGroupSurfaces[s])]
    BY <1>4 DEF ParsedSurfaces, Get
<1>6. \A s \in DOMAIN DefaultGroupSurfaces : \E m \in Modes : Admitting(DefaultGroupSurfaces[s], m)
  <2> SUFFICES ASSUME NEW s \in DOMAIN DefaultGroupSurfaces
               PROVE  \E m \in Modes : Admitting(DefaultGroupSurfaces[s], m)
      OBVIOUS
  <2>1. PICK m : m = IF s[2] = "plain" THEN "record_only" ELSE "respond"
      OBVIOUS
  <2>2. DefaultGroupSurfaces[s] = [admission |-> Admits(m), computer |-> GroupComputer]
      BY <2>1 DEF DefaultGroupSurfaces
  <2>3. m \in Modes
      BY <2>1 DEF Modes
  <2>4. QED BY <2>2, <2>3 DEF Admitting
<1>7. \A s \in DOMAIN DefaultGroupSurfaces, d \in Domains : ParsedSurfaces(raw)[s][d] # Raised
  <2> SUFFICES ASSUME NEW s \in DOMAIN DefaultGroupSurfaces, NEW k \in Domains
               PROVE  ParsedSurfaces(raw)[s][k] # Raised
      OBVIOUS
  <2>1. PICK m \in Modes : Admitting(DefaultGroupSurfaces[s], m)
      BY <1>6
  <2>2. ParsedTo(ParseSurface(DefaultGroupSurfaces[s]), DefaultGroupSurfaces[s], m)
      BY <2>1, SurfaceParsed
  <2>3. QED BY <1>5, <2>2 DEF ParsedTo
<1>8. Get(raw, "agent_id", "") = "agent" /\ Get(raw, "id", GroupId) = GroupId
    BY <1>4 DEF Get
<1>9. session = SessionOf(raw, GroupId)
    BY <1>2, <1>3, <1>5, <1>7, <1>8 DEF ParseSessionConfig
<1>10. session # Raised /\ session # Missing
  <2>1. SessionOf(GroupFile, GroupId) \notin {Missing, Raised}
      BY MarksAssumption, Zenon
  <2>2. QED BY <1>3, <1>9, <2>1
<1>11. session.surfaces = ParsedSurfaces(raw)
  <2>1. SessionOf(raw, GroupId).surfaces = ParsedSurfaces(raw)
      BY DEF SessionOf
  <2>2. QED BY <1>9, <2>1
<1>12. QED BY <1>5, <1>10, <1>11

\* The surface of a message of a group.
LEMMA GroupSurface ==
    ASSUME NEW known, known.event_kind = "message", known.scene = "group",
           known.mentions_self \in BOOLEAN, known.reply_targets_self \in BOOLEAN,
           NEW session, DOMAIN session.surfaces = DOMAIN DefaultGroupSurfaces
    PROVE  ResolveSurface(known, session).surface_id =
             IF known.mentions_self THEN <<"message", "mention">>
             ELSE IF known.reply_targets_self THEN <<"message", "reply_to_bot">> ELSE <<"message", "plain">>
<1>1. DOMAIN session.surfaces =
        {<<"message", "mention">>, <<"message", "reply_to_bot">>, <<"message", "plain">>}
    BY DEF DefaultGroupSurfaces
<1>2. PICK chain : chain = SurfaceCandidates(known)
    OBVIOUS
<1>3. CASE known.mentions_self
  <2>1. chain = <<<<"message", "mention">>, <<"message", "plain">>>>
      BY <1>2, <1>3 DEF SurfaceCandidates
  <2>2. DOMAIN chain = 1..2 /\ chain[1] = <<"message", "mention">>
      BY <2>1
  <2>3. ResolveSurface(known, session).surface_id = chain[1]
      BY <1>1, <1>2, <2>2, FirstHits
  <2>4. QED BY <1>3, <2>2, <2>3
<1>4. CASE ~ known.mentions_self /\ known.reply_targets_self
  <2>1. chain = <<<<"message", "reply_to_bot">>, <<"message", "plain">>>>
      BY <1>2, <1>4 DEF SurfaceCandidates
  <2>2. DOMAIN chain = 1..2 /\ chain[1] = <<"message", "reply_to_bot">>
      BY <2>1
  <2>3. ResolveSurface(known, session).surface_id = chain[1]
      BY <1>1, <1>2, <2>2, FirstHits
  <2>4. QED BY <1>4, <2>2, <2>3
<1>5. CASE ~ known.mentions_self /\ ~ known.reply_targets_self /\ IsCommand(known.text)
  <2>1. chain = <<<<"message", "command">>, <<"message", "plain">>>>
      BY <1>2, <1>5 DEF SurfaceCandidates
  <2>2. DOMAIN chain = 1..2 /\ chain[1] = <<"message", "command">> /\ chain[2] = <<"message", "plain">>
      BY <2>1
  <2>3. chain[1] \notin DOMAIN session.surfaces /\ chain[2] \in DOMAIN session.surfaces
      BY <1>1, <2>2
  <2>4. ResolveSurface(known, session).surface_id = chain[2]
      BY <1>2, <2>2, <2>3, FirstHits
  <2>5. QED BY <1>5, <2>2, <2>4
<1>6. CASE ~ known.mentions_self /\ ~ known.reply_targets_self /\ ~ IsCommand(known.text)
  <2>1. chain = <<<<"message", "plain">>>>
      BY <1>2, <1>6 DEF SurfaceCandidates
  <2>2. DOMAIN chain = 1..1 /\ chain[1] = <<"message", "plain">>
      BY <2>1
  <2>3. ResolveSurface(known, session).surface_id = chain[1]
      BY <1>1, <1>2, <2>2, FirstHits
  <2>4. QED BY <1>6, <2>2, <2>3
<1>7. QED BY <1>3, <1>4, <1>5, <1>6

\* A message of a group and the admins of the bot.
GroupInput ==
    part = "group" => in.raw \in RawMessages("group", {"u1", "u2"}) /\ in.configured \in BOOLEAN

\* Only ChooseGroup makes such an input.
LEMMA GroupStep == GroupInput /\ [FunctionsNext]_inputs => GroupInput'
<1>1. ASSUME ChooseGroup PROVE GroupInput'
  <2>1. PICK raw \in RawMessages("group", {"u1", "u2"}), configured \in BOOLEAN,
             admins \in SUBSET {<<"qq", "user", "u1">>, <<"qq", "private", "u2">>, <<"qq", "group", "g1">>} :
           Choose("group", [raw |-> raw, admins |-> admins, configured |-> configured])
      BY <1>1, Zenon DEF ChooseGroup
  <2>2. in'.raw = raw /\ in'.configured = configured
      BY <2>1 DEF Choose
  <2>3. QED BY <2>2 DEF GroupInput
<1>2. ASSUME GroupInput, UNCHANGED inputs PROVE GroupInput'
    BY <1>2 DEF inputs, GroupInput
<1>3. ASSUME FunctionsNext PROVE GroupInput'
    BY <1>1, <1>3, OnlyItsAction DEF GroupInput
<1>4. QED BY <1>2, <1>3

\* The group decides as HostForAdmins says.
LEMMA GroupHost == ASSUME GroupInput PROVE HostForAdmins
<1>1. SUFFICES ASSUME part = "group" PROVE HostForAdmins
    BY DEF HostForAdmins
<1>2. PICK raw, configured, admins :
        /\ raw = in.raw /\ configured = in.configured /\ admins = in.admins
        /\ raw \in RawMessages("group", {"u1", "u2"}) /\ configured \in BOOLEAN
    BY <1>1 DEF GroupInput
<1>3. PICK e : e = Translate(raw, "bot")
    OBVIOUS
<1>4. PICK u \in {"u1", "u2"} :
        /\ e.event_type = "message" /\ e.mentions_self \in BOOLEAN /\ e.reply_targets_self \in BOOLEAN
        /\ e.source = EventSource("group", u, "g1")
  <2>1. TranslateMessage(raw, "bot") # None
      BY <1>2, MarksAssumption, Zenon
  <2>2. QED BY <1>2, <1>3, <2>1, GroupMessages
<1>5. PICK files, known, d : /\ files = IF configured THEN [s \in {GroupId} |-> GroupFile] ELSE NoKeys
                             /\ known = EventFacts(e, admins) /\ d = Route(e, files, admins)
    OBVIOUS
<1>6. /\ known.channel_scope = GroupId /\ known.event_kind = "message" /\ known.scene = "group"
      /\ known.mentions_self = e.mentions_self /\ known.reply_targets_self = e.reply_targets_self
      /\ known.is_bot_admin \in BOOLEAN
      /\ known.is_bot_admin <=> \E k \in {"user", "private"} : <<"qq", k, u>> \in admins
    BY <1>4, <1>5, GroupFacts
<1>7. CASE ~ configured
  <2>1. LoadSession(files, GroupId) = Missing
    <3>1. ValidSessionId(GroupId)
        BY DEF ValidSessionId, ValidPart, GroupId
    <3>2. DOMAIN files = {}
        BY <1>5, <1>7 DEF NoKeys
    <3>3. QED BY <3>1, <3>2 DEF LoadSession
  <2>2. d = Overlay([thread_id |-> known.thread_id, actor_id |-> known.actor_id,
                    channel_scope |-> known.channel_scope,
                    relation |-> BotRelation(e), reasons |-> TargetReasons(e)],
                   [agent_id |-> "", run_mode |-> "silent_drop", route_source |-> "unconfigured_session"])
      BY <1>5, <1>6, <2>1, MarksApart DEF Route
  <2>3. PICK over : over = [agent_id |-> "", run_mode |-> "silent_drop", route_source |-> "unconfigured_session"]
      OBVIOUS
  <2>4. "run_mode" \in DOMAIN over /\ over["run_mode"] = "silent_drop"
      BY <2>3
  <2>5. d["run_mode"] = "silent_drop"
      BY <2>2, <2>3, <2>4 DEF Overlay
  <2>6. in.configured = FALSE /\ d = Route(Translate(in.raw, "bot"), NoKeys, in.admins)
      BY <1>2, <1>3, <1>5, <1>7
  <2>7. QED BY <2>5, <2>6 DEF HostForAdmins
<1>8. CASE configured
  <2>1. PICK session : session = LoadSession(files, known.channel_scope)
      OBVIOUS
  <2>2. /\ session # Raised /\ session # Missing
        /\ session.surfaces = [s \in DOMAIN DefaultGroupSurfaces |-> ParseSurface(DefaultGroupSurfaces[s])]
    <3>1. files = [s \in {GroupId} |-> GroupFile] /\ session = LoadSession(files, GroupId)
        BY <1>5, <1>6, <1>8, <2>1
    <3>2. QED BY <3>1, GroupSession
  <2>3. PICK s : s = ResolveSurface(known, session).surface_id
      OBVIOUS
  <2>4. s = IF e.mentions_self THEN <<"message", "mention">>
            ELSE IF e.reply_targets_self THEN <<"message", "reply_to_bot">> ELSE <<"message", "plain">>
    <3>1. DOMAIN session.surfaces = DOMAIN DefaultGroupSurfaces
        BY <2>2
    <3>2. QED BY <1>4, <1>6, <2>3, <3>1, GroupSurface
  <2>5. PICK m : m = IF e.mentions_self \/ e.reply_targets_self THEN "respond" ELSE "record_only"
      OBVIOUS
  <2>6. PICK surface : surface = DefaultGroupSurfaces[s]
      OBVIOUS
  <2>7. s \in DOMAIN DefaultGroupSurfaces /\ surface = [admission |-> Admits(m), computer |-> GroupComputer]
      BY <1>4, <2>4, <2>5, <2>6 DEF DefaultGroupSurfaces
  <2>8. /\ m \in Modes /\ Admitting(surface, m) /\ s \in DOMAIN session.surfaces
        /\ session.surfaces[s] = ParseSurface(surface) /\ "computer" \in DOMAIN surface
    <3>1. m \in Modes
        BY <2>5 DEF Modes
    <3>2. Admitting(surface, m)
        BY <2>7 DEF Admitting
    <3>3. s \in DOMAIN session.surfaces /\ session.surfaces[s] = ParseSurface(surface)
        BY <2>2, <2>6, <2>7
    <3>4. QED BY <2>7, <3>1, <3>2, <3>3
  <2>9. /\ d.run_mode = m /\ d.relation = BotRelation(e) /\ d.computer # None
        /\ d.computer.backend = IF known.is_bot_admin THEN "host" ELSE "docker"
      BY <1>5, <1>6, <2>1, <2>2, <2>3, <2>8, Routes
  <2>10. d.relation \in {"mention_self", "reply_to_self"} <=> e.mentions_self \/ e.reply_targets_self
    <3>1. e.source.message_type = "group"
        BY <1>4 DEF EventSource
    <3>2. QED BY <1>4, <2>9, <3>1 DEF BotRelation, IsMessage, IsPrivate, IsGroup
  <2>11. EffectivePolicy(AgentPolicy("host", TRUE), d.computer).backend = d.computer.backend
    <3>1. PICK base : base = AgentPolicy("host", TRUE)
        OBVIOUS
    <3>2. "backend" \in DOMAIN base
        BY <3>1 DEF AgentPolicy
    <3>3. QED BY <2>9, <3>1, <3>2 DEF EffectivePolicy, AgentPolicy
  <2>12. e.source.user_id = u
      BY <1>4 DEF EventSource
  <2>13. /\ d.run_mode = IF d.relation \in {"mention_self", "reply_to_self"} THEN "respond" ELSE "record_only"
         /\ (EffectivePolicy(AgentPolicy("host", TRUE), d.computer).backend = "host") =
              \E k \in {"user", "private"} : <<"qq", k, e.source.user_id>> \in admins
      BY <1>6, <2>5, <2>9, <2>10, <2>11, <2>12
  <2>14. /\ in.configured = TRUE /\ e = Translate(in.raw, "bot") /\ admins = in.admins
         /\ d = Route(Translate(in.raw, "bot"), [t \in {GroupId} |-> GroupFile], in.admins)
      BY <1>2, <1>3, <1>5, <1>8
  <2>15. QED BY <2>13, <2>14, Zenon DEF HostForAdmins
<1>9. QED BY <1>7, <1>8

-----------------------------------------------------------------------------
\* The decision about an event that the console's form configures.

\* The public names of a template stand for surfaces, of two parts and none of
\* them a command's.
Templates == {"qq_group", "qq_private"}
Command == <<"message", "command">>

\* A public name stands for a surface of two parts that is not a command's.
LEMMA AliasShape ==
    ASSUME NEW t \in Templates, NEW y \in DOMAIN Aliases[t]
    PROVE  Len(Aliases[t][y]) = 2 /\ Aliases[t][y] # Command
<1>1. CASE t = "qq_group"
  <2>1. PICK a : a = Aliases[t]
      OBVIOUS
  <2>2. a = Aliases.qq_group
      BY <1>1, <2>1
  <2>3. y \in {"message", "message_mention", "message_reply", "poke", "recall", "member_join",
               "member_leave", "admin_change", "file_upload", "mute_change", "honor_change",
               "title_change", "lucky_king"}
      BY <2>1, <2>2 DEF Aliases
  <2>4. a[y] \in {<<"message", "plain">>, <<"message", "mention">>, <<"message", "reply_to_bot">>,
                  <<"notice", "notify">>, <<"notice", "group_recall">>, <<"notice", "group_increase">>,
                  <<"notice", "group_decrease">>, <<"notice", "group_admin">>, <<"notice", "group_upload">>,
                  <<"notice", "group_ban">>}
      BY <2>2, <2>3 DEF Aliases
  <2>5. QED BY <2>1, <2>4 DEF Command
<1>2. CASE t = "qq_private"
  <2>1. PICK a : a = Aliases[t]
      OBVIOUS
  <2>2. a = Aliases.qq_private
      BY <1>2, <2>1
  <2>3. y \in {"message", "poke", "recall"}
      BY <2>1, <2>2 DEF Aliases
  <2>4. a[y] \in {<<"message", "private">>, <<"notice", "notify">>, <<"notice", "friend_recall">>}
      BY <2>2, <2>3 DEF Aliases
  <2>5. QED BY <2>1, <2>4 DEF Command
<1>3. QED BY <1>1, <1>2 DEF Templates

\* The surface an entry of the form is stored under.
IdOf(x, t) == IF Len(x) = 1 THEN Get(Get(Aliases, t, NoKeys), x[1], x) ELSE x
RankOf(x, t) == IF IdOf(x, t) = x THEN 1 ELSE 0

\* The surface of an entry of the form, and its rank.
LEMMA EntryId ==
    ASSUME NEW t \in Templates, NEW x \in FormIds(t)
    PROVE  /\ Len(x) \in {1, 2} /\ IdOf(x, t) # Command
           /\ Len(x) = 1 => RankOf(x, t) = 0 /\ IdOf(x, t) = Aliases[t][x[1]]
           /\ Len(x) = 2 => RankOf(x, t) = 1 /\ IdOf(x, t) = x
<1>1. Get(Aliases, t, NoKeys) = Aliases[t]
  <2>1. DOMAIN Aliases = Templates
      BY DEF Aliases, Templates
  <2>2. QED BY <2>1 DEF Get
<1>2. CASE x \in {<<y>> : y \in DOMAIN Aliases[t]}
  <2>1. PICK y \in DOMAIN Aliases[t] : x = <<y>>
      BY <1>2
  <2>2. Len(x) = 1 /\ x[1] = y
      BY <2>1
  <2>3. PICK z : z = Aliases[t][y]
      OBVIOUS
  <2>4. Len(z) = 2 /\ z # Command
      BY <2>3, AliasShape
  <2>5. IdOf(x, t) = z
      BY <1>1, <2>2, <2>3 DEF IdOf, Get
  <2>6. z # x
      BY <2>2, <2>4
  <2>7. QED BY <2>2, <2>3, <2>4, <2>5, <2>6 DEF RankOf
<1>3. CASE x \in {<<"message", "mention">>, <<"notice", "group_admin">>, <<"message", "private">>}
  <2>1. Len(x) = 2 /\ x # Command
      BY <1>3 DEF Command
  <2>2. IdOf(x, t) = x
      BY <2>1 DEF IdOf
  <2>3. QED BY <2>1, <2>2 DEF RankOf
<1>4. QED BY <1>2, <1>3 DEF FormIds

\* One round of the storage, and the first two.
NothingStored == [conf |-> NoKeys, rank |-> NoKeys]
Stores(acc, id, rank, c) ==
    IF KeepsPrevious(rank, Get(acc.rank, id, -1)) THEN acc
    ELSE [conf |-> Overlay(acc.conf, [i \in {id} |-> c]), rank |-> Overlay(acc.rank, [i \in {id} |-> rank])]

StoredOne(acc, id, rank, c) == acc.conf = [i \in {id} |-> c] /\ acc.rank = [i \in {id} |-> rank]
StoredTwo(acc, id, rank, c, id2, rank2, c2) ==
    acc.conf = [i \in {id, id2} |-> IF i = id2 /\ ~ (id = id2 /\ rank > rank2) THEN c2 ELSE c]

\* What the first entry of a form stores.
LEMMA StoresFirst ==
    ASSUME NEW id, NEW rank \in 0..1, NEW c, NEW r, r = Stores(NothingStored, id, rank, c)
    PROVE  StoredOne(r, id, rank, c)
<1>1. Get(NothingStored.rank, id, -1) = -1
    BY DEF NothingStored, Get, NoKeys
<1>2. ~ KeepsPrevious(rank, -1)
    BY DEF KeepsPrevious
<1>3. \A v : Overlay(NoKeys, [i \in {id} |-> v]) = [i \in {id} |-> v]
    BY DEF Overlay, NoKeys
<1>4. NothingStored.conf = NoKeys /\ NothingStored.rank = NoKeys
    BY DEF NothingStored
<1>5. r = [conf |-> Overlay(NoKeys, [i \in {id} |-> c]), rank |-> Overlay(NoKeys, [i \in {id} |-> rank])]
    BY <1>1, <1>2, <1>4 DEF Stores
<1>6. PICK v, w : v = [i \in {id} |-> c] /\ w = [i \in {id} |-> rank]
    OBVIOUS
<1>7. Overlay(NoKeys, [i \in {id} |-> c]) = v /\ Overlay(NoKeys, [i \in {id} |-> rank]) = w
    BY <1>3, <1>6
<1>8. r = [conf |-> v, rank |-> w]
    BY <1>5, <1>7
<1>9. QED BY <1>6, <1>8 DEF StoredOne

\* What the second entry does to the first: it replaces it, unless the first has
\* the surface's own id and the second only an alias of it.
LEMMA StoresSecond ==
    ASSUME NEW id, NEW rank \in 0..1, NEW c, NEW id2, NEW rank2 \in 0..1, NEW c2, NEW acc,
           StoredOne(acc, id, rank, c), NEW r, r = Stores(acc, id2, rank2, c2)
    PROVE  StoredTwo(r, id, rank, c, id2, rank2, c2)
<1>1. Get(acc.rank, id2, -1) = IF id = id2 THEN rank ELSE -1
    BY DEF Get, StoredOne
<1>2. KeepsPrevious(rank2, Get(acc.rank, id2, -1)) <=> (id = id2 /\ rank > rank2)
    BY <1>1 DEF KeepsPrevious
<1>3. CASE id = id2 /\ rank > rank2
  <2>1. r = acc
      BY <1>2, <1>3 DEF Stores
  <2>2. QED BY <1>3, <2>1 DEF StoredOne, StoredTwo
<1>4. CASE ~ (id = id2 /\ rank > rank2)
  <2>1. r.conf = Overlay(acc.conf, [i \in {id2} |-> c2])
      BY <1>2, <1>4 DEF Stores
  <2>2. QED BY <1>4, <2>1 DEF Overlay, StoredOne, StoredTwo
<1>5. QED BY <1>3, <1>4

\* The surfaces stored for a form of at most two entries.
FormEntries(t, n, form, ids, cs) ==
    /\ n \in 0..2 /\ Len(form) = n /\ ids \in [1..n -> FormIds(t)]
    /\ \A i \in 1..n : form[i] = <<ids[i], cs[i]>>
StoredAs(conf, t, n, ids, cs) ==
    conf = IF n = 0 THEN NoKeys
           ELSE IF n = 1 THEN [i \in {IdOf(ids[1], t)} |-> cs[1]]
           ELSE [i \in {IdOf(ids[1], t), IdOf(ids[2], t)} |->
                    IF i = IdOf(ids[2], t) /\ ~ (IdOf(ids[1], t) = IdOf(ids[2], t)
                                                 /\ RankOf(ids[1], t) > RankOf(ids[2], t))
                    THEN cs[2] ELSE cs[1]]

\* _normalize_session_surfaces_for_storage over the entries of such a form.
LEMMA StoredForm ==
    ASSUME NEW t \in Templates, NEW n, NEW form, NEW ids, NEW cs, FormEntries(t, n, form, ids, cs),
           NEW conf, conf = StoredSurfaces(form, t)
    PROVE  StoredAs(conf, t, n, ids, cs)
<1>1. /\ n \in 0..2 /\ Len(form) = n /\ ids \in [1..n -> FormIds(t)]
      /\ \A i \in 1..n : form[i] = <<ids[i], cs[i]>>
    BY DEF FormEntries
<1>2. n \in 0..2
    BY <1>1
<1> DEFINE One(acc, k) == Stores(acc, IdOf(form[k][1], t), RankOf(form[k][1], t), form[k][2])
           Rounds(f) == [k \in 0..n |-> IF k = 0 THEN NothingStored ELSE One(f[k - 1], k)]
<1>3. StoredSurfaces(form, t) = (CHOOSE f : f = Rounds(f))[n].conf
    BY <1>1, Zenon DEF StoredSurfaces, Stores, IdOf, RankOf, NothingStored
<1>4. \E f : f = Rounds(f)
  <2>1. PICK s0, s1, s2 : s0 = NothingStored /\ s1 = One(s0, 1) /\ s2 = One(s1, 2)
      OBVIOUS
  <2>2. PICK f : f = [k \in 0..n |-> IF k = 0 THEN s0 ELSE IF k = 1 THEN s1 ELSE s2]
      OBVIOUS
  <2>3. \A k \in 0..n : f[k] = Rounds(f)[k]
    <3> HIDE DEF One
    <3> SUFFICES ASSUME NEW k \in 0..n PROVE f[k] = Rounds(f)[k]
        OBVIOUS
    <3>1. CASE k = 0
        BY <2>1, <2>2, <3>1
    <3>2. CASE k = 1
      <4>1. f[k - 1] = s0 /\ f[k] = s1
          BY <1>2, <2>2, <3>2
      <4>2. QED BY <2>1, <3>2, <4>1
    <3>3. CASE k = 2
      <4>1. f[k - 1] = s1 /\ f[k] = s2
          BY <1>2, <2>2, <3>3
      <4>2. QED BY <2>1, <3>3, <4>1
    <3>4. QED BY <1>2, <3>1, <3>2, <3>3
  <2>4. f = Rounds(f)
    <3> HIDE DEF One
    <3>1. QED BY <2>2, <2>3
  <2>5. QED BY <2>4
<1>5. PICK f : f = Rounds(f) /\ StoredSurfaces(form, t) = f[n].conf
    BY <1>3, <1>4, Zenon
<1> HIDE DEF One
<1>6. f[0] = NothingStored /\ \A k \in 1..n : f[k] = One(f[k - 1], k)
  <2>1. f[0] = NothingStored
      BY <1>5, <1>2
  <2>2. ASSUME NEW k \in 1..n PROVE f[k] = One(f[k - 1], k)
    <3>1. k \in 0..n /\ k # 0
        OBVIOUS
    <3>2. QED BY <1>5, <3>1
  <2>3. QED BY <2>1, <2>2
<1>7. ASSUME NEW k \in 1..n, NEW acc
      PROVE  /\ One(acc, k) = Stores(acc, IdOf(ids[k], t), RankOf(ids[k], t), cs[k])
             /\ RankOf(ids[k], t) \in 0..1
    BY <1>1 DEF One, RankOf
<1>8. CASE n = 0
  <2>1. f[n].conf = NoKeys
      BY <1>6, <1>8 DEF NothingStored
  <2>2. QED BY <1>5, <1>8, <2>1 DEF StoredAs
<1>9. ASSUME n \in {1, 2}
      PROVE  StoredOne(f[1], IdOf(ids[1], t), RankOf(ids[1], t), cs[1])
  <2>1. 1 \in 1..n /\ 1 - 1 = 0
      BY <1>9
  <2>2. f[1] = Stores(NothingStored, IdOf(ids[1], t), RankOf(ids[1], t), cs[1]) /\ RankOf(ids[1], t) \in 0..1
      BY <1>6, <1>7, <2>1
  <2>3. PICK r, x, q, c : /\ r = f[1] /\ x = IdOf(ids[1], t) /\ q = RankOf(ids[1], t) /\ c = cs[1]
      OBVIOUS
  <2>4. r = Stores(NothingStored, x, q, c) /\ q \in 0..1
      BY <2>2, <2>3
  <2>5. StoredOne(r, x, q, c)
      BY <2>4, StoresFirst
  <2>6. QED BY <2>3, <2>5
<1>10. CASE n = 1
  <2>1. f[n].conf = [i \in {IdOf(ids[1], t)} |-> cs[1]]
      BY <1>9, <1>10 DEF StoredOne
  <2>2. QED BY <1>5, <1>10, <2>1 DEF StoredAs
<1>11. CASE n = 2
  <2>1. 1 \in 1..n /\ 2 \in 1..n /\ 2 - 1 = 1
      BY <1>11
  <2>2. f[2] = Stores(f[1], IdOf(ids[2], t), RankOf(ids[2], t), cs[2])
        /\ RankOf(ids[1], t) \in 0..1 /\ RankOf(ids[2], t) \in 0..1
      BY <1>6, <1>7, <2>1
  <2>3. f[2].conf = [i \in {IdOf(ids[1], t), IdOf(ids[2], t)} |->
                      IF i = IdOf(ids[2], t) /\ ~ (IdOf(ids[1], t) = IdOf(ids[2], t)
                                                   /\ RankOf(ids[1], t) > RankOf(ids[2], t))
                      THEN cs[2] ELSE cs[1]]
    <3>1. PICK acc, r, x, q, c, y, w, k :
            /\ acc = f[1] /\ r = f[2] /\ x = IdOf(ids[1], t) /\ q = RankOf(ids[1], t) /\ c = cs[1]
            /\ y = IdOf(ids[2], t) /\ w = RankOf(ids[2], t) /\ k = cs[2]
        OBVIOUS
    <3>2. /\ StoredOne(acc, x, q, c)
          /\ r = Stores(acc, y, w, k) /\ q \in 0..1 /\ w \in 0..1
        BY <1>9, <1>11, <2>2, <3>1
    <3>3. StoredTwo(r, x, q, c, y, w, k)
        BY <3>2, StoresSecond
    <3>4. QED BY <3>1, <3>3 DEF StoredTwo
  <2>4. QED BY <1>5, <1>11, <2>3 DEF StoredAs
<1>12. QED BY <1>1, <1>8, <1>10, <1>11

\* What the entries of a form decide about a surface: only entries that stand
\* for it count, and one under the surface's own id goes before the others.
OwnEntries(S, t, n, ids) == {i \in 1..n : IdOf(ids[i], t) = S}
Deciding(k, S, t, n, ids) ==
    /\ k \in OwnEntries(S, t, n, ids)
    /\ Len(ids[k]) = 2 \/ OwnEntries(S, t, n, ids) = {k}

\* The entry that decides about a surface is what is stored for it.
LEMMA StoredOwn ==
    ASSUME NEW t \in Templates, NEW n, NEW form, NEW ids, NEW cs, FormEntries(t, n, form, ids, cs),
           n = 2 => ids[1] # ids[2],
           NEW S, NEW k, Deciding(k, S, t, n, ids), NEW conf, conf = StoredSurfaces(form, t)
    PROVE  S \in DOMAIN conf /\ conf[S] = cs[k]
<1>0. n \in 0..2 /\ ids \in [1..n -> FormIds(t)] /\ StoredAs(conf, t, n, ids, cs)
    BY StoredForm DEF FormEntries
<1>1. k \in 1..n /\ IdOf(ids[k], t) = S
    BY DEF Deciding, OwnEntries
<1>2. n \in {1, 2}
    BY <1>0, <1>1
<1>3. CASE n = 1
  <2>1. conf = [i \in {IdOf(ids[1], t)} |-> cs[1]]
      BY <1>0, <1>3 DEF StoredAs
  <2>2. k = 1
      BY <1>1, <1>3
  <2>3. QED BY <1>1, <2>1, <2>2
<1>4. CASE n = 2
  <2>1. PICK x, y, q, w : /\ x = IdOf(ids[1], t) /\ y = IdOf(ids[2], t)
                          /\ q = RankOf(ids[1], t) /\ w = RankOf(ids[2], t)
      OBVIOUS
  <2>2. conf = [i \in {x, y} |-> IF i = y /\ ~ (x = y /\ q > w) THEN cs[2] ELSE cs[1]]
    <3>1. 1 \in 1..n /\ 2 \in 1..n
        BY <1>4
    <3>2. conf = [i \in {IdOf(ids[1], t), IdOf(ids[2], t)} |->
                      IF i = IdOf(ids[2], t) /\ ~ (IdOf(ids[1], t) = IdOf(ids[2], t)
                                                   /\ RankOf(ids[1], t) > RankOf(ids[2], t))
                      THEN cs[2] ELSE cs[1]]
        BY <1>0, <1>4 DEF StoredAs
    <3>3. QED BY <2>1, <3>2
  <2>3. /\ ids[1] \in FormIds(t) /\ ids[2] \in FormIds(t) /\ ids[1] # ids[2] /\ k \in {1, 2}
        /\ k = 1 => x = S
        /\ k = 2 => y = S
      BY <1>0, <1>1, <1>4, <2>1
  <2>4. /\ Len(ids[1]) \in {1, 2} /\ Len(ids[2]) \in {1, 2}
        /\ Len(ids[1]) = 1 => q = 0
        /\ Len(ids[1]) = 2 => q = 1 /\ x = ids[1]
        /\ Len(ids[2]) = 1 => w = 0
        /\ Len(ids[2]) = 2 => w = 1 /\ y = ids[2]
      BY <2>1, <2>3, EntryId
  <2>5. CASE x # y
      BY <2>2, <2>3, <2>5
  <2>6. CASE x = y
    <3>0. 1..n = {1, 2}
        BY <1>4
    <3>1. OwnEntries(S, t, n, ids) = {1, 2}
        BY <3>0, <2>1, <2>3, <2>6 DEF OwnEntries
    <3>2. Len(ids[k]) = 2
        BY <3>1 DEF Deciding
    <3>3. CASE k = 1
      <4>1. q > w
          BY <2>3, <2>4, <2>6, <3>2, <3>3
      <4>2. QED BY <2>2, <2>3, <2>6, <3>3, <4>1
    <3>4. CASE k = 2
      <4>1. ~ (q > w)
          BY <2>3, <2>4, <3>2, <3>4
      <4>2. QED BY <2>2, <2>3, <2>6, <3>4, <4>1
    <3>5. QED BY <2>3, <3>3, <3>4
  <2>7. QED BY <2>5, <2>6
<1>5. QED BY <1>2, <1>3, <1>4

\* Every surface that is stored comes from an entry, and none is a command's.
LEMMA StoredFrom ==
    ASSUME NEW t \in Templates, NEW n, NEW form, NEW ids, NEW cs, FormEntries(t, n, form, ids, cs),
           NEW conf, conf = StoredSurfaces(form, t)
    PROVE  Command \notin DOMAIN conf /\ \A s \in DOMAIN conf : \E i \in 1..n : conf[s] = cs[i]
<1>0. n \in 0..2 /\ ids \in [1..n -> FormIds(t)] /\ StoredAs(conf, t, n, ids, cs)
    BY StoredForm DEF FormEntries
<1>1. \A i \in 1..n : IdOf(ids[i], t) # Command
    BY <1>0, EntryId
<1>2. CASE n = 0
  <2>1. conf = NoKeys
      BY <1>0, <1>2 DEF StoredAs
  <2>2. QED BY <2>1 DEF NoKeys
<1>3. CASE n = 1
  <2>1. conf = [i \in {IdOf(ids[1], t)} |-> cs[1]]
      BY <1>0, <1>3 DEF StoredAs
  <2>2. QED BY <1>1, <1>3, <2>1
<1>4. CASE n = 2
  <2>1. PICK x, y, q, w : /\ x = IdOf(ids[1], t) /\ y = IdOf(ids[2], t)
                          /\ q = RankOf(ids[1], t) /\ w = RankOf(ids[2], t)
      OBVIOUS
  <2>2. conf = [i \in {x, y} |-> IF i = y /\ ~ (x = y /\ q > w) THEN cs[2] ELSE cs[1]]
    <3>1. conf = [i \in {IdOf(ids[1], t), IdOf(ids[2], t)} |->
                      IF i = IdOf(ids[2], t) /\ ~ (IdOf(ids[1], t) = IdOf(ids[2], t)
                                                   /\ RankOf(ids[1], t) > RankOf(ids[2], t))
                      THEN cs[2] ELSE cs[1]]
        BY <1>0, <1>4 DEF StoredAs
    <3>2. QED BY <2>1, <3>1
  <2>3. 1 \in 1..n /\ 2 \in 1..n /\ x # Command /\ y # Command
      BY <1>1, <1>4, <2>1
  <2>4. QED BY <2>2, <2>3
<1>5. QED BY <1>0, <1>2, <1>3, <1>4

\* The session that a form of entries with these modes makes.
FormModes == {"record_only", "silent_drop"}
SessionRead(session, conf) ==
    /\ session # Raised /\ session # Missing
    /\ session.surfaces = [s \in DOMAIN conf |-> ParseSurface(conf[s])]
    /\ Command \notin DOMAIN conf
EntriesRead(form, n, ids, modes) ==
    Len(form) = n /\ \A i \in 1..n : form[i] = <<ids[i], [admission |-> Admits(modes[i])]>>

\* The session that is loaded from the file of such a form.
LEMMA FormSession ==
    ASSUME NEW t \in Templates, NEW n \in 0..2, NEW ids \in [1..n -> FormIds(t)],
           NEW modes \in [1..2 -> FormModes], NEW form, form = FormOf(ids, modes),
           NEW conf, conf = StoredSurfaces(form, t),
           NEW files, files = [s \in {ScopeOf(t)} |-> FormFile(t, form)],
           NEW session, session = LoadSession(files, ScopeOf(t))
    PROVE  SessionRead(session, conf) /\ EntriesRead(form, n, ids, modes)
<1>1. Len(form) = n /\ \A i \in 1..n : form[i] = <<ids[i], [admission |-> Admits(modes[i])]>>
  <2>1. Len(ids) = n
      OBVIOUS
  <2>2. QED BY <2>1 DEF FormOf
<1>2. PICK id : id = ScopeOf(t)
    OBVIOUS
<1>3. ValidSessionId(id)
    BY <1>2 DEF ValidSessionId, ValidPart, ScopeOf
<1>4. session = ParseSessionConfig(FormFile(t, form), id)
    BY <1>2, <1>3 DEF LoadSession
<1>5. PICK raw : raw = FormFile(t, form)
    OBVIOUS
<1>6. DOMAIN raw = {"id", "agent_id", "template", "selectors", "surfaces"} /\ raw["id"] = id
      /\ raw["agent_id"] = "agent" /\ raw["surfaces"] = conf
    BY <1>2, <1>5 DEF FormFile, SessionPayload
<1>7. ParsedSurfaces(raw) = [s \in DOMAIN conf |-> ParseSurface(conf[s])]
    BY <1>6 DEF ParsedSurfaces, Get
<1>8. PICK cs : cs = [i \in 1..n |-> [admission |-> Admits(modes[i])]]
    OBVIOUS
<1>9. \A i \in 1..n : form[i] = <<ids[i], cs[i]>>
    BY <1>1, <1>8
<1>10. Command \notin DOMAIN conf /\ \A s \in DOMAIN conf : \E i \in 1..n : conf[s] = cs[i]
  <2>1. FormEntries(t, n, form, ids, cs)
      BY <1>1, <1>9 DEF FormEntries
  <2>2. QED BY <2>1, StoredFrom
<1>11. \A s \in DOMAIN conf : \E m \in Modes : Admitting(conf[s], m)
  <2> SUFFICES ASSUME NEW s \in DOMAIN conf PROVE \E m \in Modes : Admitting(conf[s], m)
      OBVIOUS
  <2>1. PICK i \in 1..n : conf[s] = cs[i]
      BY <1>10
  <2>2. PICK m : m = modes[i]
      OBVIOUS
  <2>3. conf[s] = [admission |-> Admits(m)] /\ m \in Modes
      BY <1>8, <2>1, <2>2 DEF Modes, FormModes
  <2>4. QED BY <2>3 DEF Admitting
<1>12. \A s \in DOMAIN conf, d \in Domains : ParsedSurfaces(raw)[s][d] # Raised
  <2> SUFFICES ASSUME NEW s \in DOMAIN conf, NEW k \in Domains PROVE ParsedSurfaces(raw)[s][k] # Raised
      OBVIOUS
  <2>1. PICK m \in Modes : Admitting(conf[s], m)
      BY <1>11
  <2>2. ParsedTo(ParseSurface(conf[s]), conf[s], m)
      BY <2>1, SurfaceParsed
  <2>3. QED BY <1>7, <2>2 DEF ParsedTo
<1>13. Get(raw, "agent_id", "") = "agent" /\ Get(raw, "id", id) = id
    BY <1>6 DEF Get
<1>14. session = SessionOf(raw, id)
    BY <1>4, <1>5, <1>7, <1>12, <1>13 DEF ParseSessionConfig
<1>15. SessionOf(raw, id) # Raised /\ SessionOf(raw, id) # Missing
  <2>1. ids \in SeqsUpTo(FormIds(t), 2) /\ t \in {"qq_group", "qq_private"}
        /\ modes \in [1..2 -> {"record_only", "silent_drop"}]
      BY DEF SeqsUpTo, Templates, FormModes
  <2>2. SessionOf(FormFile(t, FormOf(ids, modes)), ScopeOf(t)) \notin {Missing, Raised}
      BY <2>1, MarksAssumption, Zenon
  <2>3. QED BY <1>2, <1>5, <2>2
<1>16. session.surfaces = ParsedSurfaces(raw)
  <2>1. SessionOf(raw, id).surfaces = ParsedSurfaces(raw)
      BY DEF SessionOf
  <2>2. QED BY <1>14, <2>1
<1>17. QED BY <1>1, <1>7, <1>10, <1>14, <1>15, <1>16 DEF SessionRead, EntriesRead

\* The fields of an event that the decision needs are those of its translation.
LEMMA PostInitKeeps ==
    ASSUME NEW x, NEW e, e = PostInit(x), NEW k \in DOMAIN x,
           k \notin {"reply_reference", "reply_to_message_id", "targets_self"}
    PROVE  e[k] = x[k]
BY DEF PostInit

\* An event of the chat of a template, with the surface its public name stands for.
SourceOf(t) == IF t = "qq_group" THEN EventSource("group", "u1", "g1") ELSE EventSource("private", "u1", None)
Noticed == {"notify", "group_recall", "group_increase", "group_decrease", "group_admin", "group_upload",
            "group_ban", "friend_recall"}
Configurable(e, t) ==
    /\ e.source = SourceOf(t)
    /\ \/ e.event_type = "message" /\ e.mentions_self \in BOOLEAN /\ e.reply_targets_self \in BOOLEAN
       \/ /\ e.event_type # "message" /\ e.notice_type \in Noticed
          /\ Aliases[t][e.event_type] = <<"notice", e.notice_type>>

\* A raw notice of a chat.
NoticeIn(kind, raw, given) ==
    /\ raw = Overlay(Overlay([post_type |-> "notice"], InChat(kind)), given)
    /\ DOMAIN given \cap {"post_type", "group_id", "operator_id"} = {}
NoticeRead(kind, raw, given) ==
    /\ Text(raw, "post_type") = "notice" /\ Text(raw, "operator_id") = ""
    /\ \A k \in DOMAIN given : Text(raw, k) = given[k]
    /\ GroupIn(raw) = IF kind = "group" THEN "g1" ELSE None
    /\ kind = "group" => Text(raw, "group_id") = "g1"

\* The fields of a raw notice.
LEMMA NoticeFields ==
    ASSUME NEW kind \in {"group", "private"}, NEW raw, NEW given, NoticeIn(kind, raw, given)
    PROVE  NoticeRead(kind, raw, given)
<1>1. PICK base : base = Overlay([post_type |-> "notice"], InChat(kind))
    OBVIOUS
<1>2. /\ "post_type" \in DOMAIN base /\ base["post_type"] = "notice"
      /\ kind = "group" => "group_id" \in DOMAIN base /\ base["group_id"] = "g1"
      /\ kind = "private" => "group_id" \notin DOMAIN base
      /\ "operator_id" \notin DOMAIN base
    BY <1>1 DEF Overlay, InChat, NoKeys
<1>3. /\ raw = Overlay(base, given)
      /\ "post_type" \notin DOMAIN given /\ "group_id" \notin DOMAIN given /\ "operator_id" \notin DOMAIN given
    BY <1>1 DEF NoticeIn
<1>4. /\ \A k \in DOMAIN given : k \in DOMAIN raw /\ raw[k] = given[k]
      /\ \A k \in DOMAIN base : k \notin DOMAIN given => k \in DOMAIN raw /\ raw[k] = base[k]
      /\ DOMAIN raw = DOMAIN base \cup DOMAIN given
    BY <1>3 DEF Overlay
<1>5. "post_type" \in DOMAIN raw /\ raw["post_type"] = "notice" /\ "operator_id" \notin DOMAIN raw
    BY <1>2, <1>3, <1>4
<1>6. kind = "group" => "group_id" \in DOMAIN raw /\ raw["group_id"] = "g1"
    BY <1>2, <1>3, <1>4
<1>7. kind = "private" => "group_id" \notin DOMAIN raw
    BY <1>2, <1>3, <1>4
<1>8. QED BY <1>4, <1>5, <1>6, <1>7 DEF Text, GroupIn, NoticeRead

\* The notices of a chat, and the names of their events.
NotifyTypes(t) == IF t = "qq_group" THEN {"poke", "lucky_king", "honor", "title", "new"} ELSE {"poke", "new"}
PlainTypes(t) ==
    IF t = "qq_group"
    THEN {"group_recall", "group_increase", "group_decrease", "group_admin", "group_upload", "group_ban",
          "essence"}
    ELSE {"friend_recall", "friend_add"}
NotifyGiven(sub) ==
    [notice_type |-> "notify", sub_type |-> sub, user_id |-> "u1", target_id |-> "bot",
     honor_type |-> "talkative"]
PlainGiven(type) == [notice_type |-> type, user_id |-> "u1", message_id |-> "m1", file |-> "f"]
NotifyName(sub) ==
    CASE sub = "poke"  -> "poke"         [] sub = "lucky_king" -> "lucky_king"
      [] sub = "honor" -> "honor_change" [] sub = "title"      -> "title_change"
      [] OTHER -> "new"
PlainName(type) ==
    CASE type \in {"group_recall", "friend_recall"} -> "recall"
      [] type = "group_increase" -> "member_join"  [] type = "group_decrease" -> "member_leave"
      [] type = "group_admin"    -> "admin_change" [] type = "group_upload"   -> "file_upload"
      [] type = "friend_add"     -> "friend_added" [] type = "group_ban"      -> "mute_change"
      [] OTHER -> "essence"
NoticeEvent(x, t, name, type) ==
    /\ {"event_type", "source", "notice_type"} \subseteq DOMAIN x
    /\ x.source = SourceOf(t) /\ x.notice_type = type /\ x.event_type = name

\* An event has its type and its source from the start.
LEMMA BlankFields ==
    ASSUME NEW name, NEW source
    PROVE  /\ {"event_type", "source", "notice_type"} \subseteq DOMAIN Blank(name, source)
           /\ Blank(name, source)["event_type"] = name /\ Blank(name, source)["source"] = source
BY DEF Blank

\* What becomes of a notice of a type that is not notify.
LEMMA PlainNotice ==
    ASSUME NEW t \in Templates, NEW raw, NEW type \in PlainTypes(t),
           NEW given, given = PlainGiven(type), NoticeIn(KindOf(t), raw, given),
           NEW x, x = TranslateNotice(raw, "bot"), x # None
    PROVE  type # "essence" /\ NoticeEvent(x, t, PlainName(type), type)
<1>1. /\ Text(raw, "notice_type") = type /\ Text(raw, "user_id") = "u1" /\ Text(raw, "operator_id") = ""
      /\ GroupIn(raw) = IF t = "qq_group" THEN "g1" ELSE None
      /\ t = "qq_group" => Text(raw, "group_id") = "g1"
  <2>1. {"notice_type", "user_id"} \subseteq DOMAIN given /\ given["notice_type"] = type
        /\ given["user_id"] = "u1"
      BY DEF PlainGiven
  <2>2. KindOf(t) \in {"group", "private"} /\ (KindOf(t) = "group" <=> t = "qq_group")
      BY DEF KindOf, Templates
  <2>3. PICK kind : kind = KindOf(t)
      OBVIOUS
  <2>4. NoticeRead(kind, raw, given)
      BY <2>2, <2>3, NoticeFields
  <2>5. QED BY <2>1, <2>2, <2>3, <2>4 DEF NoticeRead
<1>2. "g1" # None
    BY MarksAssumption, Zenon
<1>3. t = "qq_group" => InGroup(raw) = SourceOf(t)
    BY <1>1, <1>2 DEF InGroup, SourceOf, OrNone
<1>4. CASE type \in {"group_recall", "friend_recall"}
  <2>1. x = TranslateRecall(raw, type)
      BY <1>1, <1>4 DEF TranslateNotice
  <2>2. EventSource(GroupOrPrivate(GroupIn(raw)), "u1", GroupIn(raw)) = SourceOf(t)
      BY <1>1, <1>2 DEF GroupOrPrivate, SourceOf
  <2>3. PICK group, source : group = GroupIn(raw) /\ source = EventSource(GroupOrPrivate(group), "u1", group)
      OBVIOUS
  <2>4. x = [Blank("recall", source) EXCEPT
                 !.operator_id = OrNone("u1"), !.subject_user_id = OrNone("u1"),
                 !.target_message_id = OrNone(Text(raw, "message_id")), !.notice_type = type]
      BY <1>1, <2>1, <2>3 DEF TranslateRecall
  <2>5. PICK event, blank : event = "recall" /\ blank = Blank(event, source)
      OBVIOUS
  <2>6. /\ {"event_type", "source", "notice_type"} \subseteq DOMAIN blank
        /\ blank["event_type"] = event /\ blank["source"] = source
      BY <2>5, BlankFields
  <2>7. DOMAIN x = DOMAIN blank /\ x["event_type"] = event /\ x["source"] = source /\ x["notice_type"] = type
      BY <2>4, <2>5, <2>6
  <2>8. NoticeEvent(x, t, "recall", type)
      BY <2>2, <2>3, <2>5, <2>6, <2>7 DEF NoticeEvent
  <2>9. PlainName(type) = "recall" /\ type # "essence"
      BY <1>4 DEF PlainName
  <2>10. QED BY <2>8, <2>9
<1>5. CASE type = "group_increase"
  <2>1. x = TranslateMembership(raw, "member_join", type)
      BY <1>1, <1>5 DEF TranslateNotice
  <2>2. t = "qq_group"
      BY <1>5 DEF Templates, PlainTypes
  <2>3. PICK event, source, blank : event = "member_join" /\ source = SourceOf(t) /\ blank = Blank(event, source)
      OBVIOUS
  <2>4. /\ {"event_type", "source", "notice_type"} \subseteq DOMAIN blank
        /\ blank["event_type"] = event /\ blank["source"] = source
      BY <2>3, BlankFields
  <2>5. DOMAIN x = DOMAIN blank /\ x["event_type"] = event /\ x["source"] = source /\ x["notice_type"] = type
      BY <1>3, <2>1, <2>2, <2>3, <2>4 DEF TranslateMembership
  <2>6. NoticeEvent(x, t, "member_join", type)
      BY <2>3, <2>4, <2>5 DEF NoticeEvent
  <2>7. PlainName(type) = "member_join" /\ type # "essence"
      BY <1>5 DEF PlainName
  <2>8. QED BY <2>6, <2>7
<1>6. CASE type = "group_decrease"
  <2>1. x = TranslateMembership(raw, "member_leave", type)
      BY <1>1, <1>6 DEF TranslateNotice
  <2>2. t = "qq_group"
      BY <1>6 DEF Templates, PlainTypes
  <2>3. PICK event, source, blank : event = "member_leave" /\ source = SourceOf(t) /\ blank = Blank(event, source)
      OBVIOUS
  <2>4. /\ {"event_type", "source", "notice_type"} \subseteq DOMAIN blank
        /\ blank["event_type"] = event /\ blank["source"] = source
      BY <2>3, BlankFields
  <2>5. DOMAIN x = DOMAIN blank /\ x["event_type"] = event /\ x["source"] = source /\ x["notice_type"] = type
      BY <1>3, <2>1, <2>2, <2>3, <2>4 DEF TranslateMembership
  <2>6. NoticeEvent(x, t, "member_leave", type)
      BY <2>3, <2>4, <2>5 DEF NoticeEvent
  <2>7. PlainName(type) = "member_leave" /\ type # "essence"
      BY <1>6 DEF PlainName
  <2>8. QED BY <2>6, <2>7
<1>7. CASE type = "group_admin"
  <2>1. x = TranslateAdmin(raw, type)
      BY <1>1, <1>7 DEF TranslateNotice
  <2>2. t = "qq_group"
      BY <1>7 DEF Templates, PlainTypes
  <2>3. PICK event, source, blank : event = "admin_change" /\ source = SourceOf(t) /\ blank = Blank(event, source)
      OBVIOUS
  <2>4. /\ {"event_type", "source", "notice_type"} \subseteq DOMAIN blank
        /\ blank["event_type"] = event /\ blank["source"] = source
      BY <2>3, BlankFields
  <2>5. DOMAIN x = DOMAIN blank /\ x["event_type"] = event /\ x["source"] = source /\ x["notice_type"] = type
      BY <1>3, <2>1, <2>2, <2>3, <2>4 DEF TranslateAdmin
  <2>6. NoticeEvent(x, t, "admin_change", type)
      BY <2>3, <2>4, <2>5 DEF NoticeEvent
  <2>7. PlainName(type) = "admin_change" /\ type # "essence"
      BY <1>7 DEF PlainName
  <2>8. QED BY <2>6, <2>7
<1>8. CASE type = "group_upload"
  <2>1. x = TranslateUpload(raw, type)
      BY <1>1, <1>8 DEF TranslateNotice
  <2>2. t = "qq_group"
      BY <1>8 DEF Templates, PlainTypes
  <2>3. PICK event, source, blank : event = "file_upload" /\ source = SourceOf(t) /\ blank = Blank(event, source)
      OBVIOUS
  <2>4. /\ {"event_type", "source", "notice_type"} \subseteq DOMAIN blank
        /\ blank["event_type"] = event /\ blank["source"] = source
      BY <2>3, BlankFields
  <2>5. DOMAIN x = DOMAIN blank /\ x["event_type"] = event /\ x["source"] = source /\ x["notice_type"] = type
      BY <1>3, <2>1, <2>2, <2>3, <2>4 DEF TranslateUpload
  <2>6. NoticeEvent(x, t, "file_upload", type)
      BY <2>3, <2>4, <2>5 DEF NoticeEvent
  <2>7. PlainName(type) = "file_upload" /\ type # "essence"
      BY <1>8 DEF PlainName
  <2>8. QED BY <2>6, <2>7
<1>9. CASE type = "group_ban"
  <2>1. x = TranslateBan(raw, type, "bot")
      BY <1>1, <1>9 DEF TranslateNotice
  <2>2. t = "qq_group"
      BY <1>9 DEF Templates, PlainTypes
  <2>3. PICK event, source, blank : event = "mute_change" /\ source = SourceOf(t) /\ blank = Blank(event, source)
      OBVIOUS
  <2>4. /\ {"event_type", "source", "notice_type"} \subseteq DOMAIN blank
        /\ blank["event_type"] = event /\ blank["source"] = source
      BY <2>3, BlankFields
  <2>5. DOMAIN x = DOMAIN blank /\ x["event_type"] = event /\ x["source"] = source /\ x["notice_type"] = type
      BY <1>3, <2>1, <2>2, <2>3, <2>4 DEF TranslateBan
  <2>6. NoticeEvent(x, t, "mute_change", type)
      BY <2>3, <2>4, <2>5 DEF NoticeEvent
  <2>7. PlainName(type) = "mute_change" /\ type # "essence"
      BY <1>9 DEF PlainName
  <2>8. QED BY <2>6, <2>7
<1>10. CASE type = "friend_add"
  <2>1. x = TranslateFriendAdd(raw, type)
      BY <1>1, <1>10 DEF TranslateNotice
  <2>2. t = "qq_private"
      BY <1>10 DEF Templates, PlainTypes
  <2>3. PICK source : source = EventSource("private", "u1", None)
      OBVIOUS
  <2>4. x = [Blank("friend_added", source) EXCEPT
                 !.subject_user_id = OrNone("u1"), !.notice_type = type, !.targets_self = TRUE]
      BY <1>1, <2>1, <2>3 DEF TranslateFriendAdd
  <2>5. source = SourceOf(t)
      BY <2>2, <2>3 DEF SourceOf
  <2>6. PICK event, blank : event = "friend_added" /\ blank = Blank(event, source)
      OBVIOUS
  <2>7. /\ {"event_type", "source", "notice_type"} \subseteq DOMAIN blank
        /\ blank["event_type"] = event /\ blank["source"] = source
      BY <2>6, BlankFields
  <2>8. DOMAIN x = DOMAIN blank /\ x["event_type"] = event /\ x["source"] = source /\ x["notice_type"] = type
      BY <2>4, <2>6, <2>7
  <2>9. NoticeEvent(x, t, "friend_added", type)
      BY <2>5, <2>6, <2>7, <2>8 DEF NoticeEvent
  <2>10. PlainName(type) = "friend_added" /\ type # "essence"
      BY <1>10 DEF PlainName
  <2>11. QED BY <2>9, <2>10
<1>11. type # "essence"
    BY <1>1 DEF TranslateNotice
<1>12. QED BY <1>4, <1>5, <1>6, <1>7, <1>8, <1>9, <1>10, <1>11 DEF Templates, PlainTypes

\* What becomes of a notify.
LEMMA NotifyNotice ==
    ASSUME NEW t \in Templates, NEW raw, NEW sub \in NotifyTypes(t),
           NEW given, given = NotifyGiven(sub), NoticeIn(KindOf(t), raw, given),
           NEW x, x = TranslateNotice(raw, "bot"), x # None
    PROVE  sub # "new" /\ NoticeEvent(x, t, NotifyName(sub), "notify")
<1>1. /\ Text(raw, "notice_type") = "notify" /\ Text(raw, "user_id") = "u1" /\ Text(raw, "sub_type") = sub
      /\ GroupIn(raw) = IF t = "qq_group" THEN "g1" ELSE None
      /\ t = "qq_group" => Text(raw, "group_id") = "g1"
  <2>1. {"notice_type", "user_id", "sub_type"} \subseteq DOMAIN given /\ given["notice_type"] = "notify"
        /\ given["user_id"] = "u1" /\ given["sub_type"] = sub
      BY DEF NotifyGiven
  <2>2. KindOf(t) \in {"group", "private"} /\ (KindOf(t) = "group" <=> t = "qq_group")
      BY DEF KindOf, Templates
  <2>3. PICK kind : kind = KindOf(t)
      OBVIOUS
  <2>4. NoticeRead(kind, raw, given)
      BY <2>2, <2>3, NoticeFields
  <2>5. QED BY <2>1, <2>2, <2>3, <2>4 DEF NoticeRead
<1>2. "g1" # None
    BY MarksAssumption, Zenon
<1>3. t = "qq_group" => InGroup(raw) = SourceOf(t)
    BY <1>1, <1>2 DEF InGroup, SourceOf, OrNone
<1>4. x = TranslateNotify(raw, "bot")
    BY <1>1 DEF TranslateNotice
<1>5. CASE sub = "poke"
  <2>1. x = TranslatePoke(raw, "bot")
      BY <1>1, <1>4, <1>5 DEF TranslateNotify
  <2>2. EventSource(GroupOrPrivate(GroupIn(raw)), "u1", GroupIn(raw)) = SourceOf(t)
      BY <1>1, <1>2 DEF GroupOrPrivate, SourceOf
  <2>3. PICK group, source : group = GroupIn(raw) /\ source = EventSource(GroupOrPrivate(group), "u1", group)
      OBVIOUS
  <2>4. x = [Blank("poke", source) EXCEPT
                 !.operator_id = OrNone("u1"), !.subject_user_id = OrNone(Text(raw, "target_id")),
                 !.notice_type = "notify", !.notice_subtype = "poke",
                 !.targets_self = SelfIs("bot", Text(raw, "target_id"))]
      BY <1>1, <2>1, <2>3 DEF TranslatePoke
  <2>5. PICK event, blank : event = "poke" /\ blank = Blank(event, source)
      OBVIOUS
  <2>6. /\ {"event_type", "source", "notice_type"} \subseteq DOMAIN blank
        /\ blank["event_type"] = event /\ blank["source"] = source
      BY <2>5, BlankFields
  <2>7. DOMAIN x = DOMAIN blank /\ x["event_type"] = event /\ x["source"] = source /\ x["notice_type"] = "notify"
      BY <2>4, <2>5, <2>6
  <2>8. NoticeEvent(x, t, "poke", "notify")
      BY <2>2, <2>3, <2>5, <2>6, <2>7 DEF NoticeEvent
  <2>9. NotifyName(sub) = "poke" /\ sub # "new"
      BY <1>5 DEF NotifyName
  <2>10. QED BY <2>8, <2>9
<1>6. CASE sub = "lucky_king"
  <2>1. x = TranslateLuckyKing(raw, "bot")
      BY <1>1, <1>4, <1>6 DEF TranslateNotify
  <2>2. t = "qq_group"
      BY <1>6 DEF Templates, NotifyTypes
  <2>3. PICK event, source, blank : event = "lucky_king" /\ source = SourceOf(t) /\ blank = Blank(event, source)
      OBVIOUS
  <2>4. /\ {"event_type", "source", "notice_type"} \subseteq DOMAIN blank
        /\ blank["event_type"] = event /\ blank["source"] = source
      BY <2>3, BlankFields
  <2>5. DOMAIN x = DOMAIN blank /\ x["event_type"] = event /\ x["source"] = source /\ x["notice_type"] = "notify"
      BY <1>3, <2>1, <2>2, <2>3, <2>4 DEF TranslateLuckyKing
  <2>6. NoticeEvent(x, t, "lucky_king", "notify")
      BY <2>3, <2>4, <2>5 DEF NoticeEvent
  <2>7. NotifyName(sub) = "lucky_king" /\ sub # "new"
      BY <1>6 DEF NotifyName
  <2>8. QED BY <2>6, <2>7
<1>7. CASE sub = "honor"
  <2>1. x = TranslateHonor(raw, "bot")
      BY <1>1, <1>4, <1>7 DEF TranslateNotify
  <2>2. t = "qq_group"
      BY <1>7 DEF Templates, NotifyTypes
  <2>3. PICK event, source, blank : event = "honor_change" /\ source = SourceOf(t) /\ blank = Blank(event, source)
      OBVIOUS
  <2>4. /\ {"event_type", "source", "notice_type"} \subseteq DOMAIN blank
        /\ blank["event_type"] = event /\ blank["source"] = source
      BY <2>3, BlankFields
  <2>5. DOMAIN x = DOMAIN blank /\ x["event_type"] = event /\ x["source"] = source /\ x["notice_type"] = "notify"
      BY <1>3, <2>1, <2>2, <2>3, <2>4 DEF TranslateHonor
  <2>6. NoticeEvent(x, t, "honor_change", "notify")
      BY <2>3, <2>4, <2>5 DEF NoticeEvent
  <2>7. NotifyName(sub) = "honor_change" /\ sub # "new"
      BY <1>7 DEF NotifyName
  <2>8. QED BY <2>6, <2>7
<1>8. CASE sub = "title"
  <2>1. x = TranslateTitle(raw, "bot")
      BY <1>1, <1>4, <1>8 DEF TranslateNotify
  <2>2. t = "qq_group"
      BY <1>8 DEF Templates, NotifyTypes
  <2>3. PICK event, source, blank : event = "title_change" /\ source = SourceOf(t) /\ blank = Blank(event, source)
      OBVIOUS
  <2>4. /\ {"event_type", "source", "notice_type"} \subseteq DOMAIN blank
        /\ blank["event_type"] = event /\ blank["source"] = source
      BY <2>3, BlankFields
  <2>5. DOMAIN x = DOMAIN blank /\ x["event_type"] = event /\ x["source"] = source /\ x["notice_type"] = "notify"
      BY <1>3, <2>1, <2>2, <2>3, <2>4 DEF TranslateTitle
  <2>6. NoticeEvent(x, t, "title_change", "notify")
      BY <2>3, <2>4, <2>5 DEF NoticeEvent
  <2>7. NotifyName(sub) = "title_change" /\ sub # "new"
      BY <1>8 DEF NotifyName
  <2>8. QED BY <2>6, <2>7
<1>9. sub # "new"
    BY <1>1, <1>4 DEF TranslateNotify
<1>10. QED BY <1>5, <1>6, <1>7, <1>8, <1>9 DEF Templates, NotifyTypes

\* A supported event that has a public name in the template of its chat.
LEMMA ConfigurableMessage ==
    ASSUME NEW t \in Templates, NEW raw \in RawMessages(KindOf(t), {"u1"}),
           NEW e, e = Translate(raw, "bot"), e # None
    PROVE  Configurable(e, t)
<1>1. PICK kind : kind = KindOf(t)
    OBVIOUS
<1>2. kind \in {"group", "private"} /\ (kind = "group" <=> t = "qq_group")
    BY <1>1 DEF KindOf, Templates
<1>3. PICK segs \in Segments :
        raw = Overlay([post_type |-> "message", message_type |-> kind, user_id |-> "u1", message |-> segs,
                       role |-> "member"], InChat(kind))
  <2>1. raw \in RawMessages(kind, {"u1"})
      BY <1>1
  <2>2. PICK u \in {"u1"}, segs \in Segments :
          raw = Overlay([post_type |-> "message", message_type |-> kind, user_id |-> u, message |-> segs,
                         role |-> "member"], InChat(kind))
      BY <2>1 DEF RawMessages
  <2>3. u = "u1"
      BY <2>2
  <2>4. QED BY <2>2, <2>3
<1>4. PICK given : given = [post_type |-> "message", message_type |-> kind, user_id |-> "u1",
                            message |-> segs, role |-> "member"]
    OBVIOUS
<1>5. ChatObject(kind, raw, given)
    BY <1>3, <1>4 DEF ChatObject
<1>6. /\ Text(raw, "post_type") = "message" /\ Text(raw, "message_type") = kind
      /\ Text(raw, "user_id") = "u1" /\ GroupIn(raw) = IF kind = "group" THEN "g1" ELSE None
  <2>1. {"post_type", "message_type", "user_id"} \subseteq DOMAIN given /\ "group_id" \notin DOMAIN given
        /\ given["post_type"] = "message" /\ given["message_type"] = kind /\ given["user_id"] = "u1"
      BY <1>4
  <2>2. /\ {"post_type", "message_type", "user_id"} \subseteq DOMAIN raw /\ raw["post_type"] = "message"
        /\ raw["message_type"] = kind /\ raw["user_id"] = "u1"
        /\ kind = "group" => "group_id" \in DOMAIN raw /\ raw["group_id"] = "g1"
        /\ kind = "private" => "group_id" \notin DOMAIN raw
      BY <1>2, <1>5, <2>1, RawFields
  <2>3. QED BY <1>2, <2>2 DEF Text, GroupIn
<1>7. TranslateMessage(raw, "bot") # None
  <2>1. CASE TranslateMessage(raw, "bot") = None
    <3>1. e = None
        BY <1>6, <2>1 DEF Translate
    <3>2. QED BY <3>1
  <2>2. QED BY <2>1
<1>8. /\ e.event_type = "message" /\ e.mentions_self \in BOOLEAN /\ e.reply_targets_self \in BOOLEAN
      /\ e.source = EventSource(kind, "u1", GroupIn(raw))
    BY <1>6, <1>7, MessageFields
<1>9. e.source = SourceOf(t)
    BY <1>2, <1>6, <1>8 DEF SourceOf
<1>10. QED BY <1>8, <1>9 DEF Configurable

\* The surface of the public name of a notice is that of its notice type.
LEMMA NoticeAlias ==
    /\ DOMAIN Aliases.qq_private = {"message", "poke", "recall"}
    /\ \A y \in {"poke", "honor_change", "title_change", "lucky_king"} :
           Aliases.qq_group[y] = <<"notice", "notify">>
    /\ Aliases.qq_group["recall"] = <<"notice", "group_recall">>
    /\ Aliases.qq_group["member_join"] = <<"notice", "group_increase">>
    /\ Aliases.qq_group["member_leave"] = <<"notice", "group_decrease">>
    /\ Aliases.qq_group["admin_change"] = <<"notice", "group_admin">>
    /\ Aliases.qq_group["file_upload"] = <<"notice", "group_upload">>
    /\ Aliases.qq_group["mute_change"] = <<"notice", "group_ban">>
    /\ Aliases.qq_private["poke"] = <<"notice", "notify">>
    /\ Aliases.qq_private["recall"] = <<"notice", "friend_recall">>
BY DEF Aliases

\* The name of a notice stands for the surface of its type, if the form has it.
AliasMeets(t, name, type) ==
    name \in DOMAIN Aliases[t] => /\ name # "message" /\ type \in Noticed
                                  /\ Aliases[t][name] = <<"notice", type>>

\* The surface of the name of a notify.
LEMMA NotifyAlias ==
    ASSUME NEW t \in Templates, NEW sub \in NotifyTypes(t), sub # "new"
    PROVE  AliasMeets(t, NotifyName(sub), "notify")
<1>1. PICK name : name = NotifyName(sub)
    OBVIOUS
<1>2. CASE t = "qq_group"
  <2>1. name \in {"poke", "honor_change", "title_change", "lucky_king"}
      BY <1>1, <1>2 DEF NotifyTypes, NotifyName
  <2>2. QED BY <1>1, <1>2, <2>1, NoticeAlias DEF AliasMeets, Noticed
<1>3. CASE t = "qq_private"
  <2>1. name = "poke"
      BY <1>1, <1>3 DEF NotifyTypes, NotifyName
  <2>2. QED BY <1>1, <1>3, <2>1, NoticeAlias DEF AliasMeets, Noticed
<1>4. QED BY <1>2, <1>3 DEF Templates

\* The surface of the name of another notice.
LEMMA PlainAlias ==
    ASSUME NEW t \in Templates, NEW type \in PlainTypes(t), type # "essence"
    PROVE  AliasMeets(t, PlainName(type), type)
<1>1. PICK name : name = PlainName(type)
    OBVIOUS
<1>2. CASE t = "qq_group"
  <2>1. \/ name = "recall" /\ type = "group_recall"
        \/ name = "member_join" /\ type = "group_increase"
        \/ name = "member_leave" /\ type = "group_decrease"
        \/ name = "admin_change" /\ type = "group_admin"
        \/ name = "file_upload" /\ type = "group_upload"
        \/ name = "mute_change" /\ type = "group_ban"
      BY <1>1, <1>2 DEF PlainTypes, PlainName
  <2>2. QED BY <1>1, <1>2, <2>1, NoticeAlias DEF AliasMeets, Noticed
<1>3. CASE t = "qq_private"
  <2>1. \/ name = "recall" /\ type = "friend_recall"
        \/ name = "friend_added"
      BY <1>1, <1>3 DEF PlainTypes, PlainName
  <2>2. QED BY <1>1, <1>3, <2>1, NoticeAlias DEF AliasMeets, Noticed
<1>4. QED BY <1>2, <1>3 DEF Templates

\* A notice with a public name in the template is an event of the chat.
LEMMA ConfigurableNotice ==
    ASSUME NEW t \in Templates, NEW raw \in RawNotices(KindOf(t), {"u1"}),
           NEW e, e = Translate(raw, "bot"), e # None, PublicType(e) \in DOMAIN Aliases[t]
    PROVE  Configurable(e, t)
<1>1. PICK kind : kind = KindOf(t)
    OBVIOUS
<1>2. kind \in {"group", "private"} /\ (kind = "group" <=> t = "qq_group")
    BY <1>1 DEF KindOf, Templates
<1>3. PICK given : /\ NoticeIn(kind, raw, given)
                   /\ \/ \E sub \in NotifyTypes(t) : given = NotifyGiven(sub)
                      \/ \E type \in PlainTypes(t) : given = PlainGiven(type)
  <2>1. \/ \E sub \in NotifyTypes(t) :
             raw = Overlay(Overlay([post_type |-> "notice"], InChat(kind)), NotifyGiven(sub))
        \/ \E type \in PlainTypes(t) :
             raw = Overlay(Overlay([post_type |-> "notice"], InChat(kind)), PlainGiven(type))
    <3>1. PICK base : base = Overlay([post_type |-> "notice"], InChat(kind))
        OBVIOUS
    <3>2. \/ \E u \in {"u1"}, sub \in NotifyTypes(t) :
               raw = Overlay(base, [notice_type |-> "notify", sub_type |-> sub, user_id |-> u,
                                    target_id |-> "bot", honor_type |-> "talkative"])
          \/ \E u \in {"u1"}, type \in PlainTypes(t) :
               raw = Overlay(base, [notice_type |-> type, user_id |-> u, message_id |-> "m1", file |-> "f"])
      <4>1. CASE kind = "group"
          BY <1>1, <1>2, <3>1, <4>1 DEF RawNotices, NotifyTypes, PlainTypes
      <4>2. CASE kind = "private"
          BY <1>1, <1>2, <3>1, <4>2 DEF RawNotices, NotifyTypes, PlainTypes
      <4>3. QED BY <1>2, <4>1, <4>2
    <3>3. \/ \E sub \in NotifyTypes(t) : raw = Overlay(base, NotifyGiven(sub))
          \/ \E type \in PlainTypes(t) : raw = Overlay(base, PlainGiven(type))
        BY <3>2, Zenon DEF NotifyGiven, PlainGiven
    <3>4. QED BY <3>1, <3>3
  <2>2. CASE \E sub \in NotifyTypes(t) :
               raw = Overlay(Overlay([post_type |-> "notice"], InChat(kind)), NotifyGiven(sub))
    <3>1. PICK sub \in NotifyTypes(t) :
            raw = Overlay(Overlay([post_type |-> "notice"], InChat(kind)), NotifyGiven(sub))
        BY <2>2
    <3>2. DOMAIN NotifyGiven(sub) \cap {"post_type", "group_id", "operator_id"} = {}
        BY DEF NotifyGiven
    <3>3. QED BY <3>1, <3>2 DEF NoticeIn
  <2>3. CASE \E type \in PlainTypes(t) :
               raw = Overlay(Overlay([post_type |-> "notice"], InChat(kind)), PlainGiven(type))
    <3>1. PICK type \in PlainTypes(t) :
            raw = Overlay(Overlay([post_type |-> "notice"], InChat(kind)), PlainGiven(type))
        BY <2>3
    <3>2. DOMAIN PlainGiven(type) \cap {"post_type", "group_id", "operator_id"} = {}
        BY DEF PlainGiven
    <3>3. QED BY <3>1, <3>2 DEF NoticeIn
  <2>4. QED BY <2>1, <2>2, <2>3
<1>4. PICK x : x = TranslateNotice(raw, "bot")
    OBVIOUS
<1>5. Text(raw, "post_type") = "notice"
    BY <1>2, <1>3, NoticeFields DEF NoticeRead
<1>6. x # None /\ e = PostInit(x)
    BY <1>4, <1>5 DEF Translate
<1>7. PICK name, type : NoticeEvent(x, t, name, type) /\ AliasMeets(t, name, type)
  <2>1. CASE \E sub \in NotifyTypes(t) : given = NotifyGiven(sub)
    <3>1. PICK sub \in NotifyTypes(t) : given = NotifyGiven(sub)
        BY <2>1
    <3>2. sub # "new" /\ NoticeEvent(x, t, NotifyName(sub), "notify")
        BY <1>1, <1>3, <1>4, <1>6, <3>1, NotifyNotice
    <3>3. AliasMeets(t, NotifyName(sub), "notify")
        BY <3>2, NotifyAlias
    <3>4. QED BY <3>2, <3>3
  <2>2. CASE \E type \in PlainTypes(t) : given = PlainGiven(type)
    <3>1. PICK type \in PlainTypes(t) : given = PlainGiven(type)
        BY <2>2
    <3>2. type # "essence" /\ NoticeEvent(x, t, PlainName(type), type)
        BY <1>1, <1>3, <1>4, <1>6, <3>1, PlainNotice
    <3>3. AliasMeets(t, PlainName(type), type)
        BY <3>2, PlainAlias
    <3>4. QED BY <3>2, <3>3
  <2>3. QED BY <1>3, <2>1, <2>2
<1>8. e.event_type = name /\ e.source = SourceOf(t) /\ e.notice_type = type
  <2>1. {"event_type", "source", "notice_type"} \subseteq DOMAIN x
        /\ x.source = SourceOf(t) /\ x.notice_type = type /\ x.event_type = name
      BY <1>7 DEF NoticeEvent
  <2>2. e["event_type"] = x["event_type"] /\ e["source"] = x["source"] /\ e["notice_type"] = x["notice_type"]
      BY <1>6, <2>1, PostInitKeeps
  <2>3. QED BY <2>1, <2>2
<1>9. CASE name = "message"
  <2>1. "message" \in DOMAIN Aliases[t]
    <3>1. CASE t = "qq_group"
        BY <3>1 DEF Aliases
    <3>2. CASE t = "qq_private"
        BY <3>2 DEF Aliases
    <3>3. QED BY <3>1, <3>2 DEF Templates
  <2>2. QED BY <1>7, <1>9, <2>1 DEF AliasMeets
<1>10. CASE name # "message"
  <2>1. name \in DOMAIN Aliases[t]
      BY <1>8, <1>10 DEF PublicType, IsMessage
  <2>2. QED BY <1>7, <1>8, <1>10, <2>1 DEF AliasMeets, Configurable
<1>11. QED BY <1>9, <1>10

\* An event's own surface is the first candidate, or the second of a command.
LEMMA OwnCandidate ==
    ASSUME NEW t \in Templates, NEW e, Configurable(e, t), PublicType(e) \in DOMAIN Aliases[t],
           NEW known, known = EventFacts(e, {}), NEW chain, chain = SurfaceCandidates(known)
    PROVE  /\ known.channel_scope = ScopeOf(t) /\ known.is_bot_admin \in BOOLEAN
           /\ DOMAIN chain \in {1..1, 1..2, 1..3}
           /\ \/ chain[1] = Aliases[t][PublicType(e)]
              \/ chain[1] = Command /\ 2 \in DOMAIN chain /\ chain[2] = Aliases[t][PublicType(e)]
<1>1. /\ e.source.message_type = KindOf(t) /\ e.source.user_id = "u1"
      /\ t = "qq_group" => e.source.group_id = "g1"
    BY DEF Configurable, SourceOf, EventSource, KindOf, Templates
<1>2. known.channel_scope = ScopeOf(t)
    BY <1>1 DEF EventFacts, ChannelScope, ActorId, IsGroup, Platform, ScopeOf, KindOf, Templates
<1>3. known.is_bot_admin \in BOOLEAN
  <2>1. IsSharedAdmin({}, ActorId(e)) \in BOOLEAN
      BY DEF IsSharedAdmin
  <2>2. QED BY <2>1 DEF EventFacts
<1>4. /\ known.event_kind = e.event_type /\ known.scene = Scene(e) /\ known.notice_type = e.notice_type
      /\ known.mentions_self = e.mentions_self /\ known.reply_targets_self = e.reply_targets_self
    BY DEF EventFacts
<1>5. CASE e.event_type # "message"
  <2>1. e.notice_type \in Noticed /\ Aliases[t][e.event_type] = <<"notice", e.notice_type>>
      BY <1>5 DEF Configurable
  <2>2. e.notice_type # None
    <3>1. \A y \in Noticed : y # None
        BY MarksAssumption, Zenon DEF Noticed
    <3>2. QED BY <2>1, <3>1
  <2>3. chain = <<<<"notice", e.notice_type>>, <<"notice", "default">>>>
      BY <1>4, <1>5, <2>2 DEF SurfaceCandidates
  <2>4. DOMAIN chain = 1..2 /\ chain[1] = <<"notice", e.notice_type>>
      BY <2>3
  <2>5. PublicType(e) = e.event_type
      BY <1>5 DEF PublicType, IsMessage
  <2>6. QED BY <1>2, <1>3, <2>1, <2>4, <2>5
<1>6. CASE e.event_type = "message" /\ t = "qq_private"
  <2>1. Scene(e) = "private" /\ PublicType(e) = "message"
      BY <1>1, <1>6 DEF Scene, IsMessage, IsGroup, IsPrivate, KindOf, PublicType
  <2>2. Aliases[t]["message"] = <<"message", "private">>
      BY <1>6 DEF Aliases
  <2>3. CASE IsCommand(known.text)
    <3>1. chain = <<<<"message", "command">>, <<"message", "private">>, <<"message", "plain">>>>
        BY <1>4, <1>6, <2>1, <2>3 DEF SurfaceCandidates
    <3>2. DOMAIN chain = 1..3 /\ chain[1] = Command /\ chain[2] = <<"message", "private">>
        BY <3>1 DEF Command
    <3>3. QED BY <1>2, <1>3, <2>1, <2>2, <3>2
  <2>4. CASE ~ IsCommand(known.text)
    <3>1. chain = <<<<"message", "private">>, <<"message", "plain">>>>
        BY <1>4, <1>6, <2>1, <2>4 DEF SurfaceCandidates
    <3>2. DOMAIN chain = 1..2 /\ chain[1] = <<"message", "private">>
        BY <3>1
    <3>3. QED BY <1>2, <1>3, <2>1, <2>2, <3>2
  <2>5. QED BY <2>3, <2>4
<1>7. CASE e.event_type = "message" /\ t = "qq_group"
  <2>1. /\ Scene(e) = "group" /\ e.mentions_self \in BOOLEAN /\ e.reply_targets_self \in BOOLEAN
        /\ PublicType(e) = IF e.mentions_self THEN "message_mention"
                           ELSE IF e.reply_targets_self THEN "message_reply" ELSE "message"
      BY <1>1, <1>7 DEF Configurable, Scene, IsMessage, IsGroup, IsPrivate, KindOf, PublicType
  <2>2. /\ Aliases[t]["message"] = <<"message", "plain">>
        /\ Aliases[t]["message_mention"] = <<"message", "mention">>
        /\ Aliases[t]["message_reply"] = <<"message", "reply_to_bot">>
      BY <1>7 DEF Aliases
  <2>3. CASE e.mentions_self
    <3>1. chain = <<<<"message", "mention">>, <<"message", "plain">>>>
        BY <1>4, <1>7, <2>1, <2>3 DEF SurfaceCandidates
    <3>2. DOMAIN chain = 1..2 /\ chain[1] = <<"message", "mention">>
        BY <3>1
    <3>3. QED BY <1>2, <1>3, <2>1, <2>2, <2>3, <3>2
  <2>4. CASE ~ e.mentions_self /\ e.reply_targets_self
    <3>1. chain = <<<<"message", "reply_to_bot">>, <<"message", "plain">>>>
        BY <1>4, <1>7, <2>1, <2>4 DEF SurfaceCandidates
    <3>2. DOMAIN chain = 1..2 /\ chain[1] = <<"message", "reply_to_bot">>
        BY <3>1
    <3>3. QED BY <1>2, <1>3, <2>1, <2>2, <2>4, <3>2
  <2>5. CASE ~ e.mentions_self /\ ~ e.reply_targets_self /\ IsCommand(known.text)
    <3>1. chain = <<<<"message", "command">>, <<"message", "plain">>>>
        BY <1>4, <1>7, <2>1, <2>5 DEF SurfaceCandidates
    <3>2. DOMAIN chain = 1..2 /\ chain[1] = Command /\ chain[2] = <<"message", "plain">>
        BY <3>1 DEF Command
    <3>3. QED BY <1>2, <1>3, <2>1, <2>2, <2>5, <3>2
  <2>6. CASE ~ e.mentions_self /\ ~ e.reply_targets_self /\ ~ IsCommand(known.text)
    <3>1. chain = <<<<"message", "plain">>>>
        BY <1>4, <1>7, <2>1, <2>6 DEF SurfaceCandidates
    <3>2. DOMAIN chain = 1..1 /\ chain[1] = <<"message", "plain">>
        BY <3>1
    <3>3. QED BY <1>2, <1>3, <2>1, <2>2, <2>6, <3>2
  <2>7. QED BY <2>3, <2>4, <2>5, <2>6
<1>8. QED BY <1>5, <1>6, <1>7 DEF Templates

\* A form of at most two entries, an event of the chat it is for.
FormOfEvent(x) ==
    \E t \in Templates, n \in 0..2 :
    \E ids \in [1..n -> FormIds(t)], modes \in [1..2 -> FormModes],
       raw \in RawMessages(KindOf(t), {"u1"}) \cup RawNotices(KindOf(t), {"u1"}) :
        /\ n = 2 => ids[1] # ids[2]
        /\ x = [template |-> t, raw |-> raw, form |-> FormOf(ids, modes)]
FormInput == part = "form" => FormOfEvent(in)

\* Only ChooseForm makes such an input.
LEMMA FormStep == FormInput /\ [FunctionsNext]_inputs => FormInput'
<1>1. ASSUME ChooseForm PROVE FormOfEvent(in')
  <2>1. PICK t \in {"qq_group", "qq_private"} :
          \E ids \in SeqsUpTo(FormIds(t), 2), modes \in [1..2 -> {"record_only", "silent_drop"}],
             raw \in RawMessages(KindOf(t), {"u1"}) \cup RawNotices(KindOf(t), {"u1"}) :
              /\ Len(ids) = 2 => ids[1] # ids[2]
              /\ Choose("form", [template |-> t, raw |-> raw, form |-> FormOf(ids, modes)])
      BY <1>1, Zenon DEF ChooseForm
  <2>2. PICK ids \in SeqsUpTo(FormIds(t), 2), modes \in [1..2 -> {"record_only", "silent_drop"}],
             raw \in RawMessages(KindOf(t), {"u1"}) \cup RawNotices(KindOf(t), {"u1"}) :
              /\ Len(ids) = 2 => ids[1] # ids[2]
              /\ Choose("form", [template |-> t, raw |-> raw, form |-> FormOf(ids, modes)])
      BY <2>1, Zenon
  <2>3. in' = [template |-> t, raw |-> raw, form |-> FormOf(ids, modes)]
      BY <2>2 DEF Choose
  <2>4. PICK n \in 0..2 : ids \in [1..n -> FormIds(t)]
      BY DEF SeqsUpTo
  <2>5. n = 2 => ids[1] # ids[2]
    <3>1. Len(ids) = n
        BY <2>4
    <3>2. QED BY <2>2, <3>1
  <2>6. t \in Templates /\ modes \in [1..2 -> FormModes]
      BY DEF Templates, FormModes
  <2>7. QED BY <2>3, <2>4, <2>5, <2>6, Zenon DEF FormOfEvent
<1>2. ASSUME FormInput, UNCHANGED inputs PROVE FormInput'
    BY <1>2 DEF inputs, FormInput
<1>3. ASSUME FunctionsNext PROVE FormInput'
    BY <1>1, <1>3, OnlyItsAction DEF FormInput
<1>4. QED BY <1>2, <1>3

\* The decision about an event, when entry k decides about its surface.
DecidedBy(k, e, t, n, ids, modes, files) ==
    /\ t \in Templates /\ n \in 0..2 /\ ids \in [1..n -> FormIds(t)] /\ modes \in [1..2 -> FormModes]
    /\ n = 2 => ids[1] # ids[2]
    /\ files = [s \in {ScopeOf(t)} |-> FormFile(t, FormOf(ids, modes))]
    /\ Configurable(e, t) /\ PublicType(e) \in DOMAIN Aliases[t]
    /\ Deciding(k, Aliases[t][PublicType(e)], t, n, ids)

\* The mode of the decision is the one of the entry that decides.
LEMMA EntryDecides ==
    ASSUME NEW k, NEW e, NEW t, NEW n, NEW ids, NEW modes, NEW files,
           DecidedBy(k, e, t, n, ids, modes, files), NEW d, d = Route(e, files, {})
    PROVE  d.run_mode = modes[k]
<1>1. PICK S, form : S = Aliases[t][PublicType(e)] /\ form = FormOf(ids, modes)
    OBVIOUS
<1>2. /\ t \in Templates /\ n \in 0..2 /\ ids \in [1..n -> FormIds(t)] /\ modes \in [1..2 -> FormModes]
       /\ (n = 2 => ids[1] # ids[2]) /\ files = [s \in {ScopeOf(t)} |-> FormFile(t, form)]
       /\ Configurable(e, t) /\ PublicType(e) \in DOMAIN Aliases[t] /\ Deciding(k, S, t, n, ids)
    BY <1>1 DEF DecidedBy
<1>3. PICK known, conf, cs, m :
        /\ known = EventFacts(e, {}) /\ conf = StoredSurfaces(form, t) /\ cs = [i \in 1..n |-> [admission |-> Admits(modes[i])]]
        /\ m = modes[k]
    OBVIOUS
<1>4. PICK session : session = LoadSession(files, ScopeOf(t))
    OBVIOUS
<1>5. /\ Len(form) = n /\ \A i \in 1..n : form[i] = <<ids[i], [admission |-> Admits(modes[i])]>>
      /\ session # Raised /\ session # Missing
      /\ session.surfaces = [s \in DOMAIN conf |-> ParseSurface(conf[s])]
      /\ Command \notin DOMAIN conf
  <2>1. SessionRead(session, conf) /\ EntriesRead(form, n, ids, modes)
      BY <1>1, <1>3, <1>4, <1>2, FormSession
  <2>2. QED BY <2>1 DEF SessionRead, EntriesRead
<1>6. FormEntries(t, n, form, ids, cs)
    BY <1>3, <1>5, <1>2 DEF FormEntries
<1>7. S \in DOMAIN conf /\ conf[S] = cs[k]
    BY <1>3, <1>6, <1>2, StoredOwn
<1>8. k \in 1..n
    BY <1>2 DEF Deciding, OwnEntries
<1>9. PICK surface : surface = conf[S]
    OBVIOUS
<1>10. surface = [admission |-> Admits(m)] /\ m \in Modes
    BY <1>3, <1>7, <1>8, <1>9, <1>2 DEF FormModes, Modes
<1>11. Admitting(surface, m)
    BY <1>10 DEF Admitting
<1>12. PICK chain : chain = SurfaceCandidates(known)
    OBVIOUS
<1>13. /\ known.channel_scope = ScopeOf(t) /\ known.is_bot_admin \in BOOLEAN
       /\ DOMAIN chain \in {1..1, 1..2, 1..3}
       /\ chain[1] = S \/ (chain[1] = Command /\ 2 \in DOMAIN chain /\ chain[2] = S)
    BY <1>1, <1>3, <1>12, <1>2, OwnCandidate
<1>14. ResolveSurface(known, session).surface_id = S
    BY <1>5, <1>7, <1>12, <1>13, FirstHits
<1>15. S \in DOMAIN session.surfaces /\ session.surfaces[S] = ParseSurface(surface)
    BY <1>5, <1>7, <1>9
<1>16. session = LoadSession(files, known.channel_scope) /\ d = Route(e, files, {})
    BY <1>3, <1>4, <1>13
<1>17. d.run_mode = m
    BY <1>3, <1>5, <1>10, <1>11, <1>13, <1>14, <1>15, <1>16, Routes
<1>18. QED BY <1>3, <1>17

\* The console's form decides.
LEMMA FormHolds == ASSUME FormInput PROVE FormDecides
<1>1. SUFFICES ASSUME part = "form" PROVE FormDecides
    BY DEF FormDecides
<1>2. PICK t \in Templates, n \in 0..2 :
        \E ids \in [1..n -> FormIds(t)], modes \in [1..2 -> FormModes],
           raw \in RawMessages(KindOf(t), {"u1"}) \cup RawNotices(KindOf(t), {"u1"}) :
            /\ n = 2 => ids[1] # ids[2]
            /\ in = [template |-> t, raw |-> raw, form |-> FormOf(ids, modes)]
    BY <1>1, Zenon DEF FormInput, FormOfEvent
<1>3. PICK ids \in [1..n -> FormIds(t)], modes \in [1..2 -> FormModes],
           raw \in RawMessages(KindOf(t), {"u1"}) \cup RawNotices(KindOf(t), {"u1"}) :
            /\ n = 2 => ids[1] # ids[2]
            /\ in = [template |-> t, raw |-> raw, form |-> FormOf(ids, modes)]
    BY <1>2, Zenon
<1>4. PICK form, e : form = FormOf(ids, modes) /\ e = Translate(raw, "bot")
    OBVIOUS
<1>5. in.template = t /\ in.raw = raw /\ in.form = form
    BY <1>3, <1>4
<1>6. Len(ids) = n /\ Len(form) = n /\ DOMAIN form = 1..n
      /\ \A i \in 1..n : form[i] = <<ids[i], [admission |-> Admits(modes[i])]>>
    BY <1>4 DEF FormOf
<1>7. PICK type, alias : type = PublicType(e) /\ alias = Aliases[t]
    OBVIOUS
<1> DEFINE event == Translate(in.raw, "bot")
           names == Aliases[in.template]
           SurfaceOf(id) == IF Len(id) = 1 THEN names[id[1]] ELSE id
           d     == Route(event, [s \in {ScopeOf(in.template)} |-> FormFile(in.template, in.form)], {})
           own   == {i \in DOMAIN in.form : PublicType(event) \in DOMAIN names
                                             /\ SurfaceOf(in.form[i][1]) = names[PublicType(event)]}
           best  == {i \in own : Len(in.form[i][1]) = 2}
           entry == CHOOSE i \in IF best # {} THEN best ELSE own : TRUE
<1>8. SUFFICES ASSUME event # None, own # {}, best # {} \/ Cardinality(own) = 1
               PROVE  d.run_mode = in.form[entry][2].admission.default.mode
    BY Zenon DEF FormDecides
<1>9. e # None /\ type \in DOMAIN alias
    BY <1>4, <1>5, <1>7, <1>8
<1>10. \A i \in 1..n : SurfaceOf(in.form[i][1]) = IdOf(ids[i], t)
  <2> SUFFICES ASSUME NEW i \in 1..n PROVE SurfaceOf(in.form[i][1]) = IdOf(ids[i], t)
      OBVIOUS
  <2>1. in.form[i][1] = ids[i] /\ ids[i] \in FormIds(t) /\ names = alias
      BY <1>5, <1>6, <1>7
  <2>2. /\ Len(ids[i]) \in {1, 2}
        /\ Len(ids[i]) = 1 => IdOf(ids[i], t) = alias[ids[i][1]]
        /\ Len(ids[i]) = 2 => IdOf(ids[i], t) = ids[i]
      BY <1>7, <2>1, EntryId
  <2>3. QED BY <2>1, <2>2
<1>11. own = OwnEntries(alias[type], t, n, ids)
  <2>1. DOMAIN in.form = 1..n /\ names = alias /\ PublicType(event) = type
      BY <1>4, <1>5, <1>6, <1>7
  <2> HIDE DEF SurfaceOf, names, event
  <2>2. QED BY <1>9, <1>10, <2>1 DEF OwnEntries
<1>12. best = {i \in own : Len(ids[i]) = 2}
  <2>1. \A i \in own : i \in 1..n
    <3> HIDE DEF own
    <3>1. QED BY <1>11 DEF OwnEntries
  <2>2. \A i \in 1..n : in.form[i][1] = ids[i]
      BY <1>5, <1>6
  <2> HIDE DEF own
  <2>3. QED BY <2>1, <2>2
<1>13. d = Route(e, [s \in {ScopeOf(t)} |-> FormFile(t, form)], {})
    BY <1>4, <1>5
<1> HIDE DEF own, best, SurfaceOf, event, names, d
<1>14. Deciding(entry, alias[type], t, n, ids)
  <2>1. entry \in IF best # {} THEN best ELSE own
      BY <1>8
  <2>2. CASE best # {}
      BY <1>11, <1>12, <2>1, <2>2 DEF Deciding
  <2>3. CASE best = {}
    <3>1. entry \in own /\ Cardinality(own) = 1
        BY <1>8, <2>1, <2>3
    <3>2. IsFiniteSet(own)
      <4>1. IsFiniteSet(1..n) /\ own \subseteq 1..n
          BY <1>11, FS_Interval DEF OwnEntries
      <4>2. QED BY <4>1, FS_Subset
    <3>3. PICK x : own = {x}
        BY <3>1, <3>2, FS_Singleton
    <3>4. own = {entry}
      <4>1. PICK k : k = entry
          OBVIOUS
      <4>2. k \in own
          BY <3>1, <4>1
      <4>3. own = {k}
          BY <3>3, <4>2
      <4>4. QED BY <4>1, <4>3
    <3>5. QED BY <1>11, <3>1, <3>4 DEF Deciding
  <2>4. QED BY <2>2, <2>3
<1> HIDE DEF entry
<1>15. PICK k, S, r : k = entry /\ S = alias[type] /\ r = d
    OBVIOUS
<1>16. k \in 1..n
    BY <1>14, <1>15 DEF Deciding, OwnEntries
<1>17. Configurable(e, t)
    BY <1>3, <1>4, <1>7, <1>9, ConfigurableMessage, ConfigurableNotice
<1>18. r.run_mode = modes[k]
  <2>1. PICK files : files = [s \in {ScopeOf(t)} |-> FormFile(t, form)]
      OBVIOUS
  <2>2. r = Route(e, files, {})
      BY <1>13, <1>15, <2>1
  <2>3. DecidedBy(k, e, t, n, ids, modes, files)
      BY <1>2, <1>3, <1>4, <1>7, <1>9, <1>14, <1>15, <1>17, <2>1 DEF DecidedBy
  <2>4. QED BY <2>2, <2>3, EntryDecides
<1>19. in.form[k][2].admission.default.mode = modes[k]
    BY <1>5, <1>6, <1>16 DEF Admits
<1>20. QED BY <1>15, <1>18, <1>19

\* The decisions of a session, for every limit of the model.
THEOREM SessionsDecideTheorem == FunctionsSpec => []SessionsDecide
<1>1. FunctionsInit => CasesInput /\ GroupInput /\ FormInput
    BY DEF FunctionsInit, CasesInput, GroupInput, FormInput
<1>2. CasesInput /\ GroupInput /\ FormInput /\ [FunctionsNext]_inputs
        => CasesInput' /\ GroupInput' /\ FormInput'
    BY CasesStep, GroupStep, FormStep
<1>3. CasesInput /\ GroupInput /\ FormInput => SessionsDecide
    BY CasesWinner, GroupHost, FormHolds DEF SessionsDecide
<1>4. QED BY <1>1, <1>2, <1>3, PTL DEF FunctionsSpec

=============================================================================
