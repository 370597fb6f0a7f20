------------------------ MODULE ThreadPipelineProofs ------------------------
(* Proofs about ThreadPipeline: typing, when apply_to_thread is safe, the   *)
(* message a run answers, and which threads have nothing unsaved.           *)
EXTENDS ThreadPipeline, FiniteSetTheorems, TLAPS

\* A thread record built from parts of the right type is a ThreadState.
LEMMA ThreadType ==
    ASSUME NEW m \in Seq(Messages), NEW s \in SUBSET Messages, NEW l \in Nat
    PROVE /\ Thread(m, s, l) \in ThreadStates
          /\ Thread(m, s, l).msgs = m /\ Thread(m, s, l).summary = s /\ Thread(m, s, l).last = l
BY DEF Thread, ThreadStates

\* The parts of a ThreadState have the types of its fields.
LEMMA ThreadParts ==
    ASSUME NEW th \in ThreadStates
    PROVE th.msgs \in Seq(Messages) /\ th.summary \in SUBSET Messages /\ th.last \in Nat
BY DEF ThreadStates

LEMMA MessageType ==
    ASSUME NEW w \in Writers
    PROVE User(w) \in Messages /\ Reply(w) \in Messages
BY DEF User, Reply, Messages

\* Appending keeps what was there.
LEMMA AppendKeeps ==
    ASSUME NEW s \in Seq(Messages), NEW m \in Messages
    PROVE /\ Append(s, m) \in Seq(Messages)
          /\ Len(Append(s, m)) = Len(s) + 1
          /\ \A i \in 1..Len(s) : Append(s, m)[i] = s[i]
OBVIOUS

LEMMA LoadedType ==
    ASSUME TypeOK, NEW t \in Threads, NEW o \in Objects
    PROVE StateFromRecord(t) \in ThreadStates /\ Loaded(t, o) \in ThreadStates
<1>1. NewThread \in ThreadStates
  BY ThreadType DEF NewThread, Thread, ThreadStates
<1>2. StateFromRecord(t) \in ThreadStates
  BY <1>1 DEF StateFromRecord, TypeOK
<1> QED
  BY <1>2 DEF Loaded, TypeOK

LEMMA AppendedType ==
    ASSUME TypeOK, NEW r \in Runs, Active(r)
    PROVE /\ obj[held[r]] \in ThreadStates
          /\ Appended(r) \in Seq(Messages)
          /\ Len(Appended(r)) = Len(obj[held[r]].msgs) + 1
<1>1. obj[held[r]] \in ThreadStates
  BY DEF TypeOK
<1>2. obj[held[r]].msgs \in Seq(Messages)
  BY <1>1, ThreadParts
<1>3. r \in Writers
  BY DEF Writers
<1> QED
  BY <1>1, <1>2, <1>3, MessageType, AppendKeeps DEF Appended

-----------------------------------------------------------------------------
(* Typing.                                                                  *)

LEMMA TypeInit == Init => TypeOK
<1> SUFFICES ASSUME Init PROVE TypeOK
  OBVIOUS
<1>1. NewThread \in ThreadStates
  BY ThreadType DEF NewThread, Thread, ThreadStates
<1> QED
  BY <1>1 DEF Init, TypeOK, Active, Suspended, Marking, Ended

LEMMA TypeNext ==
    ASSUME TypeOK, [Next]_vars
    PROVE TypeOK'
<1> USE PipelineAssumption
<1>0. CASE UNCHANGED vars
  BY <1>0 DEF vars, data, TypeOK, Active
<1>1. ASSUME NEW r \in Runs, HandleEvent(r) PROVE TypeOK'
  <2>1. PICK o \in Objects, next \in {"preparing", "failed"} :
          /\ obj' = [obj EXCEPT ![o] = Raised(Loaded(ThreadOf[r], o), Stamp[r])]
          /\ cache' = [cache EXCEPT ![ThreadOf[r]] = o]
          /\ held' = [held EXCEPT ![r] = IF next = "failed" THEN None ELSE o]
          /\ pc' = [pc EXCEPT ![r] = next]
    BY <1>1 DEF HandleEvent
  <2>2. r \in Writers /\ ThreadOf[r] \in Threads /\ Stamp[r] \in Nat
    BY DEF Writers
  <2>3. Loaded(ThreadOf[r], o) \in ThreadStates
    BY <2>2, LoadedType
  <2>4. Raised(Loaded(ThreadOf[r], o), Stamp[r]) \in ThreadStates
    BY <2>2, <2>3, ThreadParts, ThreadType DEF Raised
  <2>5. obj' \in [Objects -> ThreadStates]
    BY <2>1, <2>4 DEF TypeOK
  <2>6. cache' \in [Threads -> Objects \cup {None}] /\ held' \in [Runs -> Objects \cup {None}]
    BY <2>1, <2>2 DEF TypeOK
  <2>7. pc' \in [Runs -> {"idle"} \cup Suspended \cup Marking \cup Ended]
    BY <2>1 DEF TypeOK, Suspended, Ended
  <2>8. \A q \in Runs : Active(q)' => held'[q] \in Objects
    BY <2>1 DEF TypeOK, Active, Suspended, Marking
  <2> QED
    BY <1>1, <2>5, <2>6, <2>7, <2>8 DEF TypeOK, HandleEvent
<1>2. ASSUME NEW r \in Runs, RecordMessage(r) PROVE TypeOK'
  <2> DEFINE th == Thread(Appended(r), obj[held[r]].summary, Stamp[r])
  <2>1. Active(r) /\ held[r] \in Objects /\ ThreadOf[r] \in Threads /\ Stamp[r] \in Nat
    BY <1>2 DEF RecordMessage, Active, Suspended, TypeOK, Writers
  <2>2. th \in ThreadStates
    BY <2>1, AppendedType, ThreadParts, ThreadType
  <2> HIDE DEF th
  <2>3. /\ obj' = [obj EXCEPT ![held[r]] = th]
        /\ cache' = [cache EXCEPT ![ThreadOf[r]] = held[r]]
        /\ store' = [store EXCEPT ![ThreadOf[r]] = th]
        /\ pc' = [pc EXCEPT ![r] = "finishing"]
        /\ UNCHANGED <<dropped, held, snap, kept, context, sent, notes, torn>>
    BY <1>2 DEF RecordMessage, Save, th
  <2> QED
    BY <2>1, <2>2, <2>3 DEF TypeOK, Active, Suspended, Marking
<1>3. ASSUME NEW r \in Runs, CompactNow(r) PROVE TypeOK'
  <2>1. Active(r) /\ held[r] \in Objects /\ ThreadOf[r] \in Threads /\ Stamp[r] \in Nat
    BY <1>3 DEF CompactNow, Active, Suspended, TypeOK, Writers
  <2>2. PICK u \in Seq(Messages) :
          /\ obj' = [obj EXCEPT ![held[r]] = Thread(u, obj[held[r]].summary, Stamp[r])]
          /\ context' = [context EXCEPT ![r] = u]
          /\ dropped' = [dropped EXCEPT ![ThreadOf[r]] = @ \cup (Elements(Appended(r)) \ Elements(u))]
    BY <1>3 DEF CompactNow, Compactions
  <2>3. Thread(u, obj[held[r]].summary, Stamp[r]) \in ThreadStates
    BY <2>1, AppendedType, ThreadParts, ThreadType
  <2>4. Elements(Appended(r)) \subseteq Messages
    BY <2>1, AppendedType DEF Elements
  <2>5. pc' = [pc EXCEPT ![r] = "agent"] /\ UNCHANGED <<cache, store, held, snap, kept, sent, notes, torn>>
    BY <1>3 DEF CompactNow
  <2>6. obj' \in [Objects -> ThreadStates] /\ context' \in [Runs -> Seq(Messages)]
    BY <2>1, <2>2, <2>3 DEF TypeOK
  <2>7. dropped' \in [Threads -> SUBSET Messages]
    BY <2>1, <2>2, <2>4 DEF TypeOK
  <2> QED
    BY <2>1, <2>5, <2>6, <2>7 DEF TypeOK, Active, Suspended, Marking
<1>4. ASSUME NEW r \in Runs, CompactBegin(r) PROVE TypeOK'
  <2> DEFINE th == Thread(Appended(r), obj[held[r]].summary, Stamp[r])
  <2>1. Active(r) /\ held[r] \in Objects /\ ThreadOf[r] \in Threads /\ Stamp[r] \in Nat
    BY <1>4 DEF CompactBegin, Active, Suspended, TypeOK, Writers
  <2>2. th \in ThreadStates
    BY <2>1, AppendedType, ThreadParts, ThreadType
  <2> HIDE DEF th
  <2>3. PICK u \in Seq(Messages) : kept' = [kept EXCEPT ![r] = u]
    BY <1>4 DEF CompactBegin, Compactions
  <2>4. /\ obj' = [obj EXCEPT ![held[r]] = th]
        /\ snap' = [snap EXCEPT ![r] = th]
        /\ pc' = [pc EXCEPT ![r] = "compacting"]
        /\ UNCHANGED <<cache, store, dropped, held, context, sent, notes, torn>>
    BY <1>4 DEF CompactBegin, th
  <2> QED
    BY <2>1, <2>2, <2>3, <2>4 DEF TypeOK, Active, Suspended, Marking
<1>5. ASSUME NEW r \in Runs, CompactEnd(r) PROVE TypeOK'
  <2>1. Active(r) /\ held[r] \in Objects /\ ThreadOf[r] \in Threads
    BY <1>5 DEF CompactEnd, Active, Suspended, TypeOK, Writers
  <2>2. snap[r] \in ThreadStates /\ kept[r] \in Seq(Messages) /\ obj[held[r]] \in ThreadStates
    BY <2>1 DEF TypeOK
  <2>3. Lost(r) \subseteq Messages
    BY <2>2, ThreadParts DEF Lost, Elements
  <2>4. PICK s \in SUBSET Messages :
          obj' = IF Matches(r)
                 THEN [obj EXCEPT ![held[r]] = Thread(kept[r], s, obj[held[r]].last)] ELSE obj
    <3>1. snap[r].summary \in SUBSET Messages /\ snap[r].summary \cup Lost(r) \in SUBSET Messages
      BY <2>2, <2>3, ThreadParts
    <3> QED
      BY <1>5, <3>1 DEF CompactEnd
  <2>5. Thread(kept[r], s, obj[held[r]].last) \in ThreadStates
    BY <2>2, ThreadParts, ThreadType
  <2>6. obj' \in [Objects -> ThreadStates]
    BY <2>1, <2>4, <2>5 DEF TypeOK
  <2>7. dropped' \in [Threads -> SUBSET Messages]
    BY <1>5, <2>1, <2>3 DEF CompactEnd, TypeOK
  <2>8. /\ context' = [context EXCEPT ![r] = kept[r]] /\ pc' = [pc EXCEPT ![r] = "agent"]
        /\ UNCHANGED <<cache, store, held, snap, kept, sent, notes>>
    BY <1>5 DEF CompactEnd
  <2>9. torn' \subseteq Threads
    BY <1>5, <2>1 DEF CompactEnd, TypeOK
  <2> QED
    BY <2>1, <2>2, <2>6, <2>7, <2>8, <2>9 DEF TypeOK, Active, Suspended, Marking
<1>6. ASSUME NEW r \in Runs, Deliver(r) PROVE TypeOK'
  <2>1. Active(r) /\ held[r] \in Objects /\ ThreadOf[r] \in Threads /\ Stamp[r] \in Nat /\ r \in Writers
    BY <1>6 DEF Deliver, Active, Suspended, TypeOK, Writers
  <2>2. PICK D \in SUBSET Threads :
          \E new \in Allocations({t \in D \ {ThreadOf[r]} : cache[t] = None}) : DeliverTo(r, D, new)
    BY <1>6 DEF Deliver
  <2>3. PICK new \in [{t \in D \ {ThreadOf[r]} : cache[t] = None} -> Free] : DeliverTo(r, D, new)
    BY <2>2 DEF Allocations
  <2>4. OwnThread(r, D) \in ThreadStates
    <3>1. obj[held[r]] \in ThreadStates
      BY <2>1 DEF TypeOK
    <3>2. Append(obj[held[r]].msgs, Reply(r)) \in Seq(Messages)
      BY <2>1, <3>1, ThreadParts, MessageType, AppendKeeps
    <3> QED
      BY <2>1, <3>1, <3>2, ThreadParts, ThreadType DEF OwnThread
  <2>5. \A t \in Threads : OtherThread(r, t) \in ThreadStates
    <3> SUFFICES ASSUME NEW t \in Threads PROVE OtherThread(r, t) \in ThreadStates
      OBVIOUS
    <3> DEFINE old == IF cache[t] = None THEN StateFromRecord(t) ELSE obj[cache[t]]
    <3>2. old \in ThreadStates
      <4>1. StateFromRecord(t) \in ThreadStates
        BY <2>1, LoadedType
      <4>2. cache[t] # None => obj[cache[t]] \in ThreadStates
        BY DEF TypeOK
      <4> QED
        BY <4>1, <4>2
    <3> HIDE DEF old
    <3>3. Append(old.msgs, Reply(r)) \in Seq(Messages)
      BY <2>1, <3>2, ThreadParts, MessageType, AppendKeeps
    <3>4. OtherThread(r, t) = Thread(Append(old.msgs, Reply(r)), old.summary, Stamp[r])
      BY DEF OtherThread, old
    <3>5. old.summary \in SUBSET Messages
      BY <3>2, ThreadParts
    <3>6. Thread(Append(old.msgs, Reply(r)), old.summary, Stamp[r]) \in ThreadStates
      BY <2>1, <3>3, <3>5, ThreadType
    <3> QED
      BY <3>4, <3>6
  <2>6. obj' \in [Objects -> ThreadStates]
    <3>1. \A o \in Objects : (\E t \in D \ {ThreadOf[r]} : Destination(t, new) = o) =>
            (CHOOSE t \in D \ {ThreadOf[r]} : Destination(t, new) = o) \in Threads
      OBVIOUS
    <3>2. \A o \in Objects : obj'[o] \in ThreadStates
      BY <2>3, <2>4, <2>5, <3>1 DEF DeliverTo, TypeOK
    <3>3. obj' = [o \in Objects |-> obj'[o]]
      BY <2>3 DEF DeliverTo
    <3> QED
      BY <3>2, <3>3
  <2>7. cache' \in [Threads -> Objects \cup {None}]
    BY <2>1, <2>3 DEF DeliverTo, Destination, Free, TypeOK
  <2>8. store' \in [Threads -> ThreadStates \cup {None}]
    BY <2>3, <2>4, <2>5 DEF DeliverTo, TypeOK
  <2>9. sent' \in [Runs -> SUBSET Threads]
    BY <2>3 DEF DeliverTo, TypeOK
  <2>10. pc' = [pc EXCEPT ![r] = "finishing"] /\ UNCHANGED <<dropped, held, snap, kept, context, notes, torn>>
    BY <1>6 DEF Deliver
  <2> QED
    BY <2>1, <2>6, <2>7, <2>8, <2>9, <2>10 DEF TypeOK, Active, Suspended, Marking
<1>7. ASSUME NEW r \in Runs, Raise(r) PROVE TypeOK'
  BY <1>7 DEF Raise, data, TypeOK, Active, Suspended, Marking
<1>8. ASSUME NEW r \in Runs, SaveThreadSafely(r) PROVE TypeOK'
  <2>1. held[r] \in Objects /\ obj[held[r]] \in ThreadStates /\ ThreadOf[r] \in Threads
    BY <1>8 DEF SaveThreadSafely, TypeOK, Active, Suspended, Writers
  <2> QED
    BY <1>8, <2>1 DEF SaveThreadSafely, Save, TypeOK, Active, Suspended, Marking
<1>9. ASSUME NEW r \in Runs, FinishRun(r) PROVE TypeOK'
  BY <1>9 DEF FinishRun, data, TypeOK, Active, Suspended, Marking, Ended
<1>10. ASSUME NEW n \in Notes, Notify(n) PROVE TypeOK'
  <2>1. n \in Writers /\ ThreadOf[n] \in Threads /\ Stamp[n] \in Nat
    BY DEF Writers
  <2>2. PICK o \in Objects :
          LET th == Thread(Append(Loaded(ThreadOf[n], o).msgs, Reply(n)), Loaded(ThreadOf[n], o).summary, Stamp[n])
          IN /\ obj' = [obj EXCEPT ![o] = th]
             /\ store' = [store EXCEPT ![ThreadOf[n]] = th]
             /\ cache' = [cache EXCEPT ![ThreadOf[n]] = o]
    BY <1>10 DEF Notify
  <2> DEFINE th == Thread(Append(Loaded(ThreadOf[n], o).msgs, Reply(n)), Loaded(ThreadOf[n], o).summary, Stamp[n])
  <2>3. th \in ThreadStates
    <3>1. Loaded(ThreadOf[n], o) \in ThreadStates
      BY <2>1, LoadedType
    <3>2. Append(Loaded(ThreadOf[n], o).msgs, Reply(n)) \in Seq(Messages)
      BY <2>1, <3>1, ThreadParts, MessageType, AppendKeeps
    <3> QED
      BY <2>1, <3>1, <3>2, ThreadParts, ThreadType
  <2>4. obj' = [obj EXCEPT ![o] = th] /\ store' = [store EXCEPT ![ThreadOf[n]] = th]
        /\ cache' = [cache EXCEPT ![ThreadOf[n]] = o]
    BY <2>2
  <2> HIDE DEF th
  <2>5. notes' = notes \cup {n} /\ UNCHANGED <<dropped, pc, held, snap, kept, context, sent, torn>>
    BY <1>10 DEF Notify
  <2> QED
    BY <2>1, <2>3, <2>4, <2>5 DEF TypeOK, Active
<1>11. ASSUME ListThreads PROVE TypeOK'
  <2>1. PICK new \in [{t \in Threads : store[t] # None} -> Free] :
          /\ cache' = [t \in Threads |-> IF store[t] # None THEN new[t] ELSE cache[t]]
          /\ obj' = [o \in Objects |->
                IF \E t \in DOMAIN new : new[t] = o
                THEN store[CHOOSE t \in DOMAIN new : new[t] = o] ELSE obj[o]]
          /\ torn' \subseteq torn \cup DOMAIN new
    BY <1>11 DEF ListThreads, Allocations
  <2>2. cache' \in [Threads -> Objects \cup {None}]
    BY <2>1 DEF TypeOK, Free
  <2>3. obj' \in [Objects -> ThreadStates]
    BY <2>1 DEF TypeOK
  <2>4. torn' \subseteq Threads
    BY <2>1 DEF TypeOK
  <2> QED
    BY <1>11, <2>2, <2>3, <2>4 DEF ListThreads, TypeOK, Active
<1>12. ASSUME Crash PROVE TypeOK'
  BY <1>12 DEF Crash, TypeOK, Active, Suspended, Marking, Ended
<1> QED
  BY <1>0, <1>1, <1>2, <1>3, <1>4, <1>5, <1>6, <1>7, <1>8, <1>9, <1>10, <1>11, <1>12 DEF Next

\* ThreadPipeline always has states of the declared types.
THEOREM TypeTheorem == Spec => []TypeOK
<1>1. TypeOK /\ [Next]_vars => TypeOK'
  BY TypeNext
<1> QED
  BY TypeInit, <1>1, PTL DEF Spec

-----------------------------------------------------------------------------
(* SnapshotIsPrefix is inductive.                                           *)

SnapshotOK(q) ==
    pc[q] = "compacting" =>
        /\ snap[q].last = Stamp[q]
        /\ obj[held[q]].last = Stamp[q] => ExtendsSnapshot(q) \/ Shared(q)

\* Events and notifications that have come stay come.
LEMMA BegunGrows == TypeOK /\ [Next]_vars => Begun \subseteq Begun'
<1> SUFFICES ASSUME TypeOK, [Next]_vars PROVE Begun \subseteq Begun'
  OBVIOUS
<1>f. ASSUME notes \subseteq notes', NEW r \in Runs, pc'[r] # "idle", \A q \in Runs \ {r} : pc'[q] = pc[q]
      PROVE  Begun \subseteq Begun'
  BY <1>f DEF Begun
<1>0. CASE UNCHANGED vars
  BY <1>0 DEF vars, Begun
<1>1. ASSUME NEW r \in Runs, HandleEvent(r) PROVE Begun \subseteq Begun'
  BY <1>1, <1>f DEF HandleEvent, TypeOK
<1>2. ASSUME NEW r \in Runs,
             RecordMessage(r) \/ CompactNow(r) \/ CompactBegin(r) \/ CompactEnd(r) \/ Deliver(r)
      PROVE  Begun \subseteq Begun'
  <2>1. PICK next \in {"finishing", "agent", "compacting"} : pc' = [pc EXCEPT ![r] = next] /\ notes' = notes
    BY <1>2 DEF RecordMessage, CompactNow, CompactBegin, CompactEnd, Deliver
  <2> QED
    BY <1>f, <2>1 DEF TypeOK
<1>3. ASSUME NEW r \in Runs, Raise(r) \/ SaveThreadSafely(r) \/ FinishRun(r)
      PROVE  Begun \subseteq Begun'
  <2>1. PICK next \in {"crashed", "failing", "completed", "failed"} : pc' = [pc EXCEPT ![r] = next] /\ notes' = notes
    BY <1>3 DEF Raise, SaveThreadSafely, FinishRun
  <2> QED
    BY <1>f, <2>1 DEF TypeOK
<1>4. ASSUME NEW n \in Notes, Notify(n) PROVE Begun \subseteq Begun'
  BY <1>4 DEF Notify, Begun
<1>5. CASE ListThreads
  BY <1>5 DEF ListThreads, Begun
<1>6. CASE Crash
  BY <1>6 DEF Crash, Begun
<1> QED
  BY <1>0, <1>1, <1>2, <1>3, <1>4, <1>5, <1>6 DEF Next

\* A step that leaves a compacting run alone keeps its snapshot valid if it
\* leaves the thread alone too, or puts another time on it, or the run shares
\* its second now.
LEMMA SnapshotFrame ==
    ASSUME NEW q \in Runs, SnapshotOK(q), pc'[q] = "compacting" => pc[q] = "compacting",
           snap'[q] = snap[q], held'[q] = held[q], Begun \subseteq Begun',
           pc[q] = "compacting" =>
              \/ obj'[held[q]] = obj[held[q]] \/ obj'[held[q]].last # Stamp[q]
              \/ \E w \in Begun' \ {q} : Stamp[w] = Stamp[q]
    PROVE SnapshotOK(q)'
<1>1. Shared(q) => Shared(q)'
  BY DEF Shared
<1>2. (\E w \in Begun' \ {q} : Stamp[w] = Stamp[q]) => Shared(q)'
  BY DEF Shared
<1> QED
  BY <1>1, <1>2 DEF SnapshotOK, ExtendsSnapshot

\* Raising the time of a thread keeps its messages.
LEMMA RaisedIs ==
    ASSUME NEW th \in ThreadStates, NEW n \in Nat
    PROVE Raised(th, n) = th \/ Raised(th, n).last = n
<1>1. CASE n > th.last
  BY <1>1, ThreadParts, ThreadType DEF Raised
<1>2. CASE ~(n > th.last)
  <2>1. Raised(th, n) = Thread(th.msgs, th.summary, th.last)
    BY <1>2 DEF Raised
  <2>2. th = [msgs |-> th.msgs, summary |-> th.summary, last |-> th.last]
    BY DEF ThreadStates
  <2> QED
    BY <2>1, <2>2 DEF Thread
<1> QED
  BY <1>1, <1>2

LEMMA SnapshotNext ==
    ASSUME TypeOK, SnapshotIsPrefix, [Next]_vars
    PROVE SnapshotIsPrefix'
<1> USE PipelineAssumption
<1> SUFFICES ASSUME NEW q \in Runs PROVE SnapshotOK(q)'
  BY DEF SnapshotIsPrefix, SnapshotOK
<1>a. SnapshotOK(q)
  BY DEF SnapshotIsPrefix, SnapshotOK
<1>b. q \in Writers /\ (pc[q] = "compacting" => held[q] \in Objects)
  BY DEF Writers, TypeOK, Active, Suspended
<1>c. Begun \subseteq Begun'
  BY BegunGrows
\* What another run or notification does puts another time on the thread, or
\* shares the second of q.
<1>d. ASSUME NEW w \in Begun', w # q PROVE Stamp[w] # Stamp[q] \/ \E v \in Begun' \ {q} : Stamp[v] = Stamp[q]
  BY <1>d
<1>e. \A r \in Runs : pc'[r] # "idle" => r \in Begun'
  BY DEF Begun
<1>0. CASE UNCHANGED vars
  BY <1>0, <1>a DEF vars, data, SnapshotOK, ExtendsSnapshot, Shared, Begun
<1>1. ASSUME NEW r \in Runs, HandleEvent(r) PROVE SnapshotOK(q)'
  <2>1. PICK o \in Objects, next \in {"preparing", "failed"} :
          /\ GetOrCreate(ThreadOf[r], o)
          /\ obj' = [obj EXCEPT ![o] = Raised(Loaded(ThreadOf[r], o), Stamp[r])]
          /\ held' = [held EXCEPT ![r] = IF next = "failed" THEN None ELSE o]
          /\ pc' = [pc EXCEPT ![r] = next]
    BY <1>1 DEF HandleEvent
  <2>2. pc[r] = "idle" /\ snap' = snap
    BY <1>1 DEF HandleEvent
  <2>3. CASE q = r
    BY <2>1, <2>3 DEF SnapshotOK, TypeOK
  <2>4. CASE q # r
    <3>1. pc'[q] = pc[q] /\ held'[q] = held[q]
      BY <2>1, <2>4 DEF TypeOK
    <3>2. ASSUME pc[q] = "compacting"
          PROVE \/ obj'[held[q]] = obj[held[q]] \/ obj'[held[q]].last # Stamp[q]
                \/ \E w \in Begun' \ {q} : Stamp[w] = Stamp[q]
      <4>1. CASE o # held[q]
        BY <2>1, <4>1, <3>2, <1>b DEF TypeOK
      <4>2. CASE o = held[q]
        <5>1. o \notin Free
          BY <4>2 DEF Free
        <5>2. cache[ThreadOf[r]] = o /\ cache[ThreadOf[r]] # None
          BY <2>1, <5>1 DEF GetOrCreate
        <5>3. Loaded(ThreadOf[r], o) = obj[o]
          BY <5>2 DEF Loaded
        <5>4. obj'[o] = Raised(obj[o], Stamp[r])
          BY <2>1, <5>3 DEF TypeOK
        <5>5. obj[o] \in ThreadStates /\ Stamp[r] \in Nat /\ r \in Writers
          BY DEF TypeOK, Writers
        <5>6. Stamp[r] # Stamp[q] \/ \E w \in Begun' \ {q} : Stamp[w] = Stamp[q]
          BY <1>d, <1>e, <2>1, <2>4 DEF TypeOK
        <5>7. obj'[o] = obj[o] \/ obj'[o].last = Stamp[r]
          BY <5>4, <5>5, RaisedIs
        <5> QED
          BY <4>2, <5>6, <5>7
      <4> QED
        BY <4>1, <4>2
    <3> QED
      BY <1>a, <1>c, <2>2, <3>1, <3>2, SnapshotFrame
  <2> QED
    BY <2>3, <2>4
\* The actions by which run r writes th, with its own time, to its thread.
<1>w. ASSUME NEW r \in Runs, NEW th, q # r, held[r] \in Objects, th.last = Stamp[r],
             obj' = [obj EXCEPT ![held[r]] = th], pc'[r] # "idle",
             pc'[q] = pc[q], snap'[q] = snap[q], held' = held
      PROVE SnapshotOK(q)'
  <2>1. Stamp[r] # Stamp[q] \/ \E w \in Begun' \ {q} : Stamp[w] = Stamp[q]
    BY <1>w, <1>d, <1>e
  <2>2. pc[q] = "compacting" =>
          \/ obj'[held[q]] = obj[held[q]] \/ obj'[held[q]].last # Stamp[q]
          \/ \E w \in Begun' \ {q} : Stamp[w] = Stamp[q]
    BY <1>w, <1>b, <2>1 DEF TypeOK
  <2> QED
    BY <1>a, <1>c, <1>w, <2>2, SnapshotFrame
<1>2. ASSUME NEW r \in Runs, RecordMessage(r) PROVE SnapshotOK(q)'
  <2> DEFINE th == Thread(Appended(r), obj[held[r]].summary, Stamp[r])
  <2>1. Active(r) /\ held[r] \in Objects /\ Stamp[r] \in Nat /\ pc[r] = "preparing"
    BY <1>2 DEF RecordMessage, Active, Suspended, TypeOK, Writers
  <2>2. th.last = Stamp[r]
    BY DEF Thread
  <2>3. obj' = [obj EXCEPT ![held[r]] = th] /\ pc' = [pc EXCEPT ![r] = "finishing"]
        /\ snap' = snap /\ held' = held
    BY <1>2 DEF RecordMessage
  <2>4. CASE q = r
    BY <2>3, <2>4 DEF SnapshotOK, TypeOK
  <2>5. CASE q # r
    <3>1. pc'[q] = pc[q] /\ pc'[r] # "idle"
      BY <2>3, <2>5 DEF TypeOK
    <3> HIDE DEF th
    <3> QED
      BY <1>w, <2>1, <2>2, <2>3, <2>5, <3>1
  <2> QED
    BY <2>4, <2>5
<1>3. ASSUME NEW r \in Runs, CompactNow(r) PROVE SnapshotOK(q)'
  <2>1. Active(r) /\ held[r] \in Objects /\ pc[r] = "preparing"
    BY <1>3 DEF CompactNow, Active, Suspended, TypeOK
  <2>2. PICK u : obj' = [obj EXCEPT ![held[r]] = Thread(u, obj[held[r]].summary, Stamp[r])]
    BY <1>3 DEF CompactNow
  <2> DEFINE th == Thread(u, obj[held[r]].summary, Stamp[r])
  <2>3. th.last = Stamp[r]
    BY DEF Thread
  <2>4. obj' = [obj EXCEPT ![held[r]] = th] /\ pc' = [pc EXCEPT ![r] = "agent"]
        /\ snap' = snap /\ held' = held
    BY <1>3, <2>2 DEF CompactNow
  <2>5. CASE q = r
    BY <2>4, <2>5 DEF SnapshotOK, TypeOK
  <2>6. CASE q # r
    <3>1. pc'[q] = pc[q] /\ pc'[r] # "idle"
      BY <2>4, <2>6 DEF TypeOK
    <3> HIDE DEF th
    <3> QED
      BY <1>w, <2>1, <2>3, <2>4, <2>6, <3>1
  <2> QED
    BY <2>5, <2>6
<1>4. ASSUME NEW r \in Runs, CompactBegin(r) PROVE SnapshotOK(q)'
  <2> DEFINE th == Thread(Appended(r), obj[held[r]].summary, Stamp[r])
  <2>1. Active(r) /\ held[r] \in Objects /\ pc[r] = "preparing"
    BY <1>4 DEF CompactBegin, Active, Suspended, TypeOK
  <2>2. th.last = Stamp[r] /\ th.msgs = Appended(r)
    BY DEF Thread
  <2>3. obj' = [obj EXCEPT ![held[r]] = th] /\ snap' = [snap EXCEPT ![r] = th]
        /\ pc' = [pc EXCEPT ![r] = "compacting"] /\ held' = held
    BY <1>4 DEF CompactBegin
  <2> HIDE DEF th
  <2>4. CASE q = r
    <3>1. obj'[held'[q]] = th /\ snap'[q] = th
      BY <2>1, <2>3, <2>4 DEF TypeOK
    <3>2. Len(th.msgs) <= Len(th.msgs)
      BY <2>1, <2>2, AppendedType
    <3> QED
      BY <2>2, <2>4, <3>1, <3>2 DEF SnapshotOK, ExtendsSnapshot
  <2>5. CASE q # r
    <3>1. pc'[q] = pc[q] /\ snap'[q] = snap[q] /\ pc'[r] # "idle"
      BY <2>3, <2>5 DEF TypeOK
    <3> QED
      BY <1>w, <2>1, <2>2, <2>3, <2>5, <3>1
  <2> QED
    BY <2>4, <2>5
<1>5. ASSUME NEW r \in Runs, CompactEnd(r) PROVE SnapshotOK(q)'
  <2>1. Active(r) /\ held[r] \in Objects /\ pc[r] = "compacting"
    BY <1>5 DEF CompactEnd, Active, Suspended, TypeOK
  <2>2. PICK s : obj' = IF Matches(r)
                 THEN [obj EXCEPT ![held[r]] = Thread(kept[r], s, obj[held[r]].last)] ELSE obj
    BY <1>5 DEF CompactEnd
  <2>3. pc' = [pc EXCEPT ![r] = "agent"] /\ snap' = snap /\ held' = held
    BY <1>5 DEF CompactEnd
  <2>4. CASE q = r
    BY <2>3, <2>4 DEF SnapshotOK, TypeOK
  <2>5. CASE q # r
    <3>1. pc'[q] = pc[q] /\ pc'[r] # "idle"
      BY <2>3, <2>5 DEF TypeOK
    <3>2. CASE Matches(r)
      <4> DEFINE th == Thread(kept[r], s, obj[held[r]].last)
      <4>1. snap[r].last = Stamp[r]
        BY <2>1 DEF SnapshotIsPrefix
      <4>2. th.last = Stamp[r]
        BY <3>2, <4>1 DEF Matches, Thread
      <4>3. obj' = [obj EXCEPT ![held[r]] = th]
        BY <2>2, <3>2
      <4> HIDE DEF th
      <4> QED
        BY <1>w, <2>1, <2>3, <2>5, <3>1, <4>2, <4>3
    <3>3. CASE ~Matches(r)
      BY <1>a, <1>c, <2>2, <2>3, <3>1, <3>3, SnapshotFrame
    <3> QED
      BY <3>2, <3>3
  <2> QED
    BY <2>4, <2>5
<1>6. ASSUME NEW r \in Runs, Deliver(r) PROVE SnapshotOK(q)'
  <2>1. held[r] \in Objects /\ pc[r] = "agent" /\ Stamp[r] \in Nat
    BY <1>6 DEF Deliver, Active, Suspended, TypeOK, Writers
  <2>2. PICK D \in SUBSET Threads : \E new : DeliverTo(r, D, new)
    BY <1>6 DEF Deliver
  <2>3. PICK new : DeliverTo(r, D, new)
    BY <2>2
  <2>4. pc' = [pc EXCEPT ![r] = "finishing"] /\ snap' = snap /\ held' = held
    BY <1>6 DEF Deliver
  <2>5. CASE q = r
    BY <2>4, <2>5 DEF SnapshotOK, TypeOK
  <2>6. CASE q # r
    <3>1. pc'[q] = pc[q] /\ pc'[r] # "idle"
      BY <2>4, <2>6 DEF TypeOK
    <3>2. Stamp[r] # Stamp[q] \/ \E w \in Begun' \ {q} : Stamp[w] = Stamp[q]
      BY <2>6, <3>1, <1>d, <1>e
    <3>3. OwnThread(r, D) = obj[held[r]] \/ OwnThread(r, D).last = Stamp[r]
      BY DEF OwnThread, Thread
    <3>4. \A t : OtherThread(r, t).last = Stamp[r]
      BY DEF OtherThread, Thread
    <3>5. ASSUME pc[q] = "compacting"
          PROVE \/ obj'[held[q]] = obj[held[q]] \/ obj'[held[q]].last # Stamp[q]
                \/ \E w \in Begun' \ {q} : Stamp[w] = Stamp[q]
      BY <1>b, <2>3, <3>2, <3>3, <3>4, <3>5 DEF DeliverTo
    <3> QED
      BY <1>a, <1>c, <2>4, <3>1, <3>5, SnapshotFrame
  <2> QED
    BY <2>5, <2>6
<1>7. ASSUME NEW r \in Runs, Raise(r) PROVE SnapshotOK(q)'
  <2>1. pc' = [pc EXCEPT ![r] = "crashed"] /\ obj' = obj /\ snap' = snap /\ held' = held
    BY <1>7 DEF Raise, data
  <2>2. pc'[q] = "compacting" => pc[q] = "compacting"
    BY <2>1 DEF TypeOK
  <2> QED
    BY <1>a, <1>c, <2>1, <2>2, SnapshotFrame
<1>8. ASSUME NEW r \in Runs, SaveThreadSafely(r) PROVE SnapshotOK(q)'
  <2>1. pc' = [pc EXCEPT ![r] = "failing"] /\ obj' = obj /\ snap' = snap /\ held' = held
    BY <1>8 DEF SaveThreadSafely
  <2>2. pc'[q] = "compacting" => pc[q] = "compacting"
    BY <2>1 DEF TypeOK
  <2> QED
    BY <1>a, <1>c, <2>1, <2>2, SnapshotFrame
<1>9. ASSUME NEW r \in Runs, FinishRun(r) PROVE SnapshotOK(q)'
  <2>1. /\ pc' = [pc EXCEPT ![r] = IF pc[r] = "finishing" THEN "completed" ELSE "failed"]
        /\ held' = [held EXCEPT ![r] = None] /\ obj' = obj /\ snap' = snap
    BY <1>9 DEF FinishRun, data
  <2>2. CASE q = r
    BY <2>1, <2>2 DEF SnapshotOK, TypeOK
  <2>3. CASE q # r
    <3>1. pc'[q] = pc[q] /\ held'[q] = held[q]
      BY <2>1, <2>3 DEF TypeOK
    <3> QED
      BY <1>a, <1>c, <2>1, <3>1, SnapshotFrame
  <2> QED
    BY <2>2, <2>3
<1>10. ASSUME NEW n \in Notes, Notify(n) PROVE SnapshotOK(q)'
  <2>1. PICK o \in Objects :
          obj' = [obj EXCEPT ![o] = Thread(Append(Loaded(ThreadOf[n], o).msgs, Reply(n)),
                                           Loaded(ThreadOf[n], o).summary, Stamp[n])]
    BY <1>10 DEF Notify
  <2> DEFINE th == Thread(Append(Loaded(ThreadOf[n], o).msgs, Reply(n)), Loaded(ThreadOf[n], o).summary, Stamp[n])
  <2>2. th.last = Stamp[n] /\ obj' = [obj EXCEPT ![o] = th]
    BY <2>1 DEF Thread
  <2>3. Stamp[n] # Stamp[q] \/ \E w \in Begun' \ {q} : Stamp[w] = Stamp[q]
    <3>1. n \in Begun' /\ n # q
      BY <1>10 DEF Notify, Begun
    <3> QED
      BY <1>d, <3>1
  <2> HIDE DEF th
  <2>4. pc[q] = "compacting" =>
          \/ obj'[held[q]] = obj[held[q]] \/ obj'[held[q]].last # Stamp[q]
          \/ \E w \in Begun' \ {q} : Stamp[w] = Stamp[q]
    BY <1>b, <2>2, <2>3 DEF TypeOK
  <2>5. pc' = pc /\ snap' = snap /\ held' = held
    BY <1>10 DEF Notify
  <2> QED
    BY <1>a, <1>c, <2>4, <2>5, SnapshotFrame
<1>11. ASSUME ListThreads PROVE SnapshotOK(q)'
  <2>1. PICK new \in [{t \in Threads : store[t] # None} -> Free] :
          obj' = [o \in Objects |->
                IF \E t \in DOMAIN new : new[t] = o
                THEN store[CHOOSE t \in DOMAIN new : new[t] = o] ELSE obj[o]]
    BY <1>11 DEF ListThreads, Allocations
  <2>2. pc' = pc /\ snap' = snap /\ held' = held
    BY <1>11 DEF ListThreads
  <2>3. held[q] \notin Free
    BY DEF Free
  <2>4. pc[q] = "compacting" => obj'[held[q]] = obj[held[q]]
    BY <1>b, <2>1, <2>3
  <2> QED
    BY <1>a, <1>c, <2>2, <2>4, SnapshotFrame
<1>12. ASSUME Crash PROVE SnapshotOK(q)'
  BY <1>12 DEF Crash, SnapshotOK, Active, Suspended
<1> QED
  BY <1>0, <1>1, <1>2, <1>3, <1>4, <1>5, <1>6, <1>7, <1>8, <1>9, <1>10, <1>11, <1>12 DEF Next

LEMMA SnapshotInit == Init => SnapshotIsPrefix
BY DEF Init, SnapshotIsPrefix

\* A thread that extends the snapshot and has as many messages is the snapshot.
LEMMA PrefixGivesSafety == TypeOK /\ SnapshotIsPrefix => NoStaleOverwrite
<1> SUFFICES ASSUME TypeOK, SnapshotIsPrefix, NEW r \in Runs, pc[r] = "compacting", Matches(r), ~Shared(r)
             PROVE obj[held[r]].msgs = snap[r].msgs
  BY DEF NoStaleOverwrite
<1>1. obj[held[r]] \in ThreadStates /\ snap[r] \in ThreadStates
  BY DEF TypeOK, Active, Suspended
<1>2. obj[held[r]].msgs \in Seq(Messages) /\ snap[r].msgs \in Seq(Messages)
  BY <1>1, ThreadParts
<1>3. ExtendsSnapshot(r) /\ Len(obj[held[r]].msgs) = Len(snap[r].msgs)
  BY DEF SnapshotIsPrefix, Matches
<1> QED
  BY <1>2, <1>3 DEF ExtendsSnapshot

\* For any number of runs, threads and notifications at any times, and whatever
\* list_threads does to the cache: what a compaction overwrites unseen was said
\* in the second of its own run.
THEOREM NoStaleOverwriteTheorem == Spec => []NoStaleOverwrite
<1> DEFINE IInv == TypeOK /\ SnapshotIsPrefix
<1>1. Init => IInv
  BY TypeInit, SnapshotInit
<1>2. IInv /\ [Next]_vars => IInv'
  BY TypeNext, SnapshotNext
<1>3. IInv => NoStaleOverwrite
  BY PrefixGivesSafety
<1> QED
  BY <1>1, <1>2, <1>3, PTL DEF Spec

-----------------------------------------------------------------------------
(* The message a run answers.                                               *)

\* The turn of the newest message is kept, and the newest message with it.
LEMMA NewestStays ==
    ASSUME NEW s \in Seq(Messages), s # <<>>, NEW u \in Compactions(s)
    PROVE  s[Len(s)] \in Elements(u)
<1>1. PICK K \in FittingTurns(s) : u = At(s, {j \in DOMAIN s : TurnAt(s, j) \in K})
  BY DEF Compactions
<1> DEFINE J == {j \in DOMAIN s : TurnAt(s, j) \in K}
<1>2. Len(s) \in Nat /\ Len(s) \in J /\ J \subseteq 1..Len(s)
  BY DEF FittingTurns
<1> HIDE DEF J
<1>3. IsFiniteSet(J) /\ Cardinality(J) \in Nat
  <2>1. IsFiniteSet(1..Len(s)) BY <1>2, FS_Interval
  <2>2. IsFiniteSet(J) BY <1>2, <2>1, FS_Subset
  <2> QED BY <2>2, FS_CardinalityType
<1>4. Cardinality(J) >= 1
  <2>1. Cardinality(J) # 0 BY <1>2, <1>3, FS_EmptySet
  <2> QED BY <1>3, <2>1
<1> DEFINE upto(j) == {i \in J : i <= j}
           last == CHOOSE j \in J : Cardinality(upto(j)) = Cardinality(J)
<1>5. upto(Len(s)) = J
  <2>1. \A i \in J : i <= Len(s) BY <1>2
  <2> QED BY <2>1, Zenon
<1>6. last \in J /\ Cardinality(upto(last)) = Cardinality(J)
  BY <1>2, <1>5
<1>7. upto(last) = J
  <2>1. upto(last) \in SUBSET J OBVIOUS
  <2> HIDE DEF upto
  <2> QED BY <1>3, <1>6, <2>1, FS_Subset
<1>8. last = Len(s)
  <2> HIDE DEF last
  <2>1. Len(s) \in upto(last) BY <1>2, <1>7
  <2>2. Len(s) <= last BY <2>1
  <2>3. last <= Len(s) /\ last \in Nat BY <1>2, <1>6
  <2> QED BY <1>2, <2>2, <2>3
<1>9. Cardinality(J) \in DOMAIN u /\ u[Cardinality(J)] = s[last]
  <2>1. u = At(s, J) BY <1>1 DEF J
  <2> QED BY <2>1, <1>3, <1>4 DEF At
<1> QED
  BY <1>8, <1>9 DEF Elements

\* Whatever is kept of an extended thread has the message that was appended.
LEMMA OwnStays ==
    ASSUME TypeOK, NEW r \in Runs, Active(r), NEW u \in Compactions(Appended(r))
    PROVE  User(r) \in Elements(u)
<1>1. obj[held[r]].msgs \in Seq(Messages) /\ User(r) \in Messages
  BY AppendedType, ThreadParts, MessageType DEF Writers
<1>2. Appended(r) \in Seq(Messages) /\ Appended(r) # <<>> /\ Appended(r)[Len(Appended(r))] = User(r)
  BY <1>1 DEF Appended
<1> QED
  BY <1>2, NewestStays

\* What a run will give, or has given, to its agent has its own message.
OwnMessage == \A q \in Runs :
    /\ pc[q] = "compacting" => User(q) \in Elements(kept[q])
    /\ pc[q] = "agent" => User(q) \in Elements(context[q])

\* Every step keeps the message of each run: only CompactNow and CompactBegin
\* choose what is kept, and CompactEnd hands it over.
LEMMA OwnMessageNext == TypeOK /\ OwnMessage /\ [Next]_vars => OwnMessage'
<1> SUFFICES ASSUME TypeOK, OwnMessage, [Next]_vars PROVE OwnMessage'
  OBVIOUS
<1>f. ASSUME UNCHANGED <<kept, context>>,
             \A q \in Runs : pc'[q] \in {"compacting", "agent"} => pc'[q] = pc[q]
      PROVE  OwnMessage'
  BY <1>f DEF OwnMessage
<1>0. CASE UNCHANGED vars
  BY <1>0, <1>f DEF vars
<1>1. ASSUME NEW r \in Runs, HandleEvent(r) PROVE OwnMessage'
  <2>1. PICK next \in {"preparing", "failed"} : pc' = [pc EXCEPT ![r] = next]
    BY <1>1 DEF HandleEvent
  <2> QED
    BY <1>1, <1>f, <2>1 DEF HandleEvent, TypeOK
<1>2. ASSUME NEW r \in Runs, RecordMessage(r) PROVE OwnMessage'
  BY <1>2, <1>f DEF RecordMessage, TypeOK
<1>3. ASSUME NEW r \in Runs, CompactNow(r) PROVE OwnMessage'
  <2>1. PICK u \in Compactions(Appended(r)) : context' = [context EXCEPT ![r] = u]
    BY <1>3 DEF CompactNow
  <2>2. User(r) \in Elements(u)
    BY <1>3, <2>1, OwnStays DEF CompactNow, Active, Suspended
  <2>3. pc' = [pc EXCEPT ![r] = "agent"] /\ kept' = kept
    BY <1>3 DEF CompactNow
  <2> QED
    BY <2>1, <2>2, <2>3 DEF OwnMessage, TypeOK
<1>4. ASSUME NEW r \in Runs, CompactBegin(r) PROVE OwnMessage'
  <2>1. PICK u \in Compactions(Appended(r)) : kept' = [kept EXCEPT ![r] = u]
    BY <1>4 DEF CompactBegin
  <2>2. User(r) \in Elements(u)
    BY <1>4, <2>1, OwnStays DEF CompactBegin, Active, Suspended
  <2>3. pc' = [pc EXCEPT ![r] = "compacting"] /\ context' = context
    BY <1>4 DEF CompactBegin
  <2> QED
    BY <2>1, <2>2, <2>3 DEF OwnMessage, TypeOK
<1>5. ASSUME NEW r \in Runs, CompactEnd(r) PROVE OwnMessage'
  <2>1. /\ pc[r] = "compacting" /\ pc' = [pc EXCEPT ![r] = "agent"] /\ kept' = kept
        /\ context' = [context EXCEPT ![r] = kept[r]]
    BY <1>5 DEF CompactEnd
  <2> QED
    BY <2>1 DEF OwnMessage, TypeOK
<1>6. ASSUME NEW r \in Runs, Deliver(r) PROVE OwnMessage'
  BY <1>6, <1>f DEF Deliver, TypeOK
<1>7. ASSUME NEW r \in Runs, Raise(r) PROVE OwnMessage'
  BY <1>7, <1>f DEF Raise, TypeOK
<1>8. ASSUME NEW r \in Runs, SaveThreadSafely(r) PROVE OwnMessage'
  BY <1>8, <1>f DEF SaveThreadSafely, TypeOK
<1>9. ASSUME NEW r \in Runs, FinishRun(r) PROVE OwnMessage'
  BY <1>9, <1>f DEF FinishRun, TypeOK
<1>10. ASSUME NEW n \in Notes, Notify(n) PROVE OwnMessage'
  BY <1>10, <1>f DEF Notify
<1>11. CASE ListThreads
  BY <1>11, <1>f DEF ListThreads
<1>12. CASE Crash
  BY <1>12, <1>f DEF Crash, TypeOK
<1> QED
  BY <1>0, <1>1, <1>2, <1>3, <1>4, <1>5, <1>6, <1>7, <1>8, <1>9, <1>10, <1>11, <1>12 DEF Next

\* The history given to an agent has the message it is to answer, whatever other
\* runs, notifications, listings and crashes do to the thread meanwhile.
THEOREM OwnMessageTheorem == Spec => []OwnMessageInContext
<1>1. Init => OwnMessage
  BY DEF Init, OwnMessage
<1>2. OwnMessage => OwnMessageInContext
  BY DEF OwnMessage, OwnMessageInContext
<1> QED
  BY <1>1, <1>2, OwnMessageNext, TypeTheorem, PTL DEF Spec

-----------------------------------------------------------------------------
(* What is durable.  A thread that was never torn has one ThreadState in    *)
(* memory, and the steps can be told by what it says in memory (Content)    *)
(* and in the table (Stored); its runs and those of torn threads write      *)
(* different objects.                                                       *)

Whole == Threads \ torn

Content(t) == IF cache[t] = None THEN StateFromRecord(t).msgs ELSE obj[cache[t]].msgs
Stored(t) == StateFromRecord(t).msgs
InMemory(t) == Elements(Content(t)) \cup dropped[t]
InTable(t) == Elements(Stored(t)) \cup dropped[t]

\* The runs of a whole thread hold its cached object, and no object is of two
\* threads.
Owned ==
    /\ \A r \in Runs : Active(r) /\ ThreadOf[r] \in Whole => cache[ThreadOf[r]] = held[r]
    /\ \A s, t \in Threads : cache[s] = cache[t] /\ cache[s] # None => s = t
    /\ \A r \in Runs, t \in Threads : Active(r) /\ cache[t] = held[r] => t = ThreadOf[r]
    /\ \A q, r \in Runs : Active(q) /\ Active(r) /\ held[q] = held[r] => ThreadOf[q] = ThreadOf[r]

\* What run q has said to a whole thread is in memory while it works and in the
\* table when it is done.
RunKept(q) ==
    /\ pc[q] \in {"compacting", "agent"} /\ ThreadOf[q] \in Whole => User(q) \in InMemory(ThreadOf[q])
    /\ pc[q] \in {"finishing", "completed"} =>
          /\ ThreadOf[q] \in Whole => User(q) \in InTable(ThreadOf[q])
          /\ \A t \in sent[q] \cap Whole : Reply(q) \in InTable(t)
    /\ pc[q] \in {"idle", "preparing"} => sent[q] = {}
    /\ pc[q] \in Marking /\ ThreadOf[q] \in Whole => Content(ThreadOf[q]) = Stored(ThreadOf[q])

Durable ==
    /\ \A t \in Whole : Elements(Stored(t)) \subseteq InMemory(t)
    /\ \A t \in Whole :
          (\A r \in Runs : ThreadOf[r] = t => ~Active(r)) => Content(t) = Stored(t)
    /\ \A q \in Runs : RunKept(q)

\* What is torn stays torn.
LEMMA TornGrows == TypeOK /\ [Next]_vars => Whole' \subseteq Whole
<1> SUFFICES ASSUME [Next]_vars PROVE torn \subseteq torn'
  BY DEF Whole
<1>0. CASE UNCHANGED vars
  BY <1>0 DEF vars
<1>1. ASSUME NEW r \in Runs, HandleEvent(r) PROVE torn \subseteq torn'
  BY <1>1 DEF HandleEvent
<1>2. ASSUME NEW r \in Runs, RecordMessage(r) \/ CompactNow(r) \/ CompactBegin(r) PROVE torn \subseteq torn'
  BY <1>2 DEF RecordMessage, CompactNow, CompactBegin
<1>3. ASSUME NEW r \in Runs, CompactEnd(r) PROVE torn \subseteq torn'
  BY <1>3 DEF CompactEnd
<1>4. ASSUME NEW r \in Runs, Deliver(r) PROVE torn \subseteq torn'
  BY <1>4 DEF Deliver
<1>5. ASSUME NEW r \in Runs, Raise(r) \/ SaveThreadSafely(r) \/ FinishRun(r) PROVE torn \subseteq torn'
  BY <1>5 DEF Raise, SaveThreadSafely, FinishRun
<1>6. ASSUME NEW n \in Notes, Notify(n) PROVE torn \subseteq torn'
  BY <1>6 DEF Notify
<1>7. CASE ListThreads
  BY <1>7 DEF ListThreads
<1>8. CASE Crash
  BY <1>8 DEF Crash
<1> QED
  BY <1>0, <1>1, <1>2, <1>3, <1>4, <1>5, <1>6, <1>7, <1>8 DEF Next

LEMMA ElementsAppend ==
    ASSUME NEW s \in Seq(Messages), NEW m \in Messages
    PROVE  Elements(Append(s, m)) = Elements(s) \cup {m}
<1>1. DOMAIN Append(s, m) = DOMAIN s \cup {Len(s) + 1}
  OBVIOUS
<1>2. \A i \in DOMAIN s : Append(s, m)[i] = s[i]
  OBVIOUS
<1>3. Append(s, m)[Len(s) + 1] = m
  OBVIOUS
<1> QED
  BY <1>1, <1>2, <1>3 DEF Elements

LEMMA ContentType ==
    ASSUME TypeOK, NEW t \in Threads
    PROVE  /\ Content(t) \in Seq(Messages) /\ Stored(t) \in Seq(Messages)
           /\ Elements(Content(t)) \subseteq Messages
<1>1. StateFromRecord(t) \in ThreadStates
  <2>1. CASE store[t] = None
    <3>1. NewThread \in ThreadStates
      BY ThreadType DEF NewThread, Thread, ThreadStates
    <3> QED BY <2>1, <3>1 DEF StateFromRecord
  <2>2. CASE store[t] # None
    BY <2>2 DEF StateFromRecord, TypeOK
  <2> QED BY <2>1, <2>2
<1>2. cache[t] # None => obj[cache[t]] \in ThreadStates
  BY DEF TypeOK
<1>3. Content(t) \in Seq(Messages) /\ Stored(t) \in Seq(Messages)
  BY <1>1, <1>2, ThreadParts DEF Content, Stored
<1> QED
  BY <1>3 DEF Elements

\* A working run sees its thread, if whole, as it is in memory.
LEMMA RunContent ==
    ASSUME TypeOK, Owned, NEW r \in Runs, Active(r)
    PROVE  /\ r \in Writers /\ ThreadOf[r] \in Threads /\ Stamp[r] \in Nat
           /\ held[r] \in Objects /\ held[r] # None
           /\ ThreadOf[r] \in Whole =>
                 cache[ThreadOf[r]] = held[r] /\ Content(ThreadOf[r]) = obj[held[r]].msgs
BY PipelineAssumption DEF TypeOK, Owned, Writers, Content

-----------------------------------------------------------------------------
(* One object per thread.                                                   *)

\* The objects a delivery writes are those of its threads and of no other.
LEMMA DestinationsDiffer ==
    ASSUME TypeOK, Owned, NEW r \in Runs, Active(r), NEW D \in SUBSET Threads,
           NEW new \in Allocations({t \in D \ {ThreadOf[r]} : cache[t] = None})
    PROVE  /\ \A t \in D \ {ThreadOf[r]} :
                /\ Destination(t, new) \in Objects /\ Destination(t, new) # None
                /\ Destination(t, new) # held[r]
                /\ \A q \in Runs : Active(q) /\ held[q] = Destination(t, new) => ThreadOf[q] = t
                /\ \A s \in Threads \ D : cache[s] # Destination(t, new)
           /\ \A s, t \in D \ {ThreadOf[r]} : Destination(s, new) = Destination(t, new) => s = t
<1> DEFINE T == {t \in D \ {ThreadOf[r]} : cache[t] = None}
<1>1. new \in [T -> Free] /\ \A s, t \in T : new[s] = new[t] => s = t
  BY DEF Allocations
<1>2. ThreadOf[r] \in Threads /\ held[r] # None /\ \A t \in D \ {ThreadOf[r]} : cache[t] # held[r]
  BY RunContent DEF Owned
<1>3. \A t \in T : /\ new[t] \in Objects /\ new[t] # None /\ new[t] # held[r]
                   /\ \A s \in Threads : cache[s] # new[t]
  BY <1>1, PipelineAssumption DEF Free
<1>4. ASSUME NEW t \in D \ {ThreadOf[r]}, NEW q \in Runs, Active(q), held[q] = Destination(t, new)
      PROVE  ThreadOf[q] = t
  <2>1. CASE cache[t] = None
    BY <1>1, <1>4, <2>1 DEF Destination, Free
  <2>2. CASE cache[t] # None
    BY <1>4, <2>2 DEF Destination, Owned
  <2> QED
    BY <2>1, <2>2
<1> QED
  BY <1>1, <1>2, <1>3, <1>4, PipelineAssumption DEF Destination, Owned, TypeOK

\* Every step gives each thread an object of its own, which the runs of a whole
\* thread share: a new object is a free one, and is cached for a thread with
\* runs only by a listing, which tears it.
LEMMA OwnedNext ==
    ASSUME TypeOK, Owned, [Next]_vars
    PROVE  Owned'
<1> USE PipelineAssumption
<1>t. Whole' \subseteq Whole
  BY TornGrows
<1>f. ASSUME cache' = cache, \A q \in Runs : Active(q)' => Active(q) /\ held'[q] = held[q]
      PROVE  Owned'
  BY <1>f, <1>t DEF Owned
\* A thread gets object o, new or the one it has.
<1>g. ASSUME NEW t \in Threads, NEW o \in Objects, GetOrCreate(t, o), cache' = [cache EXCEPT ![t] = o],
             \A q \in Runs : Active(q)' => \/ Active(q) /\ held'[q] = held[q]
                                           \/ ThreadOf[q] = t /\ held'[q] = o
      PROVE  Owned'
  <2>1. o \in Free => (\A s \in Threads : cache[s] # o) /\ (\A q \in Runs : held[q] # o)
    BY DEF Free
  <2>2. \A s \in Threads : cache'[s] = IF s = t THEN o ELSE cache[s]
    BY <1>g DEF TypeOK
  <2>3. \A s \in Threads : s # t => cache[s] # o
    BY <1>g, <2>1 DEF GetOrCreate, Owned
  <2>4. \A q \in Runs : Active(q) /\ held[q] = o => ThreadOf[q] = t
    BY <1>g, <2>1 DEF GetOrCreate, Owned
  <2>5. \A q \in Runs : Active(q)' /\ held'[q] = o => ThreadOf[q] = t
    BY <1>g, <2>4
  <2>6. ASSUME NEW q \in Runs, Active(q)', ThreadOf[q] \in Whole' PROVE cache'[ThreadOf[q]] = held'[q]
    <3>1. ThreadOf[q] \in Threads
      BY DEF Writers
    <3>2. CASE ThreadOf[q] = t /\ held'[q] = o
      BY <2>2, <3>1, <3>2
    <3>3. CASE Active(q) /\ held'[q] = held[q]
      <4>1. cache[ThreadOf[q]] = held[q] /\ held[q] \in Objects
        BY <1>t, <2>6, <3>3 DEF Owned, TypeOK
      <4>2. ThreadOf[q] = t => cache[t] = o
        BY <1>g, <4>1 DEF GetOrCreate
      <4> QED
        BY <2>2, <3>1, <3>3, <4>1, <4>2
    <3> QED
      BY <1>g, <2>6, <3>2, <3>3
  <2>7. \A s, u \in Threads : cache'[s] = cache'[u] /\ cache'[s] # None => s = u
    BY <2>2, <2>3 DEF Owned
  <2>8. ASSUME NEW q \in Runs, NEW s \in Threads, Active(q)', cache'[s] = held'[q] PROVE s = ThreadOf[q]
    <3>1. CASE s = t
      BY <2>2, <2>5, <2>8, <3>1
    <3>2. CASE s # t
      <4>1. cache'[s] = cache[s] /\ held'[q] # o
        BY <2>2, <2>3, <2>8, <3>2
      <4>2. Active(q) /\ held'[q] = held[q]
        BY <1>g, <2>8, <4>1
      <4> QED
        BY <2>8, <4>1, <4>2 DEF Owned
    <3> QED
      BY <3>1, <3>2
  <2>9. ASSUME NEW q \in Runs, NEW r \in Runs, Active(q)', Active(r)', held'[q] = held'[r]
        PROVE  ThreadOf[q] = ThreadOf[r]
    <3>1. CASE held'[q] = o
      BY <2>5, <2>9, <3>1
    <3>2. CASE held'[q] # o
      <4>1. Active(q) /\ Active(r) /\ held[q] = held[r]
        BY <1>g, <2>9, <3>2
      <4> QED
        BY <4>1 DEF Owned
    <3> QED
      BY <3>1, <3>2
  <2> QED
    BY <2>6, <2>7, <2>8, <2>9 DEF Owned
<1>0. CASE UNCHANGED vars
  BY <1>0, <1>f DEF vars, data, Active
<1>1. ASSUME NEW r \in Runs, HandleEvent(r) PROVE Owned'
  <2>1. PICK o \in Objects, next \in {"preparing", "failed"} :
          /\ GetOrCreate(ThreadOf[r], o)
          /\ cache' = [cache EXCEPT ![ThreadOf[r]] = o]
          /\ held' = [held EXCEPT ![r] = IF next = "failed" THEN None ELSE o]
          /\ pc' = [pc EXCEPT ![r] = next]
    BY <1>1 DEF HandleEvent
  <2>2. ThreadOf[r] \in Threads
    BY DEF Writers
  <2>3. \A q \in Runs : Active(q)' => \/ Active(q) /\ held'[q] = held[q]
                                      \/ ThreadOf[q] = ThreadOf[r] /\ held'[q] = o
    BY <2>1 DEF Active, Suspended, Marking, TypeOK
  <2> QED
    BY <1>g, <2>1, <2>2, <2>3
\* The thread manager's save caches the object of the run, which is no other
\* thread's.
<1>s. ASSUME NEW r \in Runs, Active(r), NEW th, Save(r, th), held' = held,
             \A q \in Runs : Active(q)' => Active(q)
      PROVE  Owned'
  <2>1. ThreadOf[r] \in Threads /\ held[r] \in Objects
    BY <1>s, RunContent
  <2>2. \A s \in Threads : cache'[s] = IF s = ThreadOf[r] THEN held[r] ELSE cache[s]
    BY <1>s DEF Save, TypeOK
  <2>3. \A q \in Runs : Active(q) => ThreadOf[q] \in Threads
    BY DEF Writers
  <2>4. \A q \in Runs : Active(q)' /\ ThreadOf[q] \in Whole' => cache'[ThreadOf[q]] = held'[q]
    BY <1>s, <1>t, <2>2, <2>3 DEF Owned
  <2>5. \A s \in Threads : s # ThreadOf[r] => cache[s] # held[r]
    BY <1>s DEF Owned
  <2>6. \A s, u \in Threads : cache'[s] = cache'[u] /\ cache'[s] # None => s = u
    BY <2>2, <2>5 DEF Owned
  <2>7. \A q \in Runs, t \in Threads : Active(q)' /\ cache'[t] = held'[q] => t = ThreadOf[q]
    BY <1>s, <2>2 DEF Owned
  <2>8. \A p, q \in Runs : Active(p)' /\ Active(q)' /\ held'[p] = held'[q] => ThreadOf[p] = ThreadOf[q]
    BY <1>s DEF Owned
  <2> QED
    BY <2>4, <2>6, <2>7, <2>8 DEF Owned
<1>2. ASSUME NEW r \in Runs, RecordMessage(r) PROVE Owned'
  <2>1. Active(r) /\ \A q \in Runs : Active(q)' => Active(q)
    BY <1>2 DEF RecordMessage, Active, Suspended, Marking, TypeOK
  <2> QED
    BY <1>2, <1>s, <2>1 DEF RecordMessage
<1>3. ASSUME NEW r \in Runs, CompactNow(r) PROVE Owned'
  BY <1>3, <1>f DEF CompactNow, Active, Suspended, TypeOK
<1>4. ASSUME NEW r \in Runs, CompactBegin(r) PROVE Owned'
  BY <1>4, <1>f DEF CompactBegin, Active, Suspended, TypeOK
<1>5. ASSUME NEW r \in Runs, CompactEnd(r) PROVE Owned'
  BY <1>5, <1>f DEF CompactEnd, Active, Suspended, TypeOK
<1>6. ASSUME NEW r \in Runs, Deliver(r) PROVE Owned'
  <2>1. Active(r) /\ held' = held /\ \A q \in Runs : Active(q)' => Active(q)
    BY <1>6 DEF Deliver, Active, Suspended, Marking, TypeOK
  <2>2. PICK D \in SUBSET Threads :
          \E new \in Allocations({t \in D \ {ThreadOf[r]} : cache[t] = None}) : DeliverTo(r, D, new)
    BY <1>6 DEF Deliver
  <2>3. PICK new \in Allocations({t \in D \ {ThreadOf[r]} : cache[t] = None}) : DeliverTo(r, D, new)
    BY <2>2
  <2>4. \A t \in Threads : cache'[t] =
          IF t = ThreadOf[r] THEN held[r] ELSE IF t \in D THEN Destination(t, new) ELSE cache[t]
    BY <2>3 DEF DeliverTo
  <2>5. held[r] # None /\ ThreadOf[r] \in Threads /\ \A s \in Threads : s # ThreadOf[r] => cache[s] # held[r]
    BY <2>1, RunContent DEF Owned
  <2>6. /\ \A t \in D \ {ThreadOf[r]} :
             /\ Destination(t, new) # held[r]
             /\ \A q \in Runs : Active(q) /\ held[q] = Destination(t, new) => ThreadOf[q] = t
             /\ \A s \in Threads \ D : cache[s] # Destination(t, new)
        /\ \A s, t \in D \ {ThreadOf[r]} : Destination(s, new) = Destination(t, new) => s = t
    BY <2>1, <2>3, DestinationsDiffer
  <2>7. \A s, t \in Threads : cache'[s] = cache'[t] /\ cache'[s] # None => s = t
    <3>1. \A s, t \in Threads : cache[s] = cache[t] /\ cache[s] # None => s = t
      BY DEF Owned
    <3> SUFFICES ASSUME NEW s \in Threads, NEW t \in Threads,
                        cache'[s] = cache'[t], cache'[s] # None
                 PROVE  s = t
      OBVIOUS
    <3>2. CASE s = ThreadOf[r] \/ t = ThreadOf[r]
      BY <2>4, <2>5, <2>6, <3>2
    <3>3. CASE s # ThreadOf[r] /\ t # ThreadOf[r]
      BY <2>4, <2>6, <3>1, <3>3
    <3> QED
      BY <3>2, <3>3
  <2>8. ASSUME NEW q \in Runs, Active(q), ThreadOf[q] \in Whole' PROVE cache'[ThreadOf[q]] = held[q]
    <3>1. cache[ThreadOf[q]] = held[q] /\ held[q] # None /\ ThreadOf[q] \in Threads
      BY <1>t, <2>8, RunContent
    <3>2. ThreadOf[q] = ThreadOf[r] => held[q] = held[r]
      BY <1>t, <2>1, <2>8, <3>1, RunContent
    <3> QED
      BY <2>4, <3>1, <3>2 DEF Destination
  <2>9. ASSUME NEW q \in Runs, NEW t \in Threads, Active(q), cache'[t] = held[q] PROVE t = ThreadOf[q]
    <3>1. CASE t = ThreadOf[r]
      BY <2>1, <2>4, <2>9, <3>1 DEF Owned
    <3>2. CASE t # ThreadOf[r] /\ t \in D
      BY <2>4, <2>6, <2>9, <3>2
    <3>3. CASE t # ThreadOf[r] /\ t \notin D
      BY <2>4, <2>9, <3>3 DEF Owned
    <3> QED
      BY <3>1, <3>2, <3>3
  <2>10. \A p, q \in Runs : Active(p) /\ Active(q) /\ held[p] = held[q] => ThreadOf[p] = ThreadOf[q]
    BY DEF Owned
  <2> QED
    BY <2>1, <2>7, <2>8, <2>9, <2>10 DEF Owned
<1>7. ASSUME NEW r \in Runs, Raise(r) PROVE Owned'
  BY <1>7, <1>f DEF Raise, data, Active, Suspended, TypeOK
<1>8. ASSUME NEW r \in Runs, SaveThreadSafely(r) PROVE Owned'
  <2>1. Active(r) /\ \A q \in Runs : Active(q)' => Active(q)
    BY <1>8 DEF SaveThreadSafely, Active, Suspended, Marking, TypeOK
  <2> QED
    BY <1>8, <1>s, <2>1 DEF SaveThreadSafely
<1>9. ASSUME NEW r \in Runs, FinishRun(r) PROVE Owned'
  <2>1. \A q \in Runs : Active(q)' => Active(q) /\ held'[q] = held[q]
    BY <1>9 DEF FinishRun, Active, Suspended, Marking, TypeOK
  <2> QED
    BY <1>9, <1>f, <2>1 DEF FinishRun, data
<1>10. ASSUME NEW n \in Notes, Notify(n) PROVE Owned'
  <2>1. PICK o \in Objects : GetOrCreate(ThreadOf[n], o) /\ cache' = [cache EXCEPT ![ThreadOf[n]] = o]
    BY <1>10 DEF Notify
  <2>2. ThreadOf[n] \in Threads
    BY DEF Writers
  <2>3. \A q \in Runs : Active(q)' => Active(q) /\ held'[q] = held[q]
    BY <1>10 DEF Notify, Active
  <2> QED
    BY <1>g, <2>1, <2>2, <2>3
<1>11. CASE ListThreads
  <2>1. PICK new \in Allocations({t \in Threads : store[t] # None}) :
          /\ cache' = [t \in Threads |-> IF store[t] # None THEN new[t] ELSE cache[t]]
          /\ torn' = torn \cup {t \in DOMAIN new : \E r \in Runs : ThreadOf[r] = t /\ Active(r)}
    BY <1>11 DEF ListThreads
  <2>2. /\ new \in [{t \in Threads : store[t] # None} -> Free]
        /\ \A s, t \in {x \in Threads : store[x] # None} : new[s] = new[t] => s = t
    BY <2>1 DEF Allocations
  <2>3. held' = held /\ \A q \in Runs : Active(q)' = Active(q)
    BY <1>11 DEF ListThreads, Active
  <2>4. \A s \in Threads : cache'[s] = IF store[s] # None THEN new[s] ELSE cache[s]
    BY <2>1
  <2>5. \A s \in Threads : store[s] # None => (\A t \in Threads : cache[t] # new[s]) /\ (\A q \in Runs : held[q] # new[s])
    BY <2>2 DEF Free
  <2>6. \A s, t \in Threads : cache'[s] = cache'[t] /\ cache'[s] # None => s = t
    BY <2>2, <2>4, <2>5 DEF Owned
  <2>7. ASSUME NEW q \in Runs, Active(q), ThreadOf[q] \in Whole' PROVE cache'[ThreadOf[q]] = held[q]
    <3>1. ThreadOf[q] \in Threads /\ cache[ThreadOf[q]] = held[q]
      BY <1>t, <2>7, RunContent
    <3>2. store[ThreadOf[q]] = None
      BY <2>1, <2>2, <2>7, <3>1 DEF Whole
    <3> QED
      BY <2>4, <3>1, <3>2
  <2>8. \A q \in Runs, t \in Threads : Active(q) /\ cache'[t] = held[q] => t = ThreadOf[q]
    BY <2>4, <2>5 DEF Owned
  <2>9. \A p, q \in Runs : Active(p) /\ Active(q) /\ held[p] = held[q] => ThreadOf[p] = ThreadOf[q]
    BY DEF Owned
  <2> QED
    BY <2>3, <2>6, <2>7, <2>8, <2>9 DEF Owned
<1>12. CASE Crash
  BY <1>12 DEF Crash, Owned, Active, Suspended, Marking, Ended
<1> QED
  BY <1>0, <1>1, <1>2, <1>3, <1>4, <1>5, <1>6, <1>7, <1>8, <1>9, <1>10, <1>11, <1>12 DEF Next

-----------------------------------------------------------------------------
(* What the steps do to a thread, in memory and in the table.               *)

\* Writing the object a run holds changes its thread in memory, if that is whole,
\* and no other; the thread manager's save caches the object again.
LEMMA OwnWrite ==
    ASSUME TypeOK, Owned, NEW r \in Runs, Active(r), NEW th,
           obj' = [obj EXCEPT ![held[r]] = th],
           cache' = cache \/ cache' = [cache EXCEPT ![ThreadOf[r]] = held[r]],
           \A t \in Threads \ {ThreadOf[r]} : store'[t] = store[t]
    PROVE  /\ \A t \in Threads \ {ThreadOf[r]} : Content(t)' = Content(t)
           /\ ThreadOf[r] \in Whole => Content(ThreadOf[r])' = th.msgs
<1>1. held[r] \in Objects /\ held[r] # None /\ ThreadOf[r] \in Threads
  BY RunContent
<1>2. \A t \in Threads \ {ThreadOf[r]} : cache[t] # held[r] /\ cache'[t] = cache[t]
  BY <1>1 DEF Owned, TypeOK
<1>3. ThreadOf[r] \in Whole => cache'[ThreadOf[r]] = held[r]
  BY RunContent, <1>1 DEF TypeOK
<1>4. \A o \in Objects : obj'[o] = IF o = held[r] THEN th ELSE obj[o]
  BY <1>1 DEF TypeOK
<1>5. \A t \in Threads \ {ThreadOf[r]} : cache[t] # None => obj'[cache[t]] = obj[cache[t]]
  BY <1>2, <1>4 DEF TypeOK
<1> QED
  BY <1>1, <1>2, <1>3, <1>4, <1>5 DEF Content, StateFromRecord

\* The same for a thread that is loaded, written as th and saved.
LEMMA LoadedWrite ==
    ASSUME TypeOK, Owned, NEW t \in Threads, NEW o \in Objects, GetOrCreate(t, o), NEW th,
           obj' = [obj EXCEPT ![o] = th], cache' = [cache EXCEPT ![t] = o],
           \A s \in Threads \ {t} : store'[s] = store[s]
    PROVE  /\ \A s \in Threads : Content(s)' = IF s = t THEN th.msgs ELSE Content(s)
           /\ Loaded(t, o).msgs = Content(t)
<1>1. o \in Free => \A s \in Threads : cache[s] # o
  BY DEF Free
<1>2. \A s \in Threads : s # t => cache[s] # o
  BY <1>1, PipelineAssumption DEF GetOrCreate, Owned
<1>3. \A s \in Threads : Content(s)' = IF s = t THEN th.msgs ELSE Content(s)
  BY <1>2, PipelineAssumption DEF Content, StateFromRecord, TypeOK
<1>4. Loaded(t, o).msgs = Content(t)
  BY DEF Loaded, Content, GetOrCreate
<1> QED
  BY <1>3, <1>4

\* A delivery appends the reply, in memory and in the table, to the whole threads
\* it reached, and saves the run's own thread.
LEMMA DeliverWrites ==
    ASSUME TypeOK, Owned, NEW r \in Runs, Active(r), NEW D \in SUBSET Threads,
           NEW new \in Allocations({t \in D \ {ThreadOf[r]} : cache[t] = None}),
           DeliverTo(r, D, new)
    PROVE  \A t \in Whole :
              /\ Content(t)' = IF t \in D THEN Append(Content(t), Reply(r)) ELSE Content(t)
              /\ Stored(t)' = IF t \in D \/ t = ThreadOf[r] THEN Content(t)' ELSE Stored(t)
<1> USE NoneAssumption, PipelineAssumption
<1>1. /\ ThreadOf[r] \in Threads /\ Stamp[r] \in Nat /\ r \in Writers
      /\ held[r] \in Objects /\ held[r] # None
      /\ ThreadOf[r] \in Whole => Content(ThreadOf[r]) = obj[held[r]].msgs
  BY RunContent
<1>2. \A t \in Threads : cache'[t] =
        IF t = ThreadOf[r] THEN held[r] ELSE IF t \in D THEN Destination(t, new) ELSE cache[t]
  BY DEF DeliverTo
<1>3. \A t \in Threads : store'[t] =
        IF t = ThreadOf[r] THEN OwnThread(r, D) ELSE IF t \in D THEN OtherThread(r, t) ELSE store[t]
  BY DEF DeliverTo
<1>4. ThreadOf[r] \in Whole => OwnThread(r, D).msgs =
        IF ThreadOf[r] \in D THEN Append(Content(ThreadOf[r]), Reply(r)) ELSE Content(ThreadOf[r])
  BY <1>1 DEF OwnThread, Thread
<1>5. \A t \in Threads : OtherThread(r, t).msgs = Append(Content(t), Reply(r))
  BY DEF OtherThread, Thread, Content
<1>6. OwnThread(r, D) # None /\ \A t \in Threads : OtherThread(r, t) # None
  <2>1. obj[held[r]].msgs \in Seq(Messages) /\ Reply(r) \in Messages /\ obj[held[r]] \in ThreadStates
    BY <1>1, ThreadParts, MessageType DEF TypeOK
  <2>2. OwnThread(r, D) \in ThreadStates
    BY <1>1, <2>1, ThreadParts, ThreadType, AppendKeeps DEF OwnThread
  <2>3. ASSUME NEW t \in Threads PROVE OtherThread(r, t) \in ThreadStates
    <3> DEFINE old == IF cache[t] = None THEN StateFromRecord(t) ELSE obj[cache[t]]
    <3>1. old \in ThreadStates
      <4>1. NewThread \in ThreadStates
        BY ThreadType DEF NewThread, Thread, ThreadStates
      <4> QED
        BY <4>1 DEF StateFromRecord, TypeOK
    <3> HIDE DEF old
    <3>2. Append(old.msgs, Reply(r)) \in Seq(Messages) /\ old.summary \in SUBSET Messages
      BY <2>1, <3>1, ThreadParts, AppendKeeps
    <3>3. OtherThread(r, t) = Thread(Append(old.msgs, Reply(r)), old.summary, Stamp[r])
      BY DEF OtherThread, old
    <3>4. Thread(Append(old.msgs, Reply(r)), old.summary, Stamp[r]) \in ThreadStates
      BY <1>1, <3>2, ThreadType
    <3> QED
      BY <3>3, <3>4
  <2> QED
    BY <2>2, <2>3
<1>7. \A o \in Objects : obj'[o] =
        IF o = held[r] THEN OwnThread(r, D)
        ELSE IF \E t \in D \ {ThreadOf[r]} : Destination(t, new) = o
        THEN OtherThread(r, CHOOSE t \in D \ {ThreadOf[r]} : Destination(t, new) = o)
        ELSE obj[o]
  BY DEF DeliverTo
<1>w. Whole \subseteq Threads
  BY DEF Whole
<1>8. ASSUME NEW t \in Whole
      PROVE  Content(t)' = IF t \in D THEN Append(Content(t), Reply(r)) ELSE Content(t)
  <2>1. CASE t = ThreadOf[r]
    <3>1. Content(t)' = OwnThread(r, D).msgs
      BY <1>1, <1>2, <1>7, <1>w, <2>1 DEF Content
    <3> QED
      BY <1>4, <2>1, <3>1
  <2>2. CASE t # ThreadOf[r] /\ t \in D
    <3> DEFINE d == Destination(t, new)
    <3>1. d \in Objects /\ d # None /\ d # held[r]
      BY <1>w, <2>2, DestinationsDiffer
    <3>2. (CHOOSE s \in D \ {ThreadOf[r]} : Destination(s, new) = d) = t
      BY <1>w, <2>2, DestinationsDiffer
    <3>3. obj'[d] = OtherThread(r, t)
      BY <1>7, <2>2, <3>1, <3>2
    <3> QED
      BY <1>2, <1>5, <1>w, <2>2, <3>1, <3>3 DEF Content
  <2>3. CASE t # ThreadOf[r] /\ t \notin D
    <3>1. cache'[t] = cache[t] /\ store'[t] = store[t]
      BY <1>2, <1>3, <1>w, <2>3
    <3>2. CASE cache[t] = None
      BY <2>3, <3>1, <3>2 DEF Content, StateFromRecord
    <3>3. CASE cache[t] # None
      <4>1. cache[t] \in Objects /\ cache[t] # held[r]
        BY <1>1, <1>w, <2>3, <3>3 DEF TypeOK, Owned
      <4>2. \A s \in D \ {ThreadOf[r]} : Destination(s, new) # cache[t]
        BY <1>w, <2>3, DestinationsDiffer
      <4> QED
        BY <1>7, <2>3, <3>1, <3>3, <4>1, <4>2 DEF Content
    <3> QED
      BY <3>2, <3>3
  <2> QED
    BY <2>1, <2>2, <2>3
<1>9. ASSUME NEW t \in Whole
      PROVE  Stored(t)' = IF t \in D \/ t = ThreadOf[r] THEN Content(t)' ELSE Stored(t)
  <2>1. Stored(t)' = IF store'[t] = None THEN NewThread.msgs ELSE store'[t].msgs
    BY DEF Stored, StateFromRecord
  <2>2. CASE t = ThreadOf[r]
    BY <1>3, <1>4, <1>6, <1>8, <1>w, <2>1, <2>2
  <2>3. CASE t # ThreadOf[r] /\ t \in D
    BY <1>3, <1>5, <1>6, <1>8, <1>w, <2>1, <2>3
  <2>4. CASE t # ThreadOf[r] /\ t \notin D
    BY <1>3, <1>w, <2>1, <2>4 DEF Stored, StateFromRecord
  <2> QED
    BY <2>2, <2>3, <2>4
<1> QED
  BY <1>8, <1>9

-----------------------------------------------------------------------------
(* Durable is inductive.                                                    *)

\* What a run has said stays where it is as long as memory and table of the whole
\* threads only grow.
LEMMA RunKeptFrame ==
    ASSUME NEW q \in Runs, q \in Writers, ThreadOf[q] \in Threads, sent[q] \subseteq Threads,
           RunKept(q), pc'[q] = pc[q], sent'[q] = sent[q], pc[q] \notin Marking, Whole' \subseteq Whole,
           \A t \in Whole' : InMemory(t) \subseteq InMemory(t)' /\ InTable(t) \subseteq InTable(t)'
    PROVE  RunKept(q)'
BY DEF RunKept, Marking

\* No step loses what a whole thread has said in memory or in the table, short of
\* an applied compaction, whose losses are counted; and the runs' own words are in
\* the table before the run is marked.
LEMMA DurableNext ==
    ASSUME TypeOK, Owned, Durable, [Next]_vars
    PROVE  Durable'
<1> USE PipelineAssumption, NoneAssumption
<1>a. \A q \in Runs : q \in Writers /\ ThreadOf[q] \in Threads /\ sent[q] \subseteq Threads /\ RunKept(q)
  BY DEF Writers, TypeOK, Durable
<1>b. /\ \A t \in Threads : Content(t) \in Seq(Messages) /\ Stored(t) \in Seq(Messages)
      /\ \A t \in Whole : Elements(Stored(t)) \subseteq InMemory(t)
  BY ContentType DEF Durable
<1>c. Whole' \subseteq Whole /\ Whole \subseteq Threads
  BY TornGrows DEF Whole
\* A step of run r that saves nothing: its thread may only grow in memory.
<1>m. ASSUME NEW r \in Runs, pc[r] \in Suspended, pc'[r] \in {"compacting", "agent", "crashed"}, LoopFree,
             \A q \in Runs : q # r => pc'[q] = pc[q], sent' = sent, store' = store,
             \A t \in Threads : dropped[t] \subseteq dropped'[t],
             \A t \in Whole' : InMemory(t) \subseteq InMemory(t)',
             \A t \in Threads : t # ThreadOf[r] => Content(t)' = Content(t),
             pc'[r] \in {"compacting", "agent"} /\ ThreadOf[r] \in Whole' => User(r) \in InMemory(ThreadOf[r])'
      PROVE  Durable'
  <2>1. \A t \in Threads : Stored(t)' = Stored(t) /\ InTable(t) \subseteq InTable(t)'
    BY <1>m DEF Stored, StateFromRecord, InTable
  <2>2. \A t \in Whole' : Elements(Stored(t))' \subseteq InMemory(t)'
    BY <1>b, <1>c, <1>m, <2>1
  <2>3. ASSUME NEW t \in Whole', \A q \in Runs : ThreadOf[q] = t => ~Active(q)'
        PROVE Content(t)' = Stored(t)'
    <3>1. t # ThreadOf[r] /\ \A q \in Runs : ThreadOf[q] = t => ~Active(q)
      BY <1>m, <2>3 DEF Active, Suspended
    <3> QED
      BY <1>c, <1>m, <2>1, <3>1 DEF Durable
  <2>4. ASSUME NEW q \in Runs PROVE RunKept(q)'
    <3>1. CASE q = r
      BY <1>m, <3>1 DEF RunKept, Suspended, Marking
    <3>2. CASE q # r
      BY <1>a, <1>c, <1>m, <2>1, <3>2, RunKeptFrame DEF LoopFree
    <3> QED
      BY <3>1, <3>2
  <2> QED
    BY <2>2, <2>3, <2>4 DEF Durable
\* A step that changes no thread: what a run's end asks for must hold already.
<1>n. ASSUME \A t \in Whole' : Content(t)' = Content(t) /\ Stored(t)' = Stored(t), dropped' = dropped,
             \A t \in Whole' : (\A q \in Runs : ThreadOf[q] = t => ~Active(q)') =>
                 \/ \A q \in Runs : ThreadOf[q] = t => ~Active(q)
                 \/ Content(t) = Stored(t),
             \A q \in Runs : sent'[q] = sent[q] /\
                 \/ pc'[q] = pc[q]
                 \/ pc[q] = "finishing" /\ pc'[q] = "completed"
                 \/ pc[q] = "idle" /\ pc'[q] = "preparing"
                 \/ pc'[q] \in {"failed", "interrupted"}
      PROVE  Durable'
  <2>1. \A t \in Whole' : InMemory(t)' = InMemory(t) /\ InTable(t)' = InTable(t)
    BY <1>n DEF InMemory, InTable
  <2>2. \A t \in Whole' : Elements(Stored(t))' \subseteq InMemory(t)'
    BY <1>b, <1>c, <1>n, <2>1
  <2>3. \A t \in Whole' : (\A q \in Runs : ThreadOf[q] = t => ~Active(q)') => Content(t)' = Stored(t)'
    BY <1>c, <1>n DEF Durable
  <2>4. ASSUME NEW q \in Runs PROVE RunKept(q)'
    BY <1>a, <1>c, <1>n, <2>1 DEF RunKept, Marking
  <2> QED
    BY <2>2, <2>3, <2>4 DEF Durable
\* A step that saves the threads in S.
<1>v. ASSUME NEW S \in SUBSET Threads, dropped' = dropped,
             \A t \in S \cap Whole' : Stored(t)' = Content(t)' /\ Elements(Content(t)) \subseteq Elements(Content(t)'),
             \A t \in Whole' \ S : Content(t)' = Content(t) /\ Stored(t)' = Stored(t)
      PROVE  \A t \in Whole' : /\ InMemory(t) \subseteq InMemory(t)' /\ InTable(t) \subseteq InTable(t)'
                               /\ Elements(Stored(t))' \subseteq InMemory(t)'
  <2>1. ASSUME NEW t \in S \cap Whole' PROVE InMemory(t) \subseteq InTable(t)' /\ InTable(t)' = InMemory(t)'
    BY <1>v, <2>1 DEF InMemory, InTable
  <2>2. \A t \in Whole' : InTable(t) \subseteq InMemory(t)
    BY <1>b, <1>c DEF InMemory, InTable
  <2>3. \A t \in Whole' \ S : InMemory(t)' = InMemory(t) /\ InTable(t)' = InTable(t)
    BY <1>v DEF InMemory, InTable
  <2>4. \A t \in Threads : Elements(Stored(t))' \subseteq InTable(t)'
    BY DEF InTable
  <2> SUFFICES ASSUME NEW t \in Whole'
               PROVE  /\ InMemory(t) \subseteq InMemory(t)' /\ InTable(t) \subseteq InTable(t)'
                      /\ Elements(Stored(t))' \subseteq InMemory(t)'
    OBVIOUS
  <2>5. CASE t \in S
    BY <1>c, <2>1, <2>2, <2>4, <2>5
  <2>6. CASE t \notin S
    BY <1>b, <1>c, <1>v, <2>3, <2>6
  <2> QED
    BY <2>5, <2>6
<1>w. ASSUME LoopFree, NEW S \in SUBSET Threads, dropped' = dropped,
             \A t \in S \cap Whole' : Stored(t)' = Content(t)' /\ Elements(Content(t)) \subseteq Elements(Content(t)'),
             \A t \in Whole' \ S : Content(t)' = Content(t) /\ Stored(t)' = Stored(t),
             \A q \in Runs : Active(q) => Active(q)',
             \A q \in Runs : (pc'[q] = pc[q] /\ sent'[q] = sent[q]) \/ RunKept(q)'
      PROVE  Durable'
  <2>1. \A t \in Whole' : /\ InMemory(t) \subseteq InMemory(t)' /\ InTable(t) \subseteq InTable(t)'
                          /\ Elements(Stored(t))' \subseteq InMemory(t)'
    BY <1>w, <1>v
  <2>2. \A t \in Whole' : (\A q \in Runs : ThreadOf[q] = t => ~Active(q)') => Content(t)' = Stored(t)'
    BY <1>c, <1>w DEF Durable
  <2>3. ASSUME NEW q \in Runs PROVE RunKept(q)'
    BY <1>a, <1>c, <1>w, <2>1, RunKeptFrame DEF LoopFree
  <2> QED
    BY <2>1, <2>2, <2>3 DEF Durable
<1>0. CASE UNCHANGED vars
  BY <1>0, <1>c, <1>n DEF vars, data, Content, Stored, StateFromRecord, Active
<1>1. ASSUME NEW r \in Runs, HandleEvent(r) PROVE Durable'
  <2>1. PICK o \in Objects, next \in {"preparing", "failed"} :
          /\ GetOrCreate(ThreadOf[r], o)
          /\ obj' = [obj EXCEPT ![o] = Raised(Loaded(ThreadOf[r], o), Stamp[r])]
          /\ cache' = [cache EXCEPT ![ThreadOf[r]] = o]
          /\ pc' = [pc EXCEPT ![r] = next]
    BY <1>1 DEF HandleEvent
  <2>2. pc[r] = "idle" /\ store' = store /\ dropped' = dropped /\ sent' = sent
    BY <1>1 DEF HandleEvent
  <2>3. Raised(Loaded(ThreadOf[r], o), Stamp[r]).msgs = Loaded(ThreadOf[r], o).msgs
    BY DEF Raised, Thread
  <2>4. \A t \in Threads : Content(t)' = Content(t) /\ Stored(t)' = Stored(t)
    <3>1. PICK th : th = Raised(Loaded(ThreadOf[r], o), Stamp[r])
      OBVIOUS
    <3>2. obj' = [obj EXCEPT ![o] = th] /\ th.msgs = Loaded(ThreadOf[r], o).msgs
      BY <2>1, <2>3, <3>1
    <3>3. PICK T \in Threads : T = ThreadOf[r]
      BY <1>a
    <3>4. /\ \A t \in Threads : Content(t)' = IF t = T THEN th.msgs ELSE Content(t)
          /\ Loaded(T, o).msgs = Content(T)
      <4>1. GetOrCreate(T, o) /\ cache' = [cache EXCEPT ![T] = o] /\ obj' = [obj EXCEPT ![o] = th]
        BY <2>1, <3>2, <3>3
      <4>2. \A t \in Threads \ {T} : store'[t] = store[t]
        BY <2>2
      <4> QED
        BY <4>1, <4>2, LoadedWrite
    <3>5. \A t \in Threads : Stored(t)' = Stored(t)
      BY <2>2 DEF Stored, StateFromRecord
    <3> QED
      BY <3>2, <3>3, <3>4, <3>5
  <2>5. \A q \in Runs : /\ sent'[q] = sent[q] /\ (Active(q) => Active(q)')
                        /\ pc'[q] = pc[q] \/ (pc[q] = "idle" /\ pc'[q] = "preparing") \/ pc'[q] = "failed"
    <3>1. \A q \in Runs : pc'[q] = IF q = r THEN next ELSE pc[q]
      BY <2>1 DEF TypeOK
    <3> QED
      BY <2>1, <2>2, <3>1 DEF Active, Suspended, Marking
  <2> QED
    BY <1>c, <1>n, <2>2, <2>4, <2>5
<1>2. ASSUME NEW r \in Runs, RecordMessage(r) PROVE Durable'
  <2> DEFINE T == ThreadOf[r]
             th == Thread(Appended(r), obj[held[r]].summary, Stamp[r])
  <2>1. /\ LoopFree /\ pc[r] = "preparing" /\ Active(r)
        /\ obj' = [obj EXCEPT ![held[r]] = th] /\ Save(r, th)
        /\ pc' = [pc EXCEPT ![r] = "finishing"] /\ dropped' = dropped /\ sent' = sent
    BY <1>2 DEF RecordMessage, Active, Suspended
  <2>2. /\ T \in Threads /\ (T \in Whole => Content(T) = obj[held[r]].msgs)
        /\ th \in ThreadStates /\ th.msgs = Append(obj[held[r]].msgs, User(r))
        /\ User(r) \in Messages
    <3>1. r \in Writers /\ Stamp[r] \in Nat /\ Appended(r) \in Seq(Messages) /\ obj[held[r]] \in ThreadStates
      BY <2>1, RunContent, AppendedType
    <3>2. obj[held[r]].summary \in SUBSET Messages
      BY <3>1, ThreadParts
    <3>3. th \in ThreadStates
      BY <3>1, <3>2, ThreadType
    <3>4. th.msgs = Append(obj[held[r]].msgs, User(r))
      BY DEF Thread, Appended
    <3> QED
      BY <2>1, <3>1, <3>3, <3>4, RunContent, MessageType
  <2> HIDE DEF th
  <2>3. cache' = [cache EXCEPT ![T] = held[r]] /\ store' = [store EXCEPT ![T] = th]
    BY <2>1 DEF Save
  <2>4. /\ \A t \in Threads \ {T} : Content(t)' = Content(t)
        /\ T \in Whole => Content(T)' = th.msgs
    <3>1. \A t \in Threads \ {ThreadOf[r]} : store'[t] = store[t]
      BY <2>3 DEF TypeOK
    <3>2. cache' = [cache EXCEPT ![ThreadOf[r]] = held[r]]
      BY <2>3
    <3> QED
      BY <2>1, <3>1, <3>2, OwnWrite
  <2>5. \A t \in Threads : Stored(t)' = IF t = T THEN th.msgs ELSE Stored(t)
    BY <2>2, <2>3 DEF Stored, StateFromRecord, TypeOK
  <2>6. T \in Whole => Elements(th.msgs) = Elements(Content(T)) \cup {User(r)}
    BY <1>b, <2>2, ElementsAppend
  <2>7. RunKept(r)'
    <3>1. pc'[r] = "finishing" /\ sent'[r] = {}
      BY <1>a, <2>1 DEF RunKept, TypeOK
    <3>2. T \in Whole => User(r) \in InTable(T)'
      BY <2>2, <2>5, <2>6 DEF InTable
    <3> QED
      BY <1>c, <2>2, <2>4, <2>5, <3>1, <3>2 DEF RunKept
  <2>8. \A q \in Runs : Active(q) => Active(q)'
    BY <2>1 DEF Active, Marking, TypeOK
  <2>9. \A q \in Runs : q # r => pc'[q] = pc[q] /\ sent'[q] = sent[q]
    BY <2>1 DEF TypeOK
  <2> DEFINE S == {T}
  <2>10. \A t \in S \cap Whole' : Stored(t)' = Content(t)' /\ Elements(Content(t)) \subseteq Elements(Content(t)')
    BY <1>c, <2>2, <2>4, <2>5, <2>6
  <2>11. \A t \in Whole' \ S : Content(t)' = Content(t) /\ Stored(t)' = Stored(t)
    BY <1>c, <2>4, <2>5
  <2>12. S \in SUBSET Threads
    BY <2>2
  <2> HIDE DEF S
  <2> QED
    BY <1>w, <2>1, <2>7, <2>8, <2>9, <2>10, <2>11, <2>12
<1>3. ASSUME NEW r \in Runs, CompactNow(r) PROVE Durable'
  <2> DEFINE T == ThreadOf[r]
  <2>1. LoopFree /\ pc[r] = "preparing" /\ Active(r)
    BY <1>3 DEF CompactNow, Active, Suspended
  <2>2. PICK u \in Compactions(Appended(r)) :
          /\ obj' = [obj EXCEPT ![held[r]] = Thread(u, obj[held[r]].summary, Stamp[r])]
          /\ dropped' = [dropped EXCEPT ![T] = @ \cup (Elements(Appended(r)) \ Elements(u))]
    BY <1>3 DEF CompactNow
  <2>3. /\ T \in Threads /\ User(r) \in Messages
        /\ T \in Whole => Appended(r) = Append(Content(T), User(r))
    BY <2>1, RunContent, MessageType DEF Appended
  <2>4. T \in Whole => Elements(Appended(r)) = Elements(Content(T)) \cup {User(r)}
    BY <1>b, <2>3, ElementsAppend
  <2>5. cache' = cache /\ store' = store /\ pc' = [pc EXCEPT ![r] = "agent"] /\ sent' = sent
    BY <1>3 DEF CompactNow
  <2> DEFINE th == Thread(u, obj[held[r]].summary, Stamp[r])
  <2>6. /\ \A t \in Threads \ {T} : Content(t)' = Content(t)
        /\ T \in Whole => Content(T)' = u
    <3>1. th.msgs = u
      BY DEF Thread
    <3>2. obj' = [obj EXCEPT ![held[r]] = th]
      BY <2>2
    <3> HIDE DEF th
    <3>3. /\ \A t \in Threads \ {ThreadOf[r]} : Content(t)' = Content(t)
          /\ ThreadOf[r] \in Whole => Content(ThreadOf[r])' = th.msgs
      BY <2>1, <2>5, <3>2, OwnWrite
    <3> QED
      BY <3>1, <3>3
  <2>7. \A t \in Threads : dropped'[t] = IF t = T THEN dropped[t] \cup (Elements(Appended(r)) \ Elements(u)) ELSE dropped[t]
    BY <2>2 DEF TypeOK
  <2>8. \A t \in Whole' : InMemory(t) \subseteq InMemory(t)'
    BY <1>c, <2>3, <2>4, <2>6, <2>7 DEF InMemory
  <2>9. T \in Whole' => User(r) \in InMemory(T)'
    BY <1>c, <2>3, <2>4, <2>6, <2>7 DEF InMemory
  <2>10. pc[r] \in Suspended /\ pc'[r] = "agent" /\ \A q \in Runs : q # r => pc'[q] = pc[q]
    BY <2>1, <2>5 DEF TypeOK, Suspended
  <2>11. \A t \in Threads : dropped[t] \subseteq dropped'[t]
    BY <2>7
  <2> QED
    BY <1>m, <2>1, <2>5, <2>6, <2>8, <2>9, <2>10, <2>11
<1>4. ASSUME NEW r \in Runs, CompactBegin(r) PROVE Durable'
  <2> DEFINE T == ThreadOf[r]
             th == Thread(Appended(r), obj[held[r]].summary, Stamp[r])
  <2>1. /\ LoopFree /\ pc[r] = "preparing" /\ Active(r)
        /\ obj' = [obj EXCEPT ![held[r]] = th] /\ pc' = [pc EXCEPT ![r] = "compacting"]
        /\ cache' = cache /\ store' = store /\ dropped' = dropped /\ sent' = sent
    BY <1>4 DEF CompactBegin, Active, Suspended
  <2>2. /\ T \in Threads /\ User(r) \in Messages
        /\ T \in Whole => th.msgs = Append(Content(T), User(r))
    BY <2>1, RunContent, MessageType DEF Appended, Thread
  <2> HIDE DEF th
  <2>3. T \in Whole => Elements(th.msgs) = Elements(Content(T)) \cup {User(r)}
    BY <1>b, <2>2, ElementsAppend
  <2>4. /\ \A t \in Threads \ {T} : Content(t)' = Content(t)
        /\ T \in Whole => Content(T)' = th.msgs
    BY <2>1, OwnWrite
  <2>5. /\ \A t \in Whole' : InMemory(t) \subseteq InMemory(t)'
        /\ T \in Whole' => User(r) \in InMemory(T)'
    BY <1>c, <2>1, <2>2, <2>3, <2>4 DEF InMemory
  <2>6. pc[r] \in Suspended /\ pc'[r] = "compacting" /\ \A q \in Runs : q # r => pc'[q] = pc[q]
    BY <2>1 DEF TypeOK, Suspended
  <2> QED
    BY <1>m, <2>1, <2>4, <2>5, <2>6
<1>5. ASSUME NEW r \in Runs, CompactEnd(r) PROVE Durable'
  <2> DEFINE T == ThreadOf[r]
  <2>1. /\ LoopFree /\ pc[r] = "compacting" /\ Active(r) /\ pc' = [pc EXCEPT ![r] = "agent"]
        /\ cache' = cache /\ store' = store /\ sent' = sent
        /\ dropped' = IF Matches(r) THEN [dropped EXCEPT ![T] = @ \cup Lost(r)] ELSE dropped
    BY <1>5 DEF CompactEnd, Active, Suspended
  <2>2. PICK s : obj' = IF Matches(r)
                 THEN [obj EXCEPT ![held[r]] = Thread(kept[r], s, obj[held[r]].last)] ELSE obj
    BY <1>5 DEF CompactEnd
  <2>3. T \in Threads /\ (T \in Whole => Content(T) = obj[held[r]].msgs)
    BY <2>1, RunContent
  <2>4. pc[r] \in Suspended /\ pc'[r] = "agent" /\ \A q \in Runs : q # r => pc'[q] = pc[q]
    BY <2>1 DEF TypeOK, Suspended
  <2>5. T \in Whole => User(r) \in InMemory(T)
    BY <1>a, <2>1 DEF RunKept
  <2>6. /\ \A t \in Threads : dropped[t] \subseteq dropped'[t]
        /\ \A t \in Whole' : InMemory(t) \subseteq InMemory(t)'
        /\ \A t \in Threads : t # T => Content(t)' = Content(t)
    <3>1. CASE Matches(r)
      <4>1. T \in Whole' => Content(T) = snap[r].msgs
        BY <1>5, <1>c, <2>3, <3>1 DEF CompactEnd, Whole
      <4>2. /\ \A t \in Threads \ {T} : Content(t)' = Content(t)
            /\ T \in Whole => Content(T)' = kept[r]
        <5>1. PICK th : th = Thread(kept[r], s, obj[held[r]].last)
          OBVIOUS
        <5>2. th.msgs = kept[r]
          BY <5>1 DEF Thread
        <5>3. obj' = [obj EXCEPT ![held[r]] = th]
          BY <2>2, <3>1, <5>1
        <5>4. /\ \A t \in Threads \ {ThreadOf[r]} : Content(t)' = Content(t)
              /\ ThreadOf[r] \in Whole => Content(ThreadOf[r])' = th.msgs
          BY <2>1, <5>3, OwnWrite
        <5> QED
          BY <5>2, <5>4
      <4>3. \A t \in Threads : dropped'[t] = IF t = T THEN dropped[t] \cup Lost(r) ELSE dropped[t]
        BY <2>1, <3>1 DEF TypeOK
      <4> QED
        BY <1>c, <4>1, <4>2, <4>3 DEF Lost, InMemory
    <3>2. CASE ~Matches(r)
      BY <2>1, <2>2, <3>2 DEF InMemory, Content, StateFromRecord
    <3> QED
      BY <3>1, <3>2
  <2> QED
    BY <1>c, <1>m, <2>1, <2>3, <2>4, <2>5, <2>6
<1>6. ASSUME NEW r \in Runs, Deliver(r) PROVE Durable'
  <2> DEFINE T == ThreadOf[r]
  <2>1. /\ LoopFree /\ pc[r] = "agent" /\ Active(r) /\ pc' = [pc EXCEPT ![r] = "finishing"]
        /\ dropped' = dropped
    BY <1>6 DEF Deliver, Active, Suspended
  <2>2. PICK D \in SUBSET Threads :
          \E new \in Allocations({t \in D \ {T} : cache[t] = None}) : DeliverTo(r, D, new)
    BY <1>6 DEF Deliver
  <2>3. PICK new \in Allocations({t \in D \ {T} : cache[t] = None}) : DeliverTo(r, D, new)
    BY <2>2
  <2>4. \A t \in Whole :
          /\ Content(t)' = IF t \in D THEN Append(Content(t), Reply(r)) ELSE Content(t)
          /\ Stored(t)' = IF t \in D \/ t = T THEN Content(t)' ELSE Stored(t)
    BY <2>1, <2>3, DeliverWrites
  <2>5. T \in Threads /\ r \in Writers /\ Reply(r) \in Messages
    BY <1>a, MessageType
  <2>6. \A t \in D : Elements(Append(Content(t), Reply(r))) = Elements(Content(t)) \cup {Reply(r)}
    BY <1>b, <2>5, ElementsAppend
  <2>7. sent' = [sent EXCEPT ![r] = D]
    BY <2>3 DEF DeliverTo
  <2> DEFINE S == D \cup {T}
  <2>8. \A t \in S \cap Whole' : Stored(t)' = Content(t)' /\ Elements(Content(t)) \subseteq Elements(Content(t)')
    BY <1>c, <2>4, <2>5, <2>6
  <2>9. \A t \in Whole' \ S : Content(t)' = Content(t) /\ Stored(t)' = Stored(t)
    BY <1>c, <2>4
  <2>14. S \in SUBSET Threads
    BY <2>5
  <2>10. \A t \in Whole' : InMemory(t) \subseteq InMemory(t)'
    <3> HIDE DEF S
    <3> QED
      BY <1>v, <2>1, <2>8, <2>9, <2>14
  <2>11. RunKept(r)'
    <3>1. pc'[r] = "finishing" /\ sent'[r] = D
      BY <2>1, <2>7 DEF TypeOK
    <3>2. T \in Whole => User(r) \in InMemory(T)
      BY <1>a, <2>1 DEF RunKept
    <3>3. T \in Whole' => User(r) \in InTable(T)'
      BY <1>c, <2>5, <2>8, <2>10, <3>2 DEF InMemory, InTable
    <3>4. \A t \in D \cap Whole' : Reply(r) \in InTable(t)'
      BY <1>c, <2>4, <2>6 DEF InTable
    <3> QED
      BY <2>8, <3>1, <3>3, <3>4 DEF RunKept
  <2>12. \A q \in Runs : Active(q) => Active(q)'
    BY <2>1 DEF Active, Marking, TypeOK
  <2>13. \A q \in Runs : q # r => pc'[q] = pc[q] /\ sent'[q] = sent[q]
    BY <2>1, <2>7 DEF TypeOK
  <2> HIDE DEF S
  <2> QED
    BY <1>w, <2>1, <2>8, <2>9, <2>11, <2>12, <2>13, <2>14
<1>7. ASSUME NEW r \in Runs, Raise(r) PROVE Durable'
  <2>1. /\ LoopFree /\ pc[r] \in Suspended /\ pc' = [pc EXCEPT ![r] = "crashed"]
        /\ UNCHANGED <<obj, cache, store, dropped, sent>>
    BY <1>7 DEF Raise, data, Suspended
  <2>2. \A t \in Threads : Content(t)' = Content(t) /\ InMemory(t)' = InMemory(t)
    BY <2>1 DEF Content, StateFromRecord, InMemory
  <2>3. pc'[r] = "crashed" /\ \A q \in Runs : q # r => pc'[q] = pc[q]
    BY <2>1 DEF TypeOK
  <2> QED
    BY <1>c, <1>m, <2>1, <2>2, <2>3
<1>8. ASSUME NEW r \in Runs, SaveThreadSafely(r) PROVE Durable'
  <2> DEFINE T == ThreadOf[r]
  <2>1. /\ LoopFree /\ pc[r] = "crashed" /\ Active(r) /\ Save(r, obj[held[r]])
        /\ pc' = [pc EXCEPT ![r] = "failing"] /\ obj' = obj /\ dropped' = dropped /\ sent' = sent
    BY <1>8 DEF SaveThreadSafely, Active, Suspended
  <2>2. /\ T \in Threads /\ (T \in Whole => cache[T] = held[r] /\ Content(T) = obj[held[r]].msgs)
        /\ held[r] # None /\ obj[held[r]] \in ThreadStates
    BY <2>1, RunContent, AppendedType
  <2>3. cache' = [cache EXCEPT ![T] = held[r]] /\ store' = [store EXCEPT ![T] = obj[held[r]]]
    BY <2>1 DEF Save
  <2>4. \A t \in Whole : Content(t)' = Content(t)
    BY <1>c, <2>1, <2>2, <2>3 DEF Content, StateFromRecord, TypeOK
  <2>5. \A t \in Whole : Stored(t)' = IF t = T THEN Content(t) ELSE Stored(t)
    BY <1>c, <2>2, <2>3 DEF Stored, StateFromRecord, TypeOK
  <2>6. RunKept(r)'
    <3>1. pc'[r] = "failing"
      BY <2>1 DEF TypeOK
    <3> QED
      BY <1>c, <2>2, <2>4, <2>5, <3>1 DEF RunKept
  <2>7. \A q \in Runs : Active(q) => Active(q)'
    BY <2>1 DEF Active, Marking, TypeOK
  <2>8. \A q \in Runs : q # r => pc'[q] = pc[q] /\ sent'[q] = sent[q]
    BY <2>1 DEF TypeOK
  <2> DEFINE S == {T}
  <2>9. \A t \in S \cap Whole' : Stored(t)' = Content(t)' /\ Elements(Content(t)) \subseteq Elements(Content(t)')
    BY <1>c, <2>2, <2>4, <2>5
  <2>10. \A t \in Whole' \ S : Content(t)' = Content(t) /\ Stored(t)' = Stored(t)
    BY <1>c, <2>4, <2>5
  <2>11. S \in SUBSET Threads
    BY <2>2
  <2> HIDE DEF S
  <2> QED
    BY <1>w, <2>1, <2>6, <2>7, <2>8, <2>9, <2>10, <2>11
<1>9. ASSUME NEW r \in Runs, FinishRun(r) PROVE Durable'
  <2>1. /\ pc[r] \in Marking /\ UNCHANGED <<obj, cache, store, dropped, sent>>
        /\ pc' = [pc EXCEPT ![r] = IF pc[r] = "finishing" THEN "completed" ELSE "failed"]
    BY <1>9 DEF FinishRun, data
  <2>2. \A t \in Threads : Content(t)' = Content(t) /\ Stored(t)' = Stored(t)
    BY <2>1 DEF Content, Stored, StateFromRecord
  <2>3. ThreadOf[r] \in Whole => Content(ThreadOf[r]) = Stored(ThreadOf[r])
    BY <1>a, <2>1 DEF RunKept
  <2>4. \A q \in Runs : q # r => pc'[q] = pc[q]
    BY <2>1 DEF TypeOK
  <2>5. (pc[r] = "finishing" /\ pc'[r] = "completed") \/ pc'[r] = "failed"
    BY <2>1 DEF TypeOK
  <2>6. ASSUME NEW t \in Whole', \A q \in Runs : ThreadOf[q] = t => ~Active(q)'
        PROVE  (\A q \in Runs : ThreadOf[q] = t => ~Active(q)) \/ Content(t) = Stored(t)
    BY <1>c, <2>3, <2>4, <2>6 DEF Active
  <2>7. \A q \in Runs : sent'[q] = sent[q]
    BY <2>1
  <2> QED
    BY <1>c, <1>n, <2>1, <2>2, <2>4, <2>5, <2>6, <2>7
<1>10. ASSUME NEW n \in Notes, Notify(n) PROVE Durable'
  <2> DEFINE T == ThreadOf[n]
  <2>1. n \in Writers /\ T \in Threads /\ Stamp[n] \in Nat /\ Reply(n) \in Messages
    BY MessageType DEF Writers
  <2>2. PICK o \in Objects :
          /\ GetOrCreate(T, o)
          /\ LET th == Thread(Append(Loaded(T, o).msgs, Reply(n)), Loaded(T, o).summary, Stamp[n])
             IN /\ obj' = [obj EXCEPT ![o] = th] /\ store' = [store EXCEPT ![T] = th]
          /\ cache' = [cache EXCEPT ![T] = o]
    BY <1>10 DEF Notify
  <2> DEFINE th == Thread(Append(Loaded(T, o).msgs, Reply(n)), Loaded(T, o).summary, Stamp[n])
  <2>3. /\ LoopFree /\ pc' = pc /\ dropped' = dropped /\ sent' = sent
        /\ obj' = [obj EXCEPT ![o] = th] /\ store' = [store EXCEPT ![T] = th]
    BY <1>10, <2>2 DEF Notify
  <2>4. th \in ThreadStates /\ th.msgs = Append(Loaded(T, o).msgs, Reply(n))
    <3>1. Loaded(T, o) \in ThreadStates
      BY <2>1, LoadedType
    <3>2. Append(Loaded(T, o).msgs, Reply(n)) \in Seq(Messages) /\ Loaded(T, o).summary \in SUBSET Messages
      BY <2>1, <3>1, ThreadParts, AppendKeeps
    <3>3. th \in ThreadStates
      BY <2>1, <3>2, ThreadType
    <3>4. th.msgs = Append(Loaded(T, o).msgs, Reply(n))
      BY DEF Thread
    <3> QED
      BY <3>3, <3>4
  <2> HIDE DEF th
  <2>5. /\ \A t \in Threads : Content(t)' = IF t = T THEN th.msgs ELSE Content(t)
        /\ Loaded(T, o).msgs = Content(T)
    <3>1. \A t \in Threads \ {T} : store'[t] = store[t]
      BY <2>3 DEF TypeOK
    <3> QED
      BY <2>1, <2>2, <2>3, <3>1, LoadedWrite
  <2>6. \A t \in Threads : Stored(t)' = IF t = T THEN th.msgs ELSE Stored(t)
    BY <2>1, <2>3, <2>4 DEF Stored, StateFromRecord, TypeOK
  <2>7. Elements(th.msgs) = Elements(Content(T)) \cup {Reply(n)}
    BY <1>b, <2>1, <2>4, <2>5, ElementsAppend
  <2> DEFINE S == {T}
  <2>8. \A t \in S \cap Whole' : Stored(t)' = Content(t)' /\ Elements(Content(t)) \subseteq Elements(Content(t)')
    BY <2>1, <2>5, <2>6, <2>7
  <2>9. \A t \in Whole' \ S : Content(t)' = Content(t) /\ Stored(t)' = Stored(t)
    BY <1>c, <2>5, <2>6
  <2>10. \A q \in Runs : (Active(q) => Active(q)') /\ pc'[q] = pc[q] /\ sent'[q] = sent[q]
    BY <2>3 DEF Active
  <2>11. S \in SUBSET Threads
    BY <2>1
  <2> HIDE DEF S
  <2> QED
    BY <1>w, <2>3, <2>8, <2>9, <2>10, <2>11
<1>11. CASE ListThreads
  <2>1. store' = store /\ dropped' = dropped /\ pc' = pc /\ sent' = sent
    BY <1>11 DEF ListThreads
  <2>2. PICK new \in Allocations({t \in Threads : store[t] # None}) :
          /\ cache' = [t \in Threads |-> IF store[t] # None THEN new[t] ELSE cache[t]]
          /\ obj' = [o \in Objects |->
                IF \E t \in DOMAIN new : new[t] = o
                THEN store[CHOOSE t \in DOMAIN new : new[t] = o] ELSE obj[o]]
          /\ torn' = torn \cup {t \in DOMAIN new : \E r \in Runs : ThreadOf[r] = t /\ Active(r)}
    BY <1>11 DEF ListThreads
  <2>3. /\ new \in [{t \in Threads : store[t] # None} -> Free]
        /\ \A s, t \in {x \in Threads : store[x] # None} : new[s] = new[t] => s = t
    BY <2>2 DEF Allocations
  <2>4. ASSUME NEW t \in Whole' PROVE Content(t)' = Content(t) /\ Stored(t)' = Stored(t)
    <3>0. Stored(t)' = Stored(t) /\ t \in Threads /\ t \in Whole
      BY <1>c, <2>1 DEF Stored, StateFromRecord
    <3>1. CASE store[t] # None
      <4>1. new[t] \in Objects /\ new[t] # None /\ cache'[t] = new[t]
        BY <2>2, <2>3, <3>0, <3>1 DEF Free
      <4>2. (CHOOSE s \in DOMAIN new : new[s] = new[t]) = t
        BY <2>3, <3>0, <3>1
      <4>3. obj'[new[t]] = store[t]
        BY <2>2, <2>3, <3>0, <3>1, <4>1, <4>2
      <4>4. Content(t)' = Stored(t)
        BY <3>1, <4>1, <4>3 DEF Content, Stored, StateFromRecord
      <4>5. \A r \in Runs : ThreadOf[r] = t => ~Active(r)
        BY <2>2, <2>3, <3>0, <3>1 DEF Whole
      <4>6. Content(t) = Stored(t)
        BY <3>0, <4>5 DEF Durable
      <4> QED
        BY <3>0, <4>4, <4>6
    <3>2. CASE store[t] = None
      <4>1. cache'[t] = cache[t]
        BY <2>2, <3>0, <3>2
      <4>2. cache[t] # None => obj'[cache[t]] = obj[cache[t]]
        BY <2>2, <2>3, <3>0 DEF Free, TypeOK
      <4> QED
        BY <2>1, <3>0, <4>1, <4>2 DEF Content, StateFromRecord
    <3> QED
      BY <3>1, <3>2
  <2>5. \A q \in Runs : Active(q)' = Active(q)
    BY <2>1 DEF Active
  <2> QED
    BY <1>n, <2>1, <2>4, <2>5
<1>12. CASE Crash
  <2>1. /\ cache' = [t \in Threads |-> None] /\ UNCHANGED <<obj, store, dropped, sent>>
        /\ pc' = [r \in Runs |-> IF Active(r) THEN "interrupted" ELSE pc[r]]
    BY <1>12 DEF Crash
  <2>2. \A t \in Threads : Stored(t)' = Stored(t) /\ Content(t)' = Stored(t)' /\ InTable(t)' = InTable(t)
    BY <2>1 DEF Stored, Content, StateFromRecord, InTable
  <2>3. ASSUME NEW q \in Runs PROVE RunKept(q)'
    BY <1>a, <1>c, <2>1, <2>2, <2>3 DEF RunKept, Active, Suspended, Marking
  <2> QED
    BY <1>c, <2>2, <2>3 DEF Durable, InMemory
<1> QED
  BY <1>0, <1>1, <1>2, <1>3, <1>4, <1>5, <1>6, <1>7, <1>8, <1>9, <1>10, <1>11, <1>12 DEF Next

\* For any number of runs, threads and notifications at any times, whatever
\* listings, compactions and crashes there were: the table has what every
\* completed run has said to a thread that was not torn, short of what an applied
\* compaction saw and dropped, and all there is once its runs are over.
THEOREM NothingUnsavedTheorem == Spec => []NothingUnsaved
<1> DEFINE IInv == TypeOK /\ Owned /\ Durable
<1>1. Init => IInv
  <2> SUFFICES ASSUME Init PROVE IInv
    OBVIOUS
  <2>1. Owned
    BY DEF Init, Owned, Active, Suspended, Marking
  <2>2. Durable
    BY DEF Init, Durable, RunKept, Content, Stored, StateFromRecord, InMemory, Marking, Whole
  <2> QED
    BY <2>1, <2>2, TypeInit
<1>2. IInv /\ [Next]_vars => IInv'
  BY TypeNext, OwnedNext, DurableNext
<1>3. IInv => NothingUnsaved
  <2> SUFFICES ASSUME IInv PROVE NothingUnsaved
    OBVIOUS
  <2>1. ASSUME NEW r \in Runs, pc[r] = "completed"
        PROVE  /\ ThreadOf[r] \notin torn => Survives(User(r), ThreadOf[r])
               /\ \A t \in sent[r] \ torn : Survives(Reply(r), t)
    <3>1. ThreadOf[r] \in Threads /\ sent[r] \subseteq Threads /\ RunKept(r)
      BY PipelineAssumption DEF Writers, TypeOK, Durable
    <3> QED
      BY <2>1, <3>1 DEF RunKept, InTable, Stored, Survives, Whole
  <2>2. \A t \in Threads \ torn : Saved(t)
    BY DEF Saved, Durable, Content, Stored, Whole
  <2> QED
    BY <2>1, <2>2 DEF NothingUnsaved
<1> QED
  BY <1>1, <1>2, <1>3, PTL DEF Spec
=============================================================================
