-------------------------- MODULE RunLifecycleProofs --------------------------
(***************************************************************************)
(* Proofs about RunLifecycle, for any number of runs, children, approve    *)
(* calls, asks and crashes.  The inductive invariant adds to TypeOK who    *)
(* may touch a run (Ownership) and which answer is still open (Budget).    *)
(***************************************************************************)
EXTENDS RunLifecycle, TLAPS

\* Tasks and approve calls only work on queued or running runs, or on one that
\* a forced call has marked cancelled meanwhile, never two on one run, and only
\* while the process is up.  What a forced call has listed exists.
Overruled(r) == status[r] = "cancelled" /\ r \in stopped

Ownership ==
    /\ \A r \in Runs : task[r] # "none" => status[r] \in {"queued", "running"} \/ Overruled(r)
    /\ \A r \in Runs : task[r] = "opened" => status[r] = "queued"
    /\ \A q \in Requests : owner[q] # None =>
           (status[owner[q]] = "running" \/ Overruled(owner[q])) /\ task[owner[q]] = "none"
    /\ \A p, q \in Requests : owner[p] # None /\ owner[p] = owner[q] => p = q
    /\ \A p \in Stops : \A r \in listed[p] : status[r] # "none"
    /\ phase # "up" => /\ \A r \in Runs : task[r] = "none"
                       /\ \A q \in Requests : owner[q] = None

\* The run has asked and its tool has neither been run nor refused.
Unanswered(r) ==
    status[r] = "waiting_approval" \/ \E q \in Requests : owner[q] = r /\ stage[q] = "resuming"

Budget == \A r \in Runs :
    /\ replays[r] + refusals[r] <= asks[r]
    /\ Unanswered(r) => replays[r] + refusals[r] < asks[r]

IInv == TypeOK /\ Ownership /\ Budget

-----------------------------------------------------------------------------

\* Every step keeps the variables in their types.
LEMMA TypeStep == TypeOK /\ [Next]_vars => TypeOK'
<1> SUFFICES ASSUME TypeOK, [Next]_vars PROVE TypeOK'
    OBVIOUS
<1> USE RunAssumption DEF TypeOK, Suspended, Active, Ended, Runs, table, memory, histories, vars
<1>1. ASSUME NEW r \in Runs, PipelineStep(r) \/ Reject(r) \/ Recover(r) PROVE TypeOK'
  <2>1. CASE Open(r) BY <2>1 DEF Open, Mark
  <2>2. CASE Delegate(r) BY <2>2 DEF Delegate, Mark
  <2>3. CASE DelegationEnds(r) BY <2>3 DEF DelegationEnds
  <2>4. CASE SetupFails(r) BY <2>4 DEF SetupFails, Mark
  <2>5. CASE Begin(r) BY <2>5 DEF Begin, Mark
  <2>6. CASE RecordOnly(r) BY <2>6 DEF RecordOnly, Mark
  <2>7. CASE CallAgent(r) BY <2>7 DEF CallAgent
  <2>8. CASE AskApproval(r) BY <2>8 DEF AskApproval
  <2>9. CASE Raise(r) BY <2>9 DEF Raise
  <2>10. CASE FinishError(r) BY <2>10 DEF FinishError, Mark
  <2>11. CASE Reject(r) BY <2>11 DEF Reject, Mark
  <2>12. CASE Recover(r)
    <3>1. CASE Lost(r) BY <2>12, <3>1 DEF Recover, Mark, Lost
    <3>2. CASE ~ Lost(r) BY <2>12, <3>2 DEF Recover
    <3>3. QED BY <3>1, <3>2
  <2>13. ASSUME NEW to \in Suspended, AgentReturns(r, to) PROVE TypeOK' BY <2>13 DEF AgentReturns
  <2>14. ASSUME NEW s \in Ended, FinishReply(r, s) PROVE TypeOK' BY <2>14 DEF FinishReply, Mark
  <2>15. ASSUME NEW delivered \in BOOLEAN, FinishAsking(r, delivered) PROVE TypeOK'
    <3>0. prompted' \subseteq Runs
      <4>1. prompted' = prompted \cup {r} \/ prompted' = prompted BY <2>15, Zenon DEF FinishAsking
      <4>2. QED BY <4>1
    <3>1. CASE MayWait(r, delivered)
      <4> HIDE DEF Runs
      <4>1. asks' \in [Runs -> Nat] /\ audit' = audit /\ status' \in [Runs -> {"none"} \cup Active \cup Ended]
        BY <2>15, <3>1 DEF FinishAsking, MarkWaiting
      <4>2. context' \in [Runs -> BOOLEAN] BY <2>15, <3>1 DEF FinishAsking, MarkWaiting
      <4>3. task' \in [Runs -> {"none", "opened"} \cup Suspended] BY <2>15 DEF FinishAsking
      <4>4. QED BY <2>15, <3>0, <4>1, <4>2, <4>3 DEF FinishAsking
    <3>2. CASE ~ MayWait(r, delivered)
      <4> HIDE DEF Runs
      <4>1. /\ asks' = asks /\ status' \in [Runs -> {"none"} \cup Active \cup Ended]
            /\ audit' \in [Runs -> {"none", "waiting_approval", "completed", "failed", "rejected"}]
        BY <2>15, <3>2 DEF FinishAsking, Mark
      <4>2. context' \in [Runs -> BOOLEAN] BY <2>15, <3>2 DEF FinishAsking, Mark
      <4>3. task' \in [Runs -> {"none", "opened"} \cup Suspended] BY <2>15 DEF FinishAsking
      <4>4. QED BY <2>15, <3>0, <4>1, <4>2, <4>3 DEF FinishAsking
    <3>3. QED BY <3>1, <3>2
  <2>16. QED BY <1>1, <2>1, <2>2, <2>3, <2>4, <2>5, <2>6, <2>7, <2>8, <2>9, <2>10, <2>11, <2>12, <2>13, <2>14, <2>15 DEF PipelineStep
<1>2. ASSUME NEW q \in Requests, ApprovalStep(q) PROVE TypeOK'
  <2>1. ASSUME NEW r \in Runs, Approve(q, r) PROVE TypeOK' BY <2>1 DEF Approve, Mark
  <2>2. ASSUME NEW a \in {"none", "waiting_approval", "completed", "failed", "rejected"}, ResumeFails(q, a) PROVE TypeOK' BY <2>2 DEF ResumeFails, Mark, Release
  <2>3. ASSUME NEW s \in Ended, ReplayEnds(q, s) PROVE TypeOK' BY <2>3 DEF ReplayEnds, Mark, Release
  <2>4. CASE ReplayTool(q) BY <2>4 DEF ReplayTool
  <2>5. CASE ReplayAsksAgain(q) BY <2>5 DEF ReplayAsksAgain, MarkWaiting, Release
  <2>6. QED BY <1>2, <2>1, <2>2, <2>3, <2>4, <2>5 DEF ApprovalStep
<1>3. ASSUME NEW p \in Stops, OperatorStep(p) PROVE TypeOK'
  <2>1. ASSUME NEW r \in Runs, StopBegins(p, ThreadOf[r]) PROVE TypeOK' BY <2>1 DEF StopBegins
  <2>2. CASE StopFails(p) BY <2>2 DEF StopFails
  <2>3. CASE StopMarks(p) BY <2>3 DEF StopMarks
  <2>4. QED BY <1>3, <2>1, <2>2, <2>3 DEF OperatorStep
<1>4. CASE Crash BY <1>4 DEF Crash
<1>5. CASE Start BY <1>5 DEF Start
<1>6. CASE Started BY <1>6 DEF Started, Lost
<1>7. CASE UNCHANGED vars BY <1>7
<1>8. QED BY <1>1, <1>2, <1>3, <1>4, <1>5, <1>6, <1>7 DEF Next

\* Every step keeps the ownership of runs: a new owner finds the run free.
LEMMA OwnershipStep == TypeOK /\ Ownership /\ [Next]_vars => Ownership'
<1> SUFFICES ASSUME TypeOK, Ownership, [Next]_vars PROVE Ownership'
    OBVIOUS
<1> USE RunAssumption DEF TypeOK, Ownership, Overruled, Suspended, Active, LoopFree, Runs, table, memory, histories, vars
<1>1. ASSUME NEW r \in Runs, PipelineStep(r) \/ Reject(r) \/ Recover(r) PROVE Ownership'
  <2>1. CASE Open(r) BY <2>1 DEF Open, Mark
  <2>2. CASE Delegate(r) BY <2>2 DEF Delegate, Mark
  <2>3. CASE DelegationEnds(r) BY <2>3 DEF DelegationEnds
  <2>4. CASE SetupFails(r) BY <2>4 DEF SetupFails, Mark
  <2>5. CASE Begin(r) BY <2>5 DEF Begin, Mark
  <2>6. CASE RecordOnly(r) BY <2>6 DEF RecordOnly, Mark
  <2>7. CASE CallAgent(r) BY <2>7 DEF CallAgent
  <2>8. CASE AskApproval(r) BY <2>8 DEF AskApproval
  <2>9. CASE Raise(r) BY <2>9 DEF Raise
  <2>10. CASE FinishError(r) BY <2>10 DEF FinishError, Mark
  <2>11. CASE Reject(r) BY <2>11 DEF Reject, Mark
  <2>12. CASE Recover(r)
    <3>1. CASE Lost(r) BY <2>12, <3>1 DEF Recover, Mark, Lost
    <3>2. CASE ~ Lost(r) BY <2>12, <3>2 DEF Recover
    <3>3. QED BY <3>1, <3>2
  <2>13. ASSUME NEW to \in Suspended, AgentReturns(r, to) PROVE Ownership' BY <2>13 DEF AgentReturns
  <2>14. ASSUME NEW s \in Ended, FinishReply(r, s) PROVE Ownership' BY <2>14 DEF FinishReply, Mark
  <2>15. ASSUME NEW delivered \in BOOLEAN, FinishAsking(r, delivered) PROVE Ownership'
    <3>1. CASE MayWait(r, delivered) BY <2>15, <3>1 DEF FinishAsking, MarkWaiting
    <3>2. CASE ~ MayWait(r, delivered) BY <2>15, <3>2 DEF FinishAsking, Mark
    <3>3. QED BY <3>1, <3>2
  <2>16. QED BY <1>1, <2>1, <2>2, <2>3, <2>4, <2>5, <2>6, <2>7, <2>8, <2>9, <2>10, <2>11, <2>12, <2>13, <2>14, <2>15 DEF PipelineStep
<1>2. ASSUME NEW q \in Requests, ApprovalStep(q) PROVE Ownership'
  <2>1. ASSUME NEW r \in Runs, Approve(q, r) PROVE Ownership' BY <2>1 DEF Approve, Mark
  <2>2. ASSUME NEW a \in {"none", "waiting_approval", "completed", "failed", "rejected"}, ResumeFails(q, a) PROVE Ownership' BY <2>2 DEF ResumeFails, Mark, Release
  <2>3. ASSUME NEW s \in Ended, ReplayEnds(q, s) PROVE Ownership' BY <2>3 DEF ReplayEnds, Mark, Release
  <2>4. CASE ReplayTool(q) BY <2>4 DEF ReplayTool
  <2>5. CASE ReplayAsksAgain(q) BY <2>5 DEF ReplayAsksAgain, MarkWaiting, Release
  <2>6. QED BY <1>2, <2>1, <2>2, <2>3, <2>4, <2>5 DEF ApprovalStep
<1>3. ASSUME NEW p \in Stops, OperatorStep(p) PROVE Ownership'
  <2>1. ASSUME NEW r \in Runs, StopBegins(p, ThreadOf[r]) PROVE Ownership' BY <2>1 DEF StopBegins
  <2>2. CASE StopFails(p) BY <2>2 DEF StopFails
  <2>3. CASE StopMarks(p) BY <2>3 DEF StopMarks
  <2>4. QED BY <1>3, <2>1, <2>2, <2>3 DEF OperatorStep
<1>4. CASE Crash BY <1>4 DEF Crash
<1>5. CASE Start BY <1>5 DEF Start
<1>6. CASE Started BY <1>6 DEF Started, Lost
<1>7. CASE UNCHANGED vars BY <1>7
<1>8. QED BY <1>1, <1>2, <1>3, <1>4, <1>5, <1>6, <1>7 DEF Next

\* Every step keeps the budget: only an unanswered ask pays for a replay or a
\* refusal.
LEMMA BudgetStep == IInv /\ [Next]_vars => Budget'
<1> SUFFICES ASSUME TypeOK, Ownership, Budget, [Next]_vars PROVE Budget'
    BY DEF IInv
<1> USE RunAssumption DEF TypeOK, Ownership, Overruled, Budget, Unanswered, Suspended, LoopFree, Ended, Runs, table, memory, histories, vars
<1>1. ASSUME NEW r \in Runs, PipelineStep(r) \/ Reject(r) \/ Recover(r) PROVE Budget'
  <2>1. CASE Open(r) BY <2>1 DEF Open, Mark
  <2>2. CASE Delegate(r) BY <2>2 DEF Delegate, Mark
  <2>3. CASE DelegationEnds(r) BY <2>3 DEF DelegationEnds
  <2>4. CASE SetupFails(r) BY <2>4 DEF SetupFails, Mark
  <2>5. CASE Begin(r) BY <2>5 DEF Begin, Mark
  <2>6. CASE RecordOnly(r) BY <2>6 DEF RecordOnly, Mark
  <2>7. CASE CallAgent(r) BY <2>7 DEF CallAgent
  <2>8. CASE AskApproval(r) BY <2>8 DEF AskApproval
  <2>9. CASE Raise(r) BY <2>9 DEF Raise
  <2>10. CASE FinishError(r) BY <2>10 DEF FinishError, Mark
  <2>11. CASE Reject(r) BY <2>11 DEF Reject, Mark
  <2>12. CASE Recover(r)
    <3>1. CASE Lost(r) BY <2>12, <3>1 DEF Recover, Mark, Lost
    <3>2. CASE ~ Lost(r) BY <2>12, <3>2 DEF Recover
    <3>3. QED BY <3>1, <3>2
  <2>13. ASSUME NEW to \in Suspended, AgentReturns(r, to) PROVE Budget' BY <2>13 DEF AgentReturns
  <2>14. ASSUME NEW s \in Ended, FinishReply(r, s) PROVE Budget' BY <2>14 DEF FinishReply, Mark
  <2>15. ASSUME NEW delivered \in BOOLEAN, FinishAsking(r, delivered) PROVE Budget'
    <3>1. CASE MayWait(r, delivered) BY <2>15, <3>1 DEF FinishAsking, MarkWaiting
    <3>2. CASE ~ MayWait(r, delivered) BY <2>15, <3>2 DEF FinishAsking, Mark
    <3>3. QED BY <3>1, <3>2
  <2>16. QED BY <1>1, <2>1, <2>2, <2>3, <2>4, <2>5, <2>6, <2>7, <2>8, <2>9, <2>10, <2>11, <2>12, <2>13, <2>14, <2>15 DEF PipelineStep
<1>2. ASSUME NEW q \in Requests, ApprovalStep(q) PROVE Budget'
  <2>1. ASSUME NEW r \in Runs, Approve(q, r) PROVE Budget' BY <2>1 DEF Approve, Mark
  <2>2. ASSUME NEW a \in {"none", "waiting_approval", "completed", "failed", "rejected"}, ResumeFails(q, a) PROVE Budget' BY <2>2 DEF ResumeFails, Mark, Release
  <2>3. ASSUME NEW s \in Ended, ReplayEnds(q, s) PROVE Budget' BY <2>3 DEF ReplayEnds, Mark, Release
  <2>4. CASE ReplayTool(q) BY <2>4 DEF ReplayTool
  <2>5. CASE ReplayAsksAgain(q) BY <2>5 DEF ReplayAsksAgain, MarkWaiting, Release
  <2>6. QED BY <1>2, <2>1, <2>2, <2>3, <2>4, <2>5 DEF ApprovalStep
<1>3. ASSUME NEW p \in Stops, OperatorStep(p) PROVE Budget'
  <2>1. ASSUME NEW r \in Runs, StopBegins(p, ThreadOf[r]) PROVE Budget' BY <2>1 DEF StopBegins
  <2>2. CASE StopFails(p) BY <2>2 DEF StopFails
  <2>3. CASE StopMarks(p) BY <2>3 DEF StopMarks
  <2>4. QED BY <1>3, <2>1, <2>2, <2>3 DEF OperatorStep
<1>4. CASE Crash BY <1>4 DEF Crash
<1>5. CASE Start BY <1>5 DEF Start
<1>6. CASE Started BY <1>6 DEF Started, Lost
<1>7. CASE UNCHANGED vars BY <1>7
<1>8. QED BY <1>1, <1>2, <1>3, <1>4, <1>5, <1>6, <1>7 DEF Next

-----------------------------------------------------------------------------
\* The invariant holds when the process is started for the first time.
LEMMA InitIInv == Init => IInv
<1> SUFFICES ASSUME Init PROVE IInv
    OBVIOUS
<1> USE RunAssumption DEF Init
<1>1. TypeOK BY DEF TypeOK, Suspended, Active, Ended
<1>2. Ownership BY DEF Ownership
<1>3. Budget BY DEF Budget, Unanswered
<1> QED BY <1>1, <1>2, <1>3 DEF IInv

\* Typing, ownership and budget together are inductive.
LEMMA IInvHolds == Spec => []IInv
<1>1. IInv /\ [Next]_vars => IInv'
  BY TypeStep, OwnershipStep, BudgetStep DEF IInv
<1> QED BY InitIInv, <1>1, PTL DEF Spec

\* Every wait of a run gets at most one answer: with any number of approve
\* calls, rejections and crashes, an approved tool is run at most once per ask
\* and never after a rejection.
THEOREM OneAnswerTheorem == Spec => []OneAnswerPerAsk
<1>1. IInv => OneAnswerPerAsk BY DEF IInv, Budget, OneAnswerPerAsk
<1> QED BY IInvHolds, <1>1, PTL

\* A step taken from a state of the invariant changes no final status, unless a
\* forced call or the work it has left running does.
LEMMA EndedStep ==
    ASSUME IInv, [Next]_vars
    PROVE \A r \in Runs : status[r] \in Ended /\ status'[r] # status[r] =>
              \/ status'[r] = "cancelled" /\ \E p \in Stops : r \in listed[p]
              \/ status[r] = "cancelled" /\ r \in stopped /\ Busy(r)
<1> DEFINE Kept == \A e \in Runs : status[e] \in Ended /\ status'[e] # status[e] =>
                      \/ status'[e] = "cancelled" /\ \E p \in Stops : e \in listed[p]
                      \/ status[e] = "cancelled" /\ e \in stopped /\ Busy(e)
<1> SUFFICES Kept OBVIOUS
<1> USE RunAssumption DEF IInv, TypeOK, Ownership, Overruled, Busy, Resumes, Suspended, Ended, LoopFree, Runs, table, memory, histories, vars
<1>1. ASSUME NEW r \in Runs, PipelineStep(r) \/ Reject(r) \/ Recover(r) PROVE Kept
  <2>1. CASE Open(r) BY <2>1 DEF Open, Mark
  <2>2. CASE Delegate(r) BY <2>2 DEF Delegate, Mark
  <2>3. CASE DelegationEnds(r) BY <2>3 DEF DelegationEnds
  <2>4. CASE SetupFails(r) BY <2>4 DEF SetupFails, Mark
  <2>5. CASE Begin(r) BY <2>5 DEF Begin, Mark
  <2>6. CASE RecordOnly(r) BY <2>6 DEF RecordOnly, Mark
  <2>7. CASE CallAgent(r) BY <2>7 DEF CallAgent
  <2>8. CASE AskApproval(r) BY <2>8 DEF AskApproval
  <2>9. CASE Raise(r) BY <2>9 DEF Raise
  <2>10. CASE FinishError(r) BY <2>10 DEF FinishError, Mark
  <2>11. CASE Reject(r) BY <2>11 DEF Reject, Mark
  <2>12. CASE Recover(r)
    <3>1. CASE Lost(r) BY <2>12, <3>1 DEF Recover, Mark, Lost
    <3>2. CASE ~ Lost(r) BY <2>12, <3>2 DEF Recover
    <3>3. QED BY <3>1, <3>2
  <2>13. ASSUME NEW to \in Suspended, AgentReturns(r, to) PROVE Kept BY <2>13 DEF AgentReturns
  <2>14. ASSUME NEW s \in Ended, FinishReply(r, s) PROVE Kept BY <2>14 DEF FinishReply, Mark
  <2>15. ASSUME NEW delivered \in BOOLEAN, FinishAsking(r, delivered) PROVE Kept
    <3>1. CASE MayWait(r, delivered) BY <2>15, <3>1 DEF FinishAsking, MarkWaiting
    <3>2. CASE ~ MayWait(r, delivered) BY <2>15, <3>2 DEF FinishAsking, Mark
    <3>3. QED BY <3>1, <3>2
  <2>16. QED BY <1>1, <2>1, <2>2, <2>3, <2>4, <2>5, <2>6, <2>7, <2>8, <2>9, <2>10, <2>11, <2>12, <2>13, <2>14, <2>15 DEF PipelineStep
<1>2. ASSUME NEW q \in Requests, ApprovalStep(q) PROVE Kept
  <2>1. ASSUME NEW r \in Runs, Approve(q, r) PROVE Kept BY <2>1 DEF Approve, Mark
  <2>2. ASSUME NEW a \in {"none", "waiting_approval", "completed", "failed", "rejected"}, ResumeFails(q, a) PROVE Kept BY <2>2 DEF ResumeFails, Mark, Release
  <2>3. ASSUME NEW s \in Ended, ReplayEnds(q, s) PROVE Kept BY <2>3 DEF ReplayEnds, Mark, Release
  <2>4. CASE ReplayTool(q) BY <2>4 DEF ReplayTool
  <2>5. CASE ReplayAsksAgain(q) BY <2>5 DEF ReplayAsksAgain, MarkWaiting, Release
  <2>6. QED BY <1>2, <2>1, <2>2, <2>3, <2>4, <2>5 DEF ApprovalStep
<1>3. ASSUME NEW p \in Stops, OperatorStep(p) PROVE Kept
  <2>1. ASSUME NEW r \in Runs, StopBegins(p, ThreadOf[r]) PROVE Kept BY <2>1 DEF StopBegins
  <2>2. CASE StopFails(p) BY <2>2 DEF StopFails
  <2>3. CASE StopMarks(p) BY <2>3 DEF StopMarks
  <2>4. QED BY <1>3, <2>1, <2>2, <2>3 DEF OperatorStep
<1>4. CASE Crash BY <1>4 DEF Crash
<1>5. CASE Start BY <1>5 DEF Start
<1>6. CASE Started BY <1>6 DEF Started, Lost
<1>7. CASE UNCHANGED vars BY <1>7
<1>8. QED BY <1>1, <1>2, <1>3, <1>4, <1>5, <1>6, <1>7 DEF Next

\* A run that has ended keeps its final status: only a forced prune or stop and
\* the work it leaves running change one.
THEOREM EndedForGoodTheorem == Spec => EndedForGood
<1>1. IInv /\ [Next]_vars =>
        [\A r \in Runs : status[r] \in Ended /\ status'[r] # status[r] =>
            \/ status'[r] = "cancelled" /\ \E p \in Stops : r \in listed[p]
            \/ status[r] = "cancelled" /\ r \in stopped /\ Busy(r)]_vars
  BY EndedStep
<1> QED BY IInvHolds, <1>1, PTL DEF Spec, EndedForGood

-----------------------------------------------------------------------------
(* Who works on a run, and what an answer rests on.  Both parts are         *)
(* inductive relative to IInv.                                              *)

\* A queued or running run is in somebody's hands once the process is up, and
\* a child that is being executed is so inside its parent's delegation.
Accompanied ==
    /\ phase = "up" => \A r \in Runs : status[r] \in {"queued", "running"} => Busy(r)
    /\ \A c \in Children : task[c] # "none" => task[ParentOf[c]] = "delegating"

\* What waits, what is being resumed and what was replayed stands on a prompt
\* that was delivered for a run of an event.
Answerable ==
    /\ WaitingIsReplayable
    /\ \A q \in Requests : owner[q] # None => owner[q] \in Events \cap prompted
    /\ \A r \in Runs : status[r] = "waiting_approval" \/ replays[r] > 0 => r \in prompted

\* Every step leaves each active run with its worker: only recovery ends a run
\* nobody works on, and only once no such run is left is the process up.
LEMMA AccompaniedStep == IInv /\ Accompanied /\ [Next]_vars => Accompanied'
<1> SUFFICES ASSUME TypeOK, Ownership, Accompanied, [Next]_vars PROVE Accompanied'
    BY DEF IInv
<1> USE RunAssumption DEF TypeOK, Ownership, Overruled, Accompanied, Busy, Resumes, Suspended, Active, Ended, LoopFree, Runs, table, memory, histories, vars
<1>1. ASSUME NEW r \in Runs, PipelineStep(r) \/ Reject(r) \/ Recover(r) PROVE Accompanied'
  <2>1. CASE Open(r) BY <2>1 DEF Open, Mark
  <2>2. CASE Delegate(r) BY <2>2 DEF Delegate, Mark
  <2>3. CASE DelegationEnds(r) BY <2>3 DEF DelegationEnds
  <2>4. CASE SetupFails(r) BY <2>4 DEF SetupFails, Mark
  <2>5. CASE Begin(r) BY <2>5 DEF Begin, Mark
  <2>6. CASE RecordOnly(r) BY <2>6 DEF RecordOnly, Mark
  <2>7. CASE CallAgent(r) BY <2>7 DEF CallAgent
  <2>8. CASE AskApproval(r) BY <2>8 DEF AskApproval
  <2>9. CASE Raise(r) BY <2>9 DEF Raise
  <2>10. CASE FinishError(r) BY <2>10 DEF FinishError, Mark
  <2>11. CASE Reject(r) BY <2>11 DEF Reject, Mark
  <2>12. CASE Recover(r)
    <3>1. CASE Lost(r) BY <2>12, <3>1 DEF Recover, Mark, Lost
    <3>2. CASE ~ Lost(r) BY <2>12, <3>2 DEF Recover, Lost
    <3>3. QED BY <3>1, <3>2
  <2>13. ASSUME NEW to \in Suspended, AgentReturns(r, to) PROVE Accompanied' BY <2>13 DEF AgentReturns
  <2>14. ASSUME NEW s \in Ended, FinishReply(r, s) PROVE Accompanied' BY <2>14 DEF FinishReply, Mark
  <2>15. ASSUME NEW delivered \in BOOLEAN, FinishAsking(r, delivered) PROVE Accompanied'
    <3>1. CASE MayWait(r, delivered) BY <2>15, <3>1 DEF FinishAsking, MayWait, MarkWaiting
    <3>2. CASE ~ MayWait(r, delivered) BY <2>15, <3>2 DEF FinishAsking, Mark
    <3>3. QED BY <3>1, <3>2
  <2>16. QED BY <1>1, <2>1, <2>2, <2>3, <2>4, <2>5, <2>6, <2>7, <2>8, <2>9, <2>10, <2>11, <2>12, <2>13, <2>14, <2>15 DEF PipelineStep
<1>2. ASSUME NEW q \in Requests, ApprovalStep(q) PROVE Accompanied'
  <2>1. ASSUME NEW r \in Runs, Approve(q, r) PROVE Accompanied' BY <2>1 DEF Approve, Mark
  <2>2. ASSUME NEW a \in {"none", "waiting_approval", "completed", "failed", "rejected"}, ResumeFails(q, a) PROVE Accompanied' BY <2>2 DEF ResumeFails, Mark, Release
  <2>3. ASSUME NEW s \in Ended, ReplayEnds(q, s) PROVE Accompanied' BY <2>3 DEF ReplayEnds, Mark, Release
  <2>4. CASE ReplayTool(q) BY <2>4 DEF ReplayTool
  <2>5. CASE ReplayAsksAgain(q) BY <2>5 DEF ReplayAsksAgain, MarkWaiting, Release
  <2>6. QED BY <1>2, <2>1, <2>2, <2>3, <2>4, <2>5 DEF ApprovalStep
<1>3. ASSUME NEW p \in Stops, OperatorStep(p) PROVE Accompanied'
  <2>1. ASSUME NEW r \in Runs, StopBegins(p, ThreadOf[r]) PROVE Accompanied' BY <2>1 DEF StopBegins
  <2>2. CASE StopFails(p) BY <2>2 DEF StopFails
  <2>3. CASE StopMarks(p) BY <2>3 DEF StopMarks
  <2>4. QED BY <1>3, <2>1, <2>2, <2>3 DEF OperatorStep
<1>4. CASE Crash BY <1>4 DEF Crash
<1>5. CASE Start BY <1>5 DEF Start
<1>6. CASE Started BY <1>6 DEF Started, Lost
<1>7. CASE UNCHANGED vars BY <1>7
<1>8. QED BY <1>1, <1>2, <1>3, <1>4, <1>5, <1>6, <1>7 DEF Next

\* Every step keeps the grounds of an answer: a run starts to wait only when its
\* prompt was delivered, and Mark takes the tool call away with the wait.
LEMMA AnswerableStep == IInv /\ Answerable /\ [Next]_vars => Answerable'
<1> SUFFICES ASSUME TypeOK, Ownership, Answerable, [Next]_vars PROVE Answerable'
    BY DEF IInv
<1> USE RunAssumption DEF TypeOK, Ownership, Overruled, Answerable, WaitingIsReplayable, Suspended, Active, Ended, LoopFree, Runs, table, memory, histories, vars
<1>1. ASSUME NEW r \in Runs, PipelineStep(r) \/ Reject(r) \/ Recover(r) PROVE Answerable'
  <2>1. CASE Open(r) BY <2>1 DEF Open, Mark
  <2>2. CASE Delegate(r) BY <2>2 DEF Delegate, Mark
  <2>3. CASE DelegationEnds(r) BY <2>3 DEF DelegationEnds
  <2>4. CASE SetupFails(r) BY <2>4 DEF SetupFails, Mark
  <2>5. CASE Begin(r) BY <2>5 DEF Begin, Mark
  <2>6. CASE RecordOnly(r) BY <2>6 DEF RecordOnly, Mark
  <2>7. CASE CallAgent(r) BY <2>7 DEF CallAgent
  <2>8. CASE AskApproval(r) BY <2>8 DEF AskApproval
  <2>9. CASE Raise(r) BY <2>9 DEF Raise
  <2>10. CASE FinishError(r) BY <2>10 DEF FinishError, Mark
  <2>11. CASE Reject(r) BY <2>11 DEF Reject, Mark
  <2>12. CASE Recover(r)
    <3>1. CASE Lost(r) BY <2>12, <3>1 DEF Recover, Mark, Lost
    <3>2. CASE ~ Lost(r) BY <2>12, <3>2 DEF Recover, Lost
    <3>3. QED BY <3>1, <3>2
  <2>13. ASSUME NEW to \in Suspended, AgentReturns(r, to) PROVE Answerable' BY <2>13 DEF AgentReturns
  <2>14. ASSUME NEW s \in Ended, FinishReply(r, s) PROVE Answerable' BY <2>14 DEF FinishReply, Mark
  <2>15. ASSUME NEW delivered \in BOOLEAN, FinishAsking(r, delivered) PROVE Answerable'
    <3>1. CASE MayWait(r, delivered) BY <2>15, <3>1 DEF FinishAsking, MayWait, MarkWaiting
    <3>2. CASE ~ MayWait(r, delivered) BY <2>15, <3>2 DEF FinishAsking, Mark
    <3>3. QED BY <3>1, <3>2
  <2>16. QED BY <1>1, <2>1, <2>2, <2>3, <2>4, <2>5, <2>6, <2>7, <2>8, <2>9, <2>10, <2>11, <2>12, <2>13, <2>14, <2>15 DEF PipelineStep
<1>2. ASSUME NEW q \in Requests, ApprovalStep(q) PROVE Answerable'
  <2>1. ASSUME NEW r \in Runs, Approve(q, r) PROVE Answerable' BY <2>1 DEF Approve, Mark
  <2>2. ASSUME NEW a \in {"none", "waiting_approval", "completed", "failed", "rejected"}, ResumeFails(q, a) PROVE Answerable' BY <2>2 DEF ResumeFails, Mark, Release
  <2>3. ASSUME NEW s \in Ended, ReplayEnds(q, s) PROVE Answerable' BY <2>3 DEF ReplayEnds, Mark, Release
  <2>4. CASE ReplayTool(q) BY <2>4 DEF ReplayTool
  <2>5. CASE ReplayAsksAgain(q) BY <2>5 DEF ReplayAsksAgain, MarkWaiting, Release
  <2>6. QED BY <1>2, <2>1, <2>2, <2>3, <2>4, <2>5 DEF ApprovalStep
<1>3. ASSUME NEW p \in Stops, OperatorStep(p) PROVE Answerable'
  <2>1. ASSUME NEW r \in Runs, StopBegins(p, ThreadOf[r]) PROVE Answerable' BY <2>1 DEF StopBegins
  <2>2. CASE StopFails(p) BY <2>2 DEF StopFails
  <2>3. CASE StopMarks(p) BY <2>3 DEF StopMarks
  <2>4. QED BY <1>3, <2>1, <2>2, <2>3 DEF OperatorStep
<1>4. CASE Crash BY <1>4 DEF Crash
<1>5. CASE Start BY <1>5 DEF Start
<1>6. CASE Started BY <1>6 DEF Started, Lost
<1>7. CASE UNCHANGED vars BY <1>7
<1>8. QED BY <1>1, <1>2, <1>3, <1>4, <1>5, <1>6, <1>7 DEF Next

\* Both parts hold of the first start and, with IInv, ever after.
LEMMA WorkersAndGrounds == Spec => [](IInv /\ Accompanied /\ Answerable)
<1>1. Init => Accompanied /\ Answerable
  BY RunAssumption DEF Init, Accompanied, Answerable, WaitingIsReplayable, Runs
<1>2. IInv /\ Accompanied /\ Answerable /\ [Next]_vars => (Accompanied /\ Answerable)'
  BY AccompaniedStep, AnswerableStep
<1> QED BY IInvHolds, <1>1, <1>2, PTL DEF Spec

\* A queued or running run has exactly one task behind it, and a run that waits
\* or has ended none, whatever calls, child runs, crashes and recoveries.
THEOREM OneTaskTheorem == Spec => []OneTaskPerRun
<1>1. IInv /\ Accompanied => OneTaskPerRun
  BY RunAssumption DEF IInv, TypeOK, Ownership, Overruled, Accompanied, OneTaskPerRun, Busy, Resumes, Runs
<1> QED BY WorkersAndGrounds, <1>1, PTL

\* A run waits only for an answer somebody was asked for and that can be carried
\* out, and no tool that needs approval runs without its prompt.
THEOREM AskedAndReplayableTheorem == Spec => []AskedAndReplayable
<1>1. Answerable => AskedAndReplayable
  BY DEF Answerable, AskedAndReplayable, ReplayedWasPrompted
<1> QED BY WorkersAndGrounds, <1>1, PTL

\* A child run is over before its parent goes on: an active child has a task,
\* for nobody can approve a child, and its task keeps the parent delegating.
THEOREM ChildWithinParentTheorem == Spec => []ChildWithinParent
<1> SUFFICES ASSUME IInv, Accompanied, Answerable, phase = "up",
                    NEW c \in Children, status[c] \in Active
             PROVE  task[ParentOf[c]] = "delegating"
  <2>1. IInv /\ Accompanied /\ Answerable => ChildWithinParent BY DEF ChildWithinParent
  <2> QED BY WorkersAndGrounds, <2>1, PTL
<1>1. c \in Runs /\ c \notin Events BY RunAssumption DEF Runs
<1>2. status[c] \in {"queued", "running"}
  BY <1>1 DEF Active, Answerable, WaitingIsReplayable
<1>3. Busy(c) BY <1>1, <1>2 DEF Accompanied
<1>4. task[c] # "none" BY <1>1, <1>3, RunAssumption DEF Busy, Resumes, Answerable, Runs
<1> QED BY <1>4 DEF Accompanied

-----------------------------------------------------------------------------
(* The refinement of RunPromise.  A step either moves one run in the terms *)
(* of the promise or leaves the promised state as it is.                    *)

\* Marking a run is a move of that run.
LEMMA MarkMoves ==
    ASSUME TypeOK, NEW r \in Runs, NEW s, status' = [status EXCEPT ![r] = s]
    PROVE  PromisedState' = [PromisedState EXCEPT ![r] = StateWord(s)]
BY DEF TypeOK, PromisedState

\* A step that changes no status changes no promised state.
LEMMA SameState == ASSUME status' = status PROVE PromisedState' = PromisedState
BY DEF PromisedState

\* Without a change of the approve calls the grants stay.
LEMMA SameGrants ==
    ASSUME owner' = owner, stage' = stage PROVE PromisedGrants' = PromisedGrants
BY DEF PromisedGrants

\* A run somebody marks without an approve call has no grant.
LEMMA NoGrant ==
    ASSUME Ownership, NEW r \in Runs, task[r] # "none" \/ phase # "up"
    PROVE  r \notin PromisedGrants
BY RunAssumption DEF Ownership, PromisedGrants, Runs

\* When the approve call of a run moves on, only the grant of that run goes.
LEMMA GrantUsed ==
    ASSUME TypeOK, Ownership, NEW q \in Requests, owner[q] # None,
           \/ owner' = owner /\ stage' = [stage EXCEPT ![q] = "handler"]
           \/ Release(q)
    PROVE  PromisedGrants' = PromisedGrants \ {owner[q]}
BY RunAssumption DEF TypeOK, Ownership, PromisedGrants, Release, Runs

\* A call that resumes a run grants it.
LEMMA GrantGiven ==
    ASSUME TypeOK, NEW q \in Requests, NEW r \in Runs, stage[q] = "idle",
           owner' = [owner EXCEPT ![q] = r], stage' = [stage EXCEPT ![q] = "resuming"]
    PROVE  PromisedGrants' = PromisedGrants \cup {r}
BY RunAssumption DEF TypeOK, PromisedGrants, Runs

\* Every step from a state of the invariant is a step of the promise or none.
LEMMA PromiseStep == IInv /\ [Next]_vars => [Promise!Next]_(Promise!vars)
<1> SUFFICES ASSUME TypeOK, Ownership, Budget, [Next]_vars PROVE [Promise!Next]_(Promise!vars)
    BY DEF IInv
<1> DEFINE Counts == replays' = replays /\ refusals' = refusals /\ stopped' = stopped
           Same == PromisedState' = PromisedState /\ PromisedGrants' = PromisedGrants /\ Counts
           Opens(r) == /\ StateWord(status[r]) = "new" /\ Counts
                       /\ PromisedState' = [PromisedState EXCEPT ![r] = "working"]
           Moves(r, to) == /\ status[r] \in {"queued", "running"} \/ Overruled(r)
                           /\ PromisedState' = [PromisedState EXCEPT ![r] = to] /\ Counts
<1>a. ASSUME Same PROVE [Promise!Next]_(Promise!vars) BY <1>a DEF Promise!vars
<1>b. ASSUME NEW r \in Runs, PromisedGrants' = PromisedGrants,
             Opens(r) \/ Moves(r, "waiting")
      PROVE  Promise!Next
  <2>1. CASE Opens(r) BY <1>b, <2>1 DEF Promise!Next, Promise!Open, Promise!Move, PromisedState
  <2>2. CASE Moves(r, "waiting")
    <3>1. Promise!Worked(r) BY <2>2 DEF Promise!Worked, PromisedState, StateWord, Overruled
    <3>2. QED BY <1>b, <2>2, <3>1 DEF Promise!Next, Promise!Ask
  <2>3. QED BY <1>b, <2>1, <2>2
<1>c. ASSUME NEW r \in Runs, PromisedGrants' = PromisedGrants \ {r}, Moves(r, "done")
      PROVE  Promise!Next
  <2>1. Promise!Worked(r) BY <1>c DEF Promise!Worked, PromisedState, StateWord, Overruled
  <2>2. QED BY <1>c, <2>1 DEF Promise!Next, Promise!Finish
<1> USE DEF table, memory, histories, StateWord, Ended
<1> HIDE DEF Counts, Same, Opens, Moves
<1>1. ASSUME NEW r \in Runs, PipelineStep(r) \/ Reject(r) \/ Recover(r) PROVE [Promise!Next]_(Promise!vars)
  <2>s. ASSUME status' = status, owner' = owner, stage' = stage, Counts
        PROVE [Promise!Next]_(Promise!vars)
    BY <2>s, <1>a, SameState, SameGrants DEF Same, Counts
  <2>n. ASSUME NEW t \in Runs, status[t] = "none", Mark(t, "queued"), owner' = owner, stage' = stage, Counts
        PROVE [Promise!Next]_(Promise!vars)
    BY <2>n, <1>b, MarkMoves, SameGrants DEF Opens, Mark
  <2>d. ASSUME NEW s \in Ended, status[r] \in {"queued", "running"} \/ Overruled(r), Mark(r, s), task[r] # "none" \/ phase # "up",
               owner' = owner, stage' = stage, Counts
        PROVE [Promise!Next]_(Promise!vars)
    <3>1. PromisedGrants' = PromisedGrants \ {r} BY <2>d, NoGrant, SameGrants
    <3>2. Moves(r, "done") BY <2>d, MarkMoves DEF Moves, Mark
    <3> QED BY <3>1, <3>2, <1>c
  <2>1. CASE Open(r) BY <2>1, <2>n DEF Open, Counts
  <2>2. CASE Delegate(r) BY <2>2, <2>n DEF Delegate, Counts
  <2>3. CASE DelegationEnds(r) BY <2>3, <2>s DEF DelegationEnds, Counts
  <2>4. CASE SetupFails(r) BY <2>4, <2>d DEF SetupFails, Ownership, Counts
  <2>5. CASE Begin(r)
    <3>1. status[r] \in {"queued", "running"} /\ status' = [status EXCEPT ![r] = "running"] BY <2>5 DEF Begin, Mark, Ownership
    <3>2. PromisedState' = PromisedState BY <3>1, MarkMoves DEF PromisedState
    <3> QED BY <2>5, <3>2, <1>a, SameGrants DEF Begin, Same, Counts
  <2>6. CASE RecordOnly(r) BY <2>6, <2>d DEF RecordOnly, Ownership, Counts
  <2>7. CASE CallAgent(r) BY <2>7, <2>s DEF CallAgent, Counts
  <2>8. CASE AskApproval(r) BY <2>8, <2>s DEF AskApproval, Counts
  <2>9. CASE Raise(r) BY <2>9, <2>s DEF Raise, Counts
  <2>10. CASE FinishError(r) BY <2>10, <2>d DEF FinishError, Ownership, Counts
  <2>11. CASE Reject(r)
    <3>a. StateWord("cancelled") = "done" OBVIOUS
    <3>b. PromisedState' = [PromisedState EXCEPT ![r] = StateWord("cancelled")] BY <2>11, MarkMoves DEF Reject, Mark
    <3>1. PromisedState' = [PromisedState EXCEPT ![r] = "done"] BY <3>a, <3>b
    <3>2. PromisedState[r] = "waiting" BY <2>11 DEF Reject, PromisedState
    <3>3. PromisedGrants' = PromisedGrants BY <2>11, SameGrants DEF Reject
    <3>4. Promise!Refuse(r) BY <2>11, <3>1, <3>2, <3>3 DEF Reject, Promise!Refuse, Promise!Move
    <3> QED BY <3>4 DEF Promise!Next
  <2>12. CASE Recover(r)
    <3>1. CASE Lost(r) BY <2>12, <3>1, <2>d DEF Recover, Lost, Counts
    <3>2. CASE ~ Lost(r) BY <2>12, <3>2, <2>s DEF Recover, Counts
    <3>3. QED BY <3>1, <3>2
  <2>13. ASSUME NEW to \in Suspended, AgentReturns(r, to) PROVE [Promise!Next]_(Promise!vars)
    BY <2>13, <2>s DEF AgentReturns, Counts
  <2>14. ASSUME NEW s \in Ended, FinishReply(r, s) PROVE [Promise!Next]_(Promise!vars)
    BY <2>14, <2>d DEF FinishReply, Ownership, Counts
  <2>15. ASSUME NEW delivered \in BOOLEAN, FinishAsking(r, delivered) PROVE [Promise!Next]_(Promise!vars)
    <3>0. (status[r] \in {"queued", "running"} \/ Overruled(r)) /\ task[r] # "none" BY <2>15 DEF FinishAsking, Ownership
    <3>1. CASE MayWait(r, delivered)
      <4>1. Moves(r, "waiting") BY <2>15, <3>0, <3>1, MarkMoves DEF FinishAsking, MarkWaiting, Moves, Counts
      <4> QED BY <2>15, <4>1, <1>b, SameGrants DEF FinishAsking
    <3>2. CASE ~ MayWait(r, delivered) BY <2>15, <3>0, <3>2, <2>d DEF FinishAsking, Counts
    <3>3. QED BY <3>1, <3>2
  <2>16. QED BY <1>1, <2>1, <2>2, <2>3, <2>4, <2>5, <2>6, <2>7, <2>8, <2>9, <2>10, <2>11, <2>12, <2>13, <2>14, <2>15 DEF PipelineStep
<1>2. ASSUME NEW q \in Requests, ApprovalStep(q) PROVE [Promise!Next]_(Promise!vars)
  <2>0. stage[q] # "idle" => owner[q] # None /\ owner[q] \in Runs /\ (status[owner[q]] = "running" \/ Overruled(owner[q]))
    BY DEF TypeOK, Ownership
  <2>1. ASSUME NEW r \in Runs, Approve(q, r) PROVE [Promise!Next]_(Promise!vars)
    <3>1. PromisedState' = [PromisedState EXCEPT ![r] = "working"] BY <2>1, MarkMoves DEF Approve, Mark
    <3>2. PromisedGrants' = PromisedGrants \cup {r} BY <2>1, GrantGiven DEF Approve
    <3>3. PromisedState[r] = "waiting" BY <2>1 DEF Approve, PromisedState
    <3>4. Promise!Grant(r) BY <2>1, <3>1, <3>2, <3>3 DEF Approve, Promise!Grant, Promise!Move
    <3> QED BY <3>4 DEF Promise!Next
  <2>e. ASSUME NEW s \in Ended, stage[q] # "idle", Mark(owner[q], s), Release(q), Counts
        PROVE [Promise!Next]_(Promise!vars)
    <3>1. PromisedGrants' = PromisedGrants \ {owner[q]} BY <2>e, <2>0, GrantUsed
    <3>2. Moves(owner[q], "done") BY <2>e, <2>0, MarkMoves DEF Mark, Moves
    <3> QED BY <2>0, <2>e, <3>1, <3>2, <1>c
  <2>2. ASSUME NEW a \in {"none", "waiting_approval", "completed", "failed", "rejected"}, ResumeFails(q, a)
        PROVE [Promise!Next]_(Promise!vars)
    BY <2>2, <2>e DEF ResumeFails, Counts
  <2>3. ASSUME NEW s \in Ended, ReplayEnds(q, s) PROVE [Promise!Next]_(Promise!vars)
    BY <2>3, <2>e DEF ReplayEnds, Counts
  <2>4. CASE ReplayTool(q)
    <3>1. PromisedState' = PromisedState BY <2>4, SameState DEF ReplayTool
    <3>2. PromisedGrants' = PromisedGrants \ {owner[q]} BY <2>4, <2>0, GrantUsed DEF ReplayTool
    <3>3. owner[q] \in PromisedGrants /\ Promise!Worked(owner[q])
      BY <2>4, <2>0 DEF ReplayTool, PromisedGrants, PromisedState, Promise!Worked, Overruled
    <3>4. Promise!CallTool(owner[q]) BY <2>4, <3>1, <3>2, <3>3 DEF ReplayTool, Promise!CallTool
    <3> QED BY <2>4, <2>0, <3>4 DEF ReplayTool, Promise!Next
  <2>5. CASE ReplayAsksAgain(q)
    <3>1. Moves(owner[q], "waiting")
      BY <2>5, <2>0, MarkMoves DEF ReplayAsksAgain, MarkWaiting, Moves, Counts
    <3>2. owner[q] \notin PromisedGrants
      BY <2>5, RunAssumption DEF ReplayAsksAgain, Ownership, TypeOK, PromisedGrants, Runs
    <3>3. PromisedGrants' = PromisedGrants BY <2>5, <2>0, <3>2, GrantUsed DEF ReplayAsksAgain
    <3> QED BY <2>5, <2>0, <3>1, <3>3, <1>b DEF ReplayAsksAgain
  <2>6. QED BY <1>2, <2>1, <2>2, <2>3, <2>4, <2>5 DEF ApprovalStep
<1>s. ASSUME status' = status, owner' = owner, stage' = stage, Counts
      PROVE [Promise!Next]_(Promise!vars)
  BY <1>s, <1>a, SameState, SameGrants DEF Same, Counts
<1>3. ASSUME NEW p \in Stops, OperatorStep(p) PROVE [Promise!Next]_(Promise!vars)
  <2>1. ASSUME NEW r \in Runs, StopBegins(p, ThreadOf[r]) PROVE [Promise!Next]_(Promise!vars)
    BY <2>1, <1>s DEF StopBegins, Counts
  <2>2. CASE StopFails(p) BY <2>2, <1>s DEF StopFails, Counts
  <2>3. CASE StopMarks(p)
    <3>1. listed[p] \subseteq Runs /\ \A r \in listed[p] : PromisedState[r] # "new"
      BY DEF TypeOK, Ownership, PromisedState, Active
    <3>2. PromisedState' = [r \in Runs |-> IF r \in listed[p] THEN "done" ELSE PromisedState[r]]
      BY <2>3 DEF StopMarks, PromisedState
    <3>3. PromisedGrants' = PromisedGrants BY <2>3, SameGrants DEF StopMarks
    <3>4. Promise!Stop(listed[p]) BY <2>3, <3>1, <3>2, <3>3 DEF StopMarks, Promise!Stop
    <3>5. QED BY <3>1, <3>4 DEF Promise!Next
  <2>4. QED BY <1>3, <2>1, <2>2, <2>3 DEF OperatorStep
<1>4. CASE Crash
  <2>1. PromisedState' = PromisedState BY <1>4, SameState DEF Crash
  <2>2. PromisedGrants' = {} BY <1>4 DEF Crash, PromisedGrants
  <2>3. Promise!Forget BY <1>4, <2>1, <2>2 DEF Crash, Promise!Forget
  <2> QED BY <2>3 DEF Promise!Next
<1>5. CASE Start BY <1>5, <1>s DEF Start, Counts
<1>6. CASE Started BY <1>6, <1>s DEF Started, Counts
<1>7. CASE UNCHANGED vars BY <1>7, <1>s DEF vars, Counts
<1>8. QED BY <1>1, <1>2, <1>3, <1>4, <1>5, <1>6, <1>7 DEF Next

\* RunLifecycle implements RunPromise: whatever approve, reject and forced calls,
\* child runs, crashes and recoveries there are, a run is opened once, waits only
\* for an answer, uses an approval once, and does not change after its end, but
\* for what goes on after a forced stop.
THEOREM KeepsPromiseTheorem == Spec => KeepsPromise
<1>1. Init => Promise!Init
  BY RunAssumption DEF Init, Promise!Init, PromisedState, PromisedGrants, StateWord, Runs
<1> QED BY <1>1, IInvHolds, PromiseStep, PTL DEF Spec, KeepsPromise, Promise!Spec

=============================================================================
