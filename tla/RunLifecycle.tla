---------------------------- MODULE RunLifecycle ----------------------------
(***************************************************************************)
(* The life of a run: opened for an event or by a parent run, executed by  *)
(* the pipeline, perhaps parked in waiting_approval, answered by an        *)
(* administrator, ended, stopped by an operator, or recovered after the    *)
(* process died.                                                           *)
(*                                                                         *)
(* status and context are the runs table.  Everything else but the         *)
(* histories is lost when the process dies.  The mark_* methods of         *)
(* StoreBackedRunManager write memory and table without suspending, so a   *)
(* mark is one step; hooks, the agent, the gateway and a tool's handler    *)
(* suspend.                                                                *)
(*                                                                         *)
(* FAULT marks faulty variants of the definition that follows.             *)
(***************************************************************************)
EXTENDS Integers, FiniteSets

CONSTANTS
    Events,      \* runs opened for an event
    Children,    \* runs opened by delegate_subagent
    ParentOf,    \* child -> the run that delegates to it
    ThreadOf,    \* run -> its thread
    Requests,    \* approve calls of the control plane
    Stops,       \* forced prune and stop calls of the control plane
    MaxAsks,     \* bound: how often one run asks for approval
    MaxCrashes,  \* bound: how often the process dies
    AsksAgain,   \* may the resumer return waiting_approval? (ToolApprovalResumer never does)
    None

Runs == Events \cup Children

ASSUME RunAssumption ==
    /\ ParentOf \in [Children -> Events] /\ Events \cap Children = {}
    /\ MaxAsks \in Nat /\ MaxCrashes \in Nat /\ AsksAgain \in BOOLEAN
    /\ None \notin Runs

VARIABLES
    status,    \* runs.status; "none" before the run exists
    context,   \* does runs.approval_context name a tool call?
    phase,     \* the process: "down", "recovering", "up"
    task,      \* where the task that executes the run is
    owner,     \* request -> the run its approve call is resuming
    stage,     \* request -> where it is
    pending,   \* RuntimeApp._pending_approvals
    listed,    \* forced call -> the active runs it has still to mark
    audit,     \* InMemoryToolAudit: status of the call that needs approval
    asks,      \* history: times the run began to wait
    replays,   \* history: times the tool was run after an approval
    refusals,  \* history: times the approval was rejected
    prompted,  \* history: runs whose approval prompt was delivered
    stopped,   \* history: runs a forced call has marked cancelled
    crashes

table == <<status, context>>
memory == <<task, owner, stage, pending, listed, audit>>
histories == <<asks, replays, refusals, prompted, stopped>>
vars == <<table, phase, memory, histories, crashes>>

Ended == {"completed", "completed_with_errors", "failed", "cancelled", "interrupted"}
Active == {"queued", "running", "waiting_approval"}

\* Suspension points of ThreadPipeline.execute: hooks and preparation, the
\* agent, a delegation, the dispatch of the approval prompt, of a reply, of
\* what a failed agent left to send, and the error hooks.
Suspended == {"preparing", "agent", "delegating", "asking", "replying", "giving_up", "erring"}

TypeOK ==
    /\ status \in [Runs -> {"none"} \cup Active \cup Ended]
    /\ context \in [Runs -> BOOLEAN]
    /\ phase \in {"down", "recovering", "up"}
    /\ task \in [Runs -> {"none", "opened"} \cup Suspended]
    /\ owner \in [Requests -> Runs \cup {None}]
    /\ stage \in [Requests -> {"idle", "resuming", "handler"}]
    /\ \A q \in Requests : stage[q] = "idle" <=> owner[q] = None
    /\ pending \subseteq Runs /\ prompted \subseteq Runs
    /\ listed \in [Stops -> SUBSET Runs] /\ stopped \subseteq Runs
    /\ audit \in [Runs -> {"none", "waiting_approval", "completed", "failed", "rejected"}]
    /\ asks \in [Runs -> Nat] /\ replays \in [Runs -> Nat] /\ refusals \in [Runs -> Nat]
    /\ crashes \in Nat

Resumes(q, r) == owner[q] = r

\* handle_event opens a run and marks it running without suspending.
LoopFree == phase = "up" /\ \A r \in Runs : task[r] # "opened"

-----------------------------------------------------------------------------
Init ==
    /\ status = [r \in Runs |-> "none"] /\ context = [r \in Runs |-> FALSE]
    /\ phase = "down" /\ task = [r \in Runs |-> "none"]
    /\ owner = [q \in Requests |-> None] /\ stage = [q \in Requests |-> "idle"]
    /\ pending = {} /\ listed = [p \in Stops |-> {}] /\ audit = [r \in Runs |-> "none"]
    /\ asks = [r \in Runs |-> 0] /\ replays = [r \in Runs |-> 0]
    /\ refusals = [r \in Runs |-> 0] /\ prompted = {} /\ stopped = {} /\ crashes = 0

\* mark_running, mark_completed and the like empty approval_context ...
Mark(r, s) ==
    /\ status' = [status EXCEPT ![r] = s]
    /\ context' = [context EXCEPT ![r] = FALSE]

\* ... and mark_waiting_approval fills it.
MarkWaiting(r) ==
    /\ status' = [status EXCEPT ![r] = "waiting_approval"]
    /\ context' = [context EXCEPT ![r] = TRUE]
    /\ asks' = [asks EXCEPT ![r] = @ + 1]

-----------------------------------------------------------------------------
(* RuntimeApp.handle_event and LocalSubagentExecutionService.execute.       *)

Open(r) ==
    /\ LoopFree /\ r \in Events /\ status[r] = "none"
    /\ Mark(r, "queued")
    /\ task' = [task EXCEPT ![r] = "opened"]
    /\ UNCHANGED <<phase, owner, stage, pending, audit, listed, histories, crashes>>

\* The agent of the parent calls delegate_subagent, whose handler executes
\* the child in the parent's task.
Delegate(c) ==
    /\ LoopFree /\ c \in Children /\ status[c] = "none" /\ task[ParentOf[c]] = "agent"
    /\ Mark(c, "queued")
    /\ task' = [task EXCEPT ![ParentOf[c]] = "delegating", ![c] = "opened"]
    /\ UNCHANGED <<phase, owner, stage, pending, audit, listed, histories, crashes>>

\* FAULT: delegate_subagent returns while the child is still being executed.
DelegationEndsEarly(r) ==
    /\ LoopFree /\ task[r] = "delegating"
    /\ task' = [task EXCEPT ![r] = "agent"]
    /\ UNCHANGED <<table, phase, owner, stage, pending, audit, listed, histories, crashes>>

\* The child's pipeline has returned to the handler.
DelegationEnds(r) ==
    /\ LoopFree /\ task[r] = "delegating"
    /\ \A c \in Children : ParentOf[c] = r => task[c] = "none"
    /\ task' = [task EXCEPT ![r] = "agent"]
    /\ UNCHANGED <<table, phase, owner, stage, pending, audit, listed, histories, crashes>>

\* The event cannot be stored, or agent or model cannot be loaded.
SetupFails(r) ==
    /\ task[r] = "opened" /\ r \in Events
    /\ Mark(r, "failed") /\ task' = [task EXCEPT ![r] = "none"]
    /\ UNCHANGED <<phase, owner, stage, pending, audit, listed, histories, crashes>>

-----------------------------------------------------------------------------
(* ThreadPipeline.execute.                                                  *)

Begin(r) ==
    /\ task[r] = "opened"
    /\ Mark(r, "running") /\ task' = [task EXCEPT ![r] = "preparing"]
    /\ UNCHANGED <<phase, owner, stage, pending, audit, listed, histories, crashes>>

RecordOnly(r) ==
    /\ LoopFree /\ task[r] = "preparing" /\ r \in Events
    /\ Mark(r, "completed") /\ task' = [task EXCEPT ![r] = "none"]
    /\ UNCHANGED <<phase, owner, stage, pending, audit, listed, histories, crashes>>

CallAgent(r) ==
    /\ LoopFree /\ task[r] = "preparing"
    /\ task' = [task EXCEPT ![r] = "agent"]
    /\ UNCHANGED <<table, phase, owner, stage, pending, audit, listed, histories, crashes>>

\* ToolBroker.execute raises ApprovalRequired out of the agent; the prompt is
\* dispatched (a child's only goes into a report).
AskApproval(r) ==
    /\ LoopFree /\ task[r] = "agent" /\ asks[r] < MaxAsks
    /\ task' = [task EXCEPT ![r] = "asking"]
    /\ audit' = [audit EXCEPT ![r] = "waiting_approval"]
    /\ UNCHANGED <<table, phase, owner, stage, pending, listed, histories, crashes>>

\* The agent, or the plugin that skips it, returns "completed" or "failed".
AgentReturns(r, to) ==
    /\ LoopFree /\ task[r] = "agent" /\ to \in {"replying", "giving_up"}
    /\ task' = [task EXCEPT ![r] = to]
    /\ UNCHANGED <<table, phase, owner, stage, pending, audit, listed, histories, crashes>>

\* An exception in execute; on_error hooks run.
Raise(r) ==
    /\ LoopFree /\ task[r] \in Suspended \ {"delegating", "erring"}
    /\ task' = [task EXCEPT ![r] = "erring"]
    /\ UNCHANGED <<table, phase, owner, stage, pending, audit, listed, histories, crashes>>

\* FAULT: the exception is logged but the run is not marked.
FinishErrorUnmarked(r) ==
    /\ LoopFree /\ task[r] = "erring"
    /\ task' = [task EXCEPT ![r] = "none"]
    /\ UNCHANGED <<table, phase, owner, stage, pending, audit, listed, histories, crashes>>

FinishError(r) ==
    /\ LoopFree /\ task[r] = "erring"
    /\ Mark(r, "failed") /\ task' = [task EXCEPT ![r] = "none"]
    /\ UNCHANGED <<phase, owner, stage, pending, audit, listed, histories, crashes>>

\* _finish_run after a reply.
FinishReply(r, s) ==
    /\ LoopFree
    /\ \/ task[r] = "replying" /\ s \in {"completed", "completed_with_errors"}
       \/ task[r] = "giving_up" /\ s = "failed"
    /\ Mark(r, s) /\ task' = [task EXCEPT ![r] = "none"]
    /\ UNCHANGED <<phase, owner, stage, pending, audit, listed, histories, crashes>>

\* FAULT: the delivery report is not looked at.
MayWaitUnseen(r, delivered) == r \in Events

\* _finish_run parks a run only if it is not a child and the prompt arrived.
MayWait(r, delivered) == r \in Events /\ delivered

FinishAsking(r, delivered) ==
    /\ LoopFree /\ task[r] = "asking"
    /\ prompted' = IF delivered THEN prompted \cup {r} ELSE prompted
    /\ task' = [task EXCEPT ![r] = "none"]
    /\ IF MayWait(r, delivered)
       THEN MarkWaiting(r) /\ UNCHANGED audit
       ELSE /\ Mark(r, "failed") /\ UNCHANGED asks
            /\ audit' = [audit EXCEPT ![r] = "failed"]
    /\ UNCHANGED <<phase, owner, stage, pending, replays, refusals, listed, stopped, crashes>>

-----------------------------------------------------------------------------
(* RuntimeApp.approve_pending_approval and reject_pending_approval; the     *)
(* caller may give up, repeat the call or contradict it at any time.        *)

\* FAULT: the run is marked running only once the resumer has returned.
ApproveUnmarked(q, r) ==
    /\ LoopFree /\ stage[q] = "idle" /\ status[r] = "waiting_approval"
    /\ pending' = pending \ {r}
    /\ owner' = [owner EXCEPT ![q] = r] /\ stage' = [stage EXCEPT ![q] = "resuming"]
    /\ UNCHANGED <<table, phase, task, audit, listed, histories, crashes>>

\* Up to where the resumer prepares the workspace.
Approve(q, r) ==
    /\ LoopFree /\ stage[q] = "idle" /\ status[r] = "waiting_approval"
    /\ pending' = pending \ {r} /\ Mark(r, "running")
    /\ owner' = [owner EXCEPT ![q] = r] /\ stage' = [stage EXCEPT ![q] = "resuming"]
    /\ UNCHANGED <<phase, task, audit, listed, histories, crashes>>

Release(q) == owner' = [owner EXCEPT ![q] = None] /\ stage' = [stage EXCEPT ![q] = "idle"]

\* Thread, agent or workspace missing: failed, audit untouched.  The tool
\* unknown, hidden or refused by policy: failed, and the audit says so.
ResumeFails(q, a) ==
    /\ LoopFree /\ stage[q] = "resuming"
    /\ LET r == owner[q] IN
       /\ Mark(r, "failed")
       /\ a \in {audit[r], "failed", "rejected"} /\ (audit[r] = "none" => a = "none")
       /\ audit' = [audit EXCEPT ![r] = a]
    /\ Release(q)
    /\ UNCHANGED <<phase, task, pending, listed, histories, crashes>>

\* replay_approved_tool calls the handler.
ReplayTool(q) ==
    /\ LoopFree /\ stage[q] = "resuming"
    /\ stage' = [stage EXCEPT ![q] = "handler"]
    /\ replays' = [replays EXCEPT ![owner[q]] = @ + 1]
    /\ UNCHANGED <<table, phase, task, owner, pending, audit, asks, refusals, prompted, listed, stopped, crashes>>

\* The handler has returned or raised; the result is applied to the run.
ReplayEnds(q, s) ==
    /\ LoopFree /\ stage[q] = "handler" /\ s \in {"completed", "completed_with_errors", "failed"}
    /\ LET r == owner[q] IN
       /\ Mark(r, s)
       /\ audit' = [audit EXCEPT ![r] = IF @ = "none" THEN "none"
                                        ELSE IF s = "failed" THEN "failed" ELSE "completed"]
    /\ Release(q)
    /\ UNCHANGED <<phase, task, pending, listed, histories, crashes>>

\* Another resumer may ask for a further approval.
ReplayAsksAgain(q) ==
    /\ LoopFree /\ AsksAgain /\ stage[q] = "handler" /\ asks[owner[q]] < MaxAsks
    /\ MarkWaiting(owner[q])
    /\ pending' = pending \cup {owner[q]}
    /\ Release(q)
    /\ UNCHANGED <<phase, task, audit, replays, refusals, prompted, listed, stopped, crashes>>

Reject(r) ==
    /\ LoopFree /\ status[r] = "waiting_approval"
    /\ pending' = pending \ {r} /\ Mark(r, "cancelled")
    /\ refusals' = [refusals EXCEPT ![r] = @ + 1]
    /\ UNCHANGED <<phase, task, owner, stage, audit, asks, replays, prompted, listed, stopped, crashes>>

-----------------------------------------------------------------------------
(* prune_workspace and stop_workspace_sandbox with force.                   *)

\* The runs of a thread that the table calls active are listed; then the shell
\* sessions are closed.
StopBegins(p, t) ==
    /\ LoopFree /\ listed[p] = {}
    /\ listed' = [listed EXCEPT ![p] = {r \in Runs : ThreadOf[r] = t /\ status[r] \in Active}]
    /\ UNCHANGED <<table, phase, task, owner, stage, pending, audit, histories, crashes>>

\* A session that was closed meanwhile ends the call.
StopFails(p) ==
    /\ LoopFree /\ listed[p] # {}
    /\ listed' = [listed EXCEPT ![p] = {}]
    /\ UNCHANGED <<table, phase, task, owner, stage, pending, audit, histories, crashes>>

\* Every run that was listed is marked cancelled, whatever became of it
\* meanwhile.  Its task, its approve call and its entry in the pending
\* approvals stay.
StopMarks(p) ==
    /\ LoopFree /\ listed[p] # {}
    /\ status' = [r \in Runs |-> IF r \in listed[p] THEN "cancelled" ELSE status[r]]
    /\ context' = [r \in Runs |-> context[r] /\ r \notin listed[p]]
    /\ stopped' = stopped \cup listed[p]
    /\ listed' = [listed EXCEPT ![p] = {}]
    /\ UNCHANGED <<phase, task, owner, stage, pending, audit, asks, replays, refusals, prompted, crashes>>

-----------------------------------------------------------------------------
(* The process.                                                             *)

Crash ==
    /\ phase # "down" /\ crashes < MaxCrashes
    /\ crashes' = crashes + 1 /\ phase' = "down"
    /\ task' = [r \in Runs |-> "none"]
    /\ owner' = [q \in Requests |-> None] /\ stage' = [q \in Requests |-> "idle"]
    /\ pending' = {} /\ listed' = [p \in Stops |-> {}] /\ audit' = [r \in Runs |-> "none"]
    /\ UNCHANGED <<table, histories>>

Start ==
    /\ phase = "down"
    /\ phase' = "recovering" /\ pending' = {}
    /\ UNCHANGED <<table, task, owner, stage, audit, listed, histories, crashes>>

\* FAULT: every active run is closed.
LostActive(r) == status[r] \in Active

\* Runs nobody will continue.
Lost(r) == status[r] \in {"queued", "running"}

\* One round of the loop in recover_active_runs.
Recover(r) ==
    /\ phase = "recovering"
    /\ \/ Lost(r) /\ Mark(r, "interrupted") /\ UNCHANGED pending
       \/ /\ ~ Lost(r) /\ status[r] = "waiting_approval" /\ r \notin pending
          /\ pending' = pending \cup {r} /\ UNCHANGED <<status, context>>
    /\ UNCHANGED <<phase, task, owner, stage, audit, listed, histories, crashes>>

\* The rest of RuntimeApp.start: plugins, scheduler, gateway, WebUI.
Started ==
    /\ phase = "recovering"
    /\ \A r \in Runs : ~ Lost(r) /\ (status[r] = "waiting_approval" => r \in pending)
    /\ phase' = "up"
    /\ UNCHANGED <<table, memory, histories, crashes>>

-----------------------------------------------------------------------------
PipelineStep(r) ==
    \/ Open(r) \/ Delegate(r) \/ DelegationEnds(r) \/ SetupFails(r)
    \/ Begin(r) \/ RecordOnly(r) \/ CallAgent(r) \/ AskApproval(r)
    \/ \E to \in Suspended : AgentReturns(r, to)
    \/ Raise(r) \/ FinishError(r)
    \/ \E s \in Ended : FinishReply(r, s)
    \/ \E delivered \in BOOLEAN : FinishAsking(r, delivered)

ApprovalStep(q) ==
    \/ \E r \in Runs : Approve(q, r)
    \/ \E a \in {"none", "waiting_approval", "completed", "failed", "rejected"} : ResumeFails(q, a)
    \/ ReplayTool(q) \/ ReplayAsksAgain(q)
    \/ \E s \in Ended : ReplayEnds(q, s)

OperatorStep(p) ==
    \/ \E r \in Runs : StopBegins(p, ThreadOf[r])
    \/ StopFails(p) \/ StopMarks(p)

Next ==
    \/ \E r \in Runs : PipelineStep(r) \/ Reject(r) \/ Recover(r)
    \/ \E q \in Requests : ApprovalStep(q)
    \/ \E p \in Stops : OperatorStep(p)
    \/ Crash \/ Start \/ Started

Spec == Init /\ [][Next]_vars

-----------------------------------------------------------------------------
(* Properties.                                                              *)

Busy(r) == task[r] # "none" \/ \E q \in Requests : Resumes(q, r)

\* Every time a run waits for approval it gets at most one answer: the tool
\* call is run at most once, and never when the approval was rejected,
\* however often approve and reject are called and wherever the process dies.
OneAnswerPerAsk == \A r \in Runs : replays[r] + refusals[r] <= asks[r]

\* A queued or running run has exactly one task behind it, the pipeline or
\* one approve call; a run that waits or has ended has none, unless it is one
\* that an operator's forced call has marked cancelled over the work on it.
OneTaskPerRun ==
    phase = "up" => \A r \in Runs :
        /\ status[r] \in {"queued", "running"} => Busy(r)
        /\ Busy(r) => \/ status[r] \in {"queued", "running"}
                      \/ status[r] = "cancelled" /\ r \in stopped
        /\ task[r] # "none" => \A q \in Requests : ~ Resumes(q, r)
        /\ \A p, q \in Requests : Resumes(p, r) /\ Resumes(q, r) => p = q

(* A tool that needs approval runs only after the user was shown the prompt. *)
ReplayedWasPrompted == \A r \in Runs : replays[r] > 0 => r \in prompted

(* What waits can be resumed: it is not a child, and the table has its tool *)
(* call.  What does not wait has no approval context left over.             *)
WaitingIsReplayable ==
    \A r \in Runs : IF status[r] = "waiting_approval" THEN context[r] /\ r \in Events
                                                      ELSE ~ context[r]

\* A run waits only for an answer that somebody was asked for and that can be
\* carried out.
AskedAndReplayable == ReplayedWasPrompted /\ WaitingIsReplayable

\* A child run is over before its parent goes on.
ChildWithinParent ==
    phase = "up" => \A c \in Children : status[c] \in Active => task[ParentOf[c]] = "delegating"

\* A run that has ended keeps its final status: no late answer, no second
\* task and no recovery changes it.  Only a forced call does, which marks what
\* it had listed, and the work that such a call has left running.
EndedForGood ==
    [][\A r \in Runs : status[r] \in Ended /\ status'[r] # status[r] =>
          \/ status'[r] = "cancelled" /\ \E p \in Stops : r \in listed[p]
          \/ status[r] = "cancelled" /\ r \in stopped /\ Busy(r)]_vars

(* What the table and the approve calls say of a run, in the terms of the *)
(* promise. *)
StateWord(s) ==
    IF s = "none" THEN "new"
    ELSE IF s = "waiting_approval" THEN "waiting"
    ELSE IF s \in {"queued", "running"} THEN "working" ELSE "done"
PromisedState == [r \in Runs |-> StateWord(status[r])]
PromisedGrants == {r \in Runs : \E q \in Requests : owner[q] = r /\ stage[q] = "resuming"}

Promise == INSTANCE RunPromise WITH
    state <- PromisedState, granted <- PromisedGrants, calls <- replays, refused <- refusals, stopped <- stopped

\* Every step of pipelines, approve, reject and forced calls, crashes and
\* recovery is a step of the promise or none: a run that has ended stays so, only
\* an answer or a forced call ends a wait, an approval is used once, and a run
\* stopped by force may only end again or ask.
KeepsPromise == Promise!Spec

=============================================================================
