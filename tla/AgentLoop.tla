----------------------------- MODULE AgentLoop -----------------------------
(***************************************************************************)
(* One run's conversation with the model: ModelAgentRuntime.execute builds *)
(* the run's tools with the ToolBroker, LitellmAgent.run calls the model   *)
(* and answers its tool calls one after the other through the broker, and  *)
(* the response becomes the run's result.                                  *)
(*                                                                         *)
(* The run suspends in the completion, in a tool's handler, and in the     *)
(* policy and the audit, whose interfaces are asynchronous.  Meanwhile     *)
(* plugins register and unregister tools and the catalogs are reloaded.    *)
(***************************************************************************)
EXTENDS Naturals, Sequences, FiniteSets, SequencesExt, Places

CONSTANTS
    Plugins,     \* plugin sources that register tools
    Builtin,     \* names the builtin surfaces register at start
    PluginTools, \* names plugins register; some are builtin names
    Enabled,     \* agent.enabled_tools
    WorldSkills, \* world_view.visible_skill_names, {} when /skills is hidden
    WorldAgents, \* computer_policy_decision.visible_subagents
    Available,   \* workspace_state.available_tools
    Bridge,      \* the backend bridge is configured
    MaxRounds,   \* max_tool_rounds
    Results,     \* what tools other than message answer: plans and attachments
    MaxCalls,    \* bound: tool calls in the first response; later ones have one
    Asked,       \* bound: the names the model may ask for
    None

\* A planned action, with the ends of the run that commit it.  A "send"
\* suppresses the default reply.
CommitWhen == {"success", "failure", "waiting_approval", "always"}
Plan == [kind : {"send", "react", "recall", "other", "reply", "attachment", "prompt"},
         when : CommitWhen]

\* An attachment; a blank one is an image with neither url nor data.
Attachment == {"full", "blank"}

ASSUME AgentLoopAssumption ==
    /\ "builtin" \notin Plugins /\ None \notin Plugins \cup {"builtin"}
    /\ MaxRounds \in Nat /\ MaxCalls \in Nat /\ Bridge \in BOOLEAN
    /\ Results \subseteq [acts : Seq(Plan), files : Seq(Attachment)]
    /\ None \notin Results

\* A name the model makes up is one that is never registered.
Names == Builtin \cup PluginTools \cup Asked
ComputerTools == {"read", "write", "edit", "bash"}

VARIABLES
    tools,       \* ToolBroker._tools: name -> source
    catalog,     \* the skills and sub-agents the catalogs hold now
    at,          \* where the run is suspended
    offered,     \* the tools passed to the agent; an executor only with some
    msgs,        \* full_messages after the given ones
    rounds,      \* completed tool rounds
    todo,        \* calls of the last response still to be answered
    audit,       \* the calls' audit records, in order
    planned,     \* state.user_actions
    files,       \* all_attachments, of the tool results
    result       \* the AgentRuntimeResult

vars == <<tools, catalog, at, offered, msgs, rounds, todo, audit, planned, files, result>>
registry == <<tools, catalog>>

Init ==
    /\ tools = [n \in Names |-> IF n \in Builtin THEN "builtin" ELSE None]
    /\ catalog = WorldSkills \cup WorldAgents
    /\ at = "idle" /\ offered = {} /\ msgs = <<>> /\ rounds = 0 /\ todo = <<>>
    /\ audit = <<>> /\ planned = <<>> /\ files = <<>>
    /\ result = None

-----------------------------------------------------------------------------
(* The broker's registry and what a run may use of it.                      *)

Registered == {n \in Names : tools[n] # None}

VisibleSkills == WorldSkills \cap catalog

VisibleSubagents == WorldAgents \cap catalog

ExposeBackend == Bridge /\ "ask_backend" \in Registered \cap Enabled

\* Without visible skills (sub-agents) the tool goes even when enabled; with
\* some it is added when registered.
SpecialTool(name, some) ==
    IF some THEN {name} \cap (Registered \cup Enabled) ELSE {}

AllowedToolNames ==
    LET wanted == (Enabled \ {"Skill", "delegate_subagent"})
                  \cup SpecialTool("Skill", VisibleSkills # {})
                  \cup SpecialTool("delegate_subagent", VisibleSubagents # {})
                  \cup (IF ExposeBackend THEN {"ask_backend"} ELSE {})
    IN {n \in wanted : n \in ComputerTools => n \in Available}

VisibleTools == AllowedToolNames \cap Registered

\* FAULT: a plugin may take over any name.
RegisterOver(n, src) == tools' = [tools EXCEPT ![n] = src]

\* A tool of another source does not shadow a builtin one.
RegisterTool(n, src) ==
    /\ ~(tools[n] = "builtin" /\ src # "builtin")
    /\ tools' = [tools EXCEPT ![n] = src]

UnregisterSource(src) ==
    tools' = [n \in Names |-> IF tools[n] = src THEN None ELSE tools[n]]

\* Bound: nothing changes once the run has its result.
PluginLoads ==
    /\ at # "done"
    /\ \E n \in PluginTools, p \in Plugins : RegisterTool(n, p)
    /\ UNCHANGED <<catalog, at, offered, msgs, rounds, todo, audit, planned, files, result>>

PluginUnloads ==
    /\ at # "done"
    /\ \E p \in Plugins : UnregisterSource(p)
    /\ UNCHANGED <<catalog, at, offered, msgs, rounds, todo, audit, planned, files, result>>

CatalogReloads ==
    /\ at # "done"
    /\ \E c \in SUBSET (WorldSkills \cup WorldAgents) : catalog' = c
    /\ UNCHANGED <<tools, at, offered, msgs, rounds, todo, audit, planned, files, result>>

-----------------------------------------------------------------------------
(* From the agent's response to the run's result.                           *)

\* When the actions are committed that a run of this status commits.
CommittedWhen(status) ==
    CASE status = "completed" -> {"success", "always"}
      [] status = "failed" -> {"failure", "always"}
      [] status = "waiting_approval" -> {"waiting_approval", "always"}

\* The list keeps the order of the plans.
SelectCommitted(actions, status) ==
    Chosen(actions, {i \in DOMAIN actions : actions[i].when \in CommittedWhen(status)})

Prompt == [kind |-> "prompt", when |-> "waiting_approval"]
Reply == [kind |-> "reply", when |-> "success"]
AttachmentAction == [kind |-> "attachment", when |-> "success"]

SuppressesDefaultReply(actions) == \E i \in DOMAIN actions : actions[i].kind = "send"

\* A blank attachment becomes no action.
AttachmentActions ==
    [k \in 1..Cardinality({i \in DOMAIN files : files[i] # "blank"}) |-> AttachmentAction]

\* What the tools planned, the reply, then the tools' attachments.
Completed(text) ==
    LET reply == IF text /\ ~SuppressesDefaultReply(planned) THEN <<Reply>> ELSE <<>>
    IN [status |-> "completed", pending |-> 0,
        actions |-> SelectCommitted(planned \o (reply \o AttachmentActions), "completed")]

Failed(acts) ==
    [status |-> "failed", actions |-> SelectCommitted(acts, "failed"), pending |-> 0]

WaitingApproval(acts, call) ==
    [status |-> "waiting_approval",
     actions |-> SelectCommitted(acts, "waiting_approval"), pending |-> call]

End(r) == at' = "done" /\ result' = r /\ todo' = <<>>

Raised == [status |-> "raised", actions |-> <<>>, pending |-> 0]

-----------------------------------------------------------------------------
(* ModelAgentRuntime.execute up to the agent's first completion.  A request *)
(* without a model name raises; one for a model without tools fails when    *)
(* the run has tools.                                                       *)

CapabilityError(request) ==
    request = "none" \/ (VisibleTools # {} /\ request = "without_tools")

BuildToolRuntime == offered' = VisibleTools

Start(request) ==
    /\ at = "idle"
    /\ BuildToolRuntime
    /\ IF CapabilityError(request) THEN End(Failed(<<>>))
       ELSE IF request = "unnamed"
            THEN End(Raised)
            ELSE at' = "llm" /\ UNCHANGED <<todo, result>>
    /\ UNCHANGED <<registry, msgs, rounds, audit, planned, files>>

LlmFails ==
    /\ at = "llm"
    /\ End(Failed(planned))
    /\ UNCHANGED <<registry, offered, msgs, rounds, audit, planned, files>>

LlmAnswers(text) ==
    /\ at = "llm"
    /\ End(Completed(text))
    /\ UNCHANGED <<registry, offered, msgs, rounds, audit, planned, files>>

\* The assistant message is appended before its first call is executed.
AppendCalls(names) ==
    LET calls == [i \in 1..Len(names) |-> [id |-> <<rounds, i>>, name |-> names[i]]]
    IN /\ msgs' = Append(msgs, [role |-> "assistant",
                                ids |-> [i \in 1..Len(names) |-> <<rounds, i>>]])
       /\ todo' = calls /\ at' = "call" /\ UNCHANGED result

\* A model that asks for tools though it was given none ends the run.
LlmCalls(names) ==
    /\ at = "llm"
    /\ IF offered = {} THEN End(Failed(planned)) /\ UNCHANGED msgs ELSE AppendCalls(names)
    /\ UNCHANGED <<registry, offered, rounds, audit, planned, files>>

\* The call is answered; then comes the next call, the next completion, or
\* the end of a loop of MaxRounds + 1 completions.
NextCall ==
    /\ msgs' = Append(msgs, [role |-> "tool", ids |-> <<Head(todo).id>>])
    /\ IF Len(todo) > 1
       THEN todo' = Tail(todo) /\ at' = "call" /\ UNCHANGED <<rounds, result>>
       ELSE /\ rounds' = rounds + 1
            /\ IF rounds < MaxRounds THEN at' = "llm" /\ todo' = <<>> /\ UNCHANGED result
               ELSE End(Failed(planned'))

-----------------------------------------------------------------------------
(* ToolBroker.execute.                                                      *)

Started(name) == [name |-> name, src |-> tools[name], status |-> "started"]

\* FAULT: a call that is not allowed raises out of the loop's answer.
ExecuteUnanswered ==
    /\ at = "call"
    /\ audit' = Append(audit, Started(Head(todo).name))
    /\ IF Head(todo).name \in VisibleTools THEN at' = "policy" /\ UNCHANGED <<todo, rounds>>
       ELSE /\ todo' = Tail(todo) /\ rounds' = rounds
            /\ at' = IF Len(todo) > 1 THEN "call" ELSE "llm"
    /\ UNCHANGED <<registry, offered, msgs, planned, files, result>>

\* The names the run may use are worked out again for every call.
BuildExecutionContext == AllowedToolNames

\* The handler is the one registered now.
Execute ==
    /\ at = "call"
    /\ UNCHANGED <<registry, offered, planned, files>>
    /\ LET name == Head(todo).name
       IN IF name \in BuildExecutionContext /\ tools[name] # None
          THEN /\ audit' = Append(audit, Started(name))
               /\ at' = "policy"
               /\ UNCHANGED <<msgs, rounds, todo, result>>
          ELSE /\ audit' = Append(audit, [Started(name) EXCEPT !.status = "rejected"])
               /\ NextCall

SetLast(status) == audit' = [audit EXCEPT ![Len(audit)].status = status]

Deny ==
    /\ at = "policy"
    /\ UNCHANGED <<registry, offered, planned, files>>
    /\ SetLast("rejected") /\ NextCall

\* The prompt is planned, the record waits and ApprovalRequired unwinds the
\* loop: the calls that follow are never made.
RequireApproval ==
    /\ at = "policy"
    /\ SetLast("waiting_approval")
    /\ planned' = Append(planned, Prompt)
    /\ End(WaitingApproval(planned', Len(audit)))
    /\ UNCHANGED <<registry, offered, msgs, rounds, files>>

Allow ==
    /\ at = "policy"
    /\ at' = "handler"
    /\ UNCHANGED <<registry, offered, msgs, rounds, todo, audit, planned, files, result>>

-----------------------------------------------------------------------------
(* The handlers.  The message tool plans one action or raises; another      *)
(* tool answers with any plans and attachments, or raises.                  *)

Plans(kind) == [acts |-> <<[kind |-> kind, when |-> "success"]>>, files |-> <<>>]

\* Some of text, images or render is required, and a known target.
HandleSend(args) == IF args.valid THEN Plans("send") ELSE None

\* The message's id is required, and for a reaction a known emoji.
HandleReact(args) == IF args.valid THEN Plans("react") ELSE None

HandleRecall(args) == IF args.valid THEN Plans("recall") ELSE None

HandleMessage(args) ==
    CASE args.action = "send" -> HandleSend(args)
      [] args.action = "react" -> HandleReact(args)
      [] args.action = "recall" -> HandleRecall(args)
      [] OTHER -> None

MessageArgs == [action : {"send", "react", "recall", "unknown"}, valid : BOOLEAN]

Outcomes(name) ==
    IF name = "message" THEN {HandleMessage(a) : a \in MessageArgs}
    ELSE Results \cup {None}

\* FAULT: a tool that fails is called again.
HandlerRetried ==
    /\ at = "handler"
    /\ None \in Outcomes(Head(todo).name)
    /\ at' = "policy"
    /\ UNCHANGED <<registry, offered, msgs, rounds, todo, audit, planned, files, result>>

\* An exception is the tool's answer, even ApprovalRequired raised inside.
HandlerFails ==
    /\ at = "handler"
    /\ None \in Outcomes(Head(todo).name)
    /\ UNCHANGED <<registry, offered, planned, files>>
    /\ SetLast("failed") /\ NextCall

HandlerReturns ==
    /\ at = "handler"
    /\ \E out \in Outcomes(Head(todo).name) \ {None} :
          planned' = planned \o out.acts /\ files' = files \o out.files
    /\ SetLast("completed") /\ NextCall
    /\ UNCHANGED <<registry, offered>>

\* Arguments that are no text, a policy that raises or a result that cannot
\* be written down: nothing catches it, and the record stays as it is.
CallRaises ==
    /\ at \in {"call", "policy", "handler"}
    /\ End(Raised)
    /\ UNCHANGED <<registry, offered, msgs, rounds, audit, planned, files>>

\* The application stops and cancels the task where it is suspended.
Cancel ==
    /\ at \in {"llm", "policy", "handler"}
    /\ End([status |-> "cancelled", actions |-> <<>>, pending |-> 0])
    /\ UNCHANGED <<registry, offered, msgs, rounds, audit, planned, files>>

-----------------------------------------------------------------------------

Requests == {"none", "unnamed", "without_tools", "full"}
Responses == UNION {[1..k -> Asked] : k \in 1..(IF rounds = 0 THEN MaxCalls ELSE 1)}

Progress ==
    \/ \E q \in Requests : Start(q)
    \/ LlmFails
    \/ \E t \in BOOLEAN : LlmAnswers(t)
    \/ \E names \in Responses : LlmCalls(names)
    \/ Execute \/ Deny \/ RequireApproval \/ Allow
    \/ HandlerFails \/ HandlerReturns \/ CallRaises

Next == Progress \/ Cancel \/ PluginLoads \/ PluginUnloads \/ CatalogReloads

\* The model and the policy answer in the end.  A handler may wait for ever.
Fairness == WF_vars(Progress /\ at # "handler")

Spec == Init /\ [][Next]_vars /\ Fairness

-----------------------------------------------------------------------------

Asks(m) == msgs[m].role = "assistant"

\* Message n is the answer to the call of message m that stands n - m behind.
Answers(n, m) ==
    /\ n - m \in DOMAIN msgs[m].ids
    /\ msgs[n] = [role |-> "tool", ids |-> <<msgs[m].ids[n - m]>>]

(* What the model is shown is well formed: an answer is that of a call asked *)
(* before it, a message's calls are answered in their order with nothing    *)
(* between, no call is answered twice, and all are answered before the model *)
(* is called again - whatever the broker did with the call (rejected,       *)
(* denied, failed) and whatever plugin was unloaded between offer and call.  *)
CallsAnswered ==
    /\ \A n \in DOMAIN msgs : Asks(n) \/ \E m \in 1..(n - 1) : Asks(m) /\ Answers(n, m)
    /\ \A m, n \in DOMAIN msgs :
          Asks(m) /\ n \in (m + 1)..(m + Len(msgs[m].ids)) => Answers(n, m)
    /\ \A m, n \in DOMAIN msgs : msgs[m] = msgs[n] => m = n
    /\ at = "llm" =>
          \A m \in DOMAIN msgs : Asks(m) => m + Len(msgs[m].ids) <= Len(msgs)

Final == {"completed", "rejected", "failed"}

(* A run waits exactly for its last call, with every earlier call settled;  *)
(* a run that completed or failed left no call open.                        *)
ResultMatchesCalls ==
    at = "done" =>
       LET s == result.status
           settled(n) == \A i \in 1..n : audit[i].status \in Final
       IN /\ s \in {"completed", "failed"} => settled(Len(audit))
          /\ s = "waiting_approval" =>
                /\ result.pending = Len(audit) /\ settled(Len(audit) - 1)
                /\ audit[result.pending].status = "waiting_approval"

Due(status) == {i \in DOMAIN planned : planned[i].when \in CommittedWhen(status)}

(* A run's result carries what its tools planned for such an end, each once  *)
(* and in the order of the calls; a completed run adds its reply, if no tool *)
(* sent a message, and then every attachment that can be shown.  What was    *)
(* planned for another end, or by a run that raised or was cancelled, is     *)
(* not carried.                                                             *)
ResultCommitsPlans ==
    at = "done" =>
       LET due == Due(result.status)
           kept == Cardinality(due)
           shown == Cardinality({i \in DOMAIN files : files[i] # "blank"})
           replies == Len(result.actions) - kept - shown
       IN /\ result.status \in {"completed", "failed", "waiting_approval"} =>
                \A i \in due : result.actions[Cardinality(due \cap 1..i)] = planned[i]
          /\ result.status \in {"failed", "waiting_approval"} => Len(result.actions) = kept
          /\ result.status = "completed" =>
                /\ replies \in {0, 1}
                /\ replies = 1 => /\ ~SuppressesDefaultReply(planned)
                                  /\ result.actions[kept + 1] = Reply
                /\ \A k \in 1..shown : result.actions[kept + replies + k] = AttachmentAction
          /\ result.status \in {"raised", "cancelled"} => result.actions = <<>>

\* The loop of completions keeps its books: the transcript the model is shown
\* and the result the run is left with both tell what became of every call.
CallsSettled == CallsAnswered /\ ResultMatchesCalls /\ ResultCommitsPlans

\* Whatever plugins registered meanwhile, a handler that ran is the builtin
\* one where the name is builtin, and the run was configured for the tool: by
\* its agent, or by the skills and sub-agents of its world view, and within
\* the workspace's tools.
HandlersPermitted ==
    \A i \in 1..Len(audit) :
       LET n == audit[i].name
       IN audit[i].status \in {"completed", "failed", "waiting_approval"} =>
             /\ n \in Builtin => audit[i].src = "builtin"
             /\ n \in Enabled \cup {"Skill", "delegate_subagent"}
             /\ n = "Skill" => WorldSkills # {}
             /\ n = "delegate_subagent" => WorldAgents # {}
             /\ n \in ComputerTools => n \in Available

\* A run ends even if the model asks for tools in every response, as long as
\* no handler waits for ever.
LoopEnds == []<>(at # "handler") => (at = "llm" ~> at = "done")
=============================================================================
