---------------------------- MODULE MCAgentLoop ----------------------------
(* Instance of AgentLoop for TLC: one plugin that provides a tool of its    *)
(* own and tries to provide a builtin one, a world with a skill and no      *)
(* sub-agent, and a workspace without bash.  A tool other than message      *)
(* answers nothing, with a plan for one end or for all, or with attachments *)
(* of which one can be shown.                                               *)
EXTENDS AgentLoop

CONSTANTS p1, k1, k2

MCBuiltin == {"message", "bash", "Skill", "delegate_subagent", "ask_backend"}
MCPluginTools == {"message", "sample_tool"}
MCEnabled == {"message", "bash", "sample_tool", "ask_backend"}
MCAsked == {"message", "bash", "Skill", "sample_tool", "ask_backend"}

Answer(plans, attached) == [acts |-> plans, files |-> attached]
Planned(kind, when) == <<[kind |-> kind, when |-> when]>>
MCResults ==
    {Answer(<<>>, <<>>), Answer(<<>>, <<"blank", "full">>),
     Answer(Planned("send", "failure"), <<>>), Answer(Planned("other", "always"), <<>>),
     Answer(Planned("other", "waiting_approval"), <<>>)}
=============================================================================
