--------------------------- MODULE BackendBridge ---------------------------
(***************************************************************************)
(* The bridge to the backend maintainer (backend/): administrators and the *)
(* ask_backend tool send changes and queries to one pi process over rpc.   *)
(* A change is prompted in the canonical session, the one the binding file *)
(* names; a query is prompted in a fork of it.                             *)
(*                                                                         *)
(* A step is a command's round trip to pi, which the stdout lock keeps to  *)
(* itself.  Nothing keeps a request to itself: the commands of several may *)
(* alternate (in any order here; the lock serves who came first).  A       *)
(* prompt is two round trips: its response and, with the lock taken anew,  *)
(* the wait for the event that ends the work; a command in between drops   *)
(* that event.  The adapter looks for a dead process only at the start of  *)
(* a request, and resumes with a response before it hears of an exit.  pi  *)
(* is external: a new process opens a new session, sessions are files that *)
(* outlive it, and a prompt is refused while another one is worked on.     *)
(***************************************************************************)
EXTENDS Naturals, Sequences, SequencesExt

CONSTANTS
    Requests,    \* requests, each made once
    Kind,        \* [Requests -> {"change", "query"}]
    Source,      \* [Requests -> {"tool", "private", "bang"}]
    Sessions,    \* session files; each one pi opens or forks is new
    None

VARIABLES
    pi,          \* [up : "none", "up", "dead" or "reaped"; session: the open file;
                 \*  working on a prompt; ended: the end event is unread in the pipe]
    contents,    \* contents[s]: the requests prompted in session file s
    opened,      \* session files used so far
    binding,     \* session.json: the canonical session file
    maintain,    \* the administrator's private thread is in BackendModeRegistry
    req,         \* req[q]: where q is; existing: the binding it found or the session
                 \* it forks; cut: the entries that fork keeps; live: its process runs
    reader,      \* the request that holds the stdout lock until its work ends
    asked,       \* requests made so far
    answered,    \* requests that returned their answer
    crossed      \* history: a query was under way together with another request

vars == <<pi, contents, opened, binding, maintain, req, reader, asked, answered, crossed>>

NoReq == [at |-> "idle", existing |-> None, cut |-> 0, live |-> FALSE]

Init ==
    /\ pi = [up |-> "none", session |-> None, working |-> FALSE, ended |-> FALSE]
    /\ contents = [s \in Sessions |-> <<>>] /\ opened = {}
    /\ binding = None /\ maintain = FALSE
    /\ req = [q \in Requests |-> NoReq] /\ reader = None
    /\ asked = {} /\ answered = {} /\ crossed = FALSE

-----------------------------------------------------------------------------
(* The administrator's entry points and the tool.                           *)

EnterBackendMode ==
    /\ ~maintain /\ maintain' = TRUE
    /\ UNCHANGED <<pi, contents, opened, binding, req, reader, asked, answered, crossed>>

ExitBackendMode ==
    /\ maintain /\ maintain' = FALSE
    /\ UNCHANGED <<pi, contents, opened, binding, req, reader, asked, answered, crossed>>

\* A private message goes to the backend only in backend mode; a message with
\* a bang and the tool always do.  Administrators only make changes.
Reaches(q) == (Source[q] = "private" => maintain) /\ (Source[q] # "tool" => Kind[q] = "change")

\* Bound: pi opens as many sessions as there are names.
NewSession == CHOOSE s \in Sessions \ opened : TRUE
More == opened # Sessions

\* A process is started if there is none or the last one is known to be dead.
Starts == pi.up \in {"none", "reaped"}

EnsureStarted ==
    IF Starts
    THEN /\ More /\ opened' = opened \cup {NewSession}
         /\ pi' = [up |-> "up", session |-> NewSession, working |-> FALSE, ended |-> FALSE]
    ELSE UNCHANGED <<pi, opened>>

\* _validate_summary: a blank summary or a raw pi command is refused.
Refuse(q) ==
    /\ q \notin asked /\ Reaches(q)
    /\ asked' = asked \cup {q}
    /\ UNCHANGED <<pi, contents, opened, binding, maintain, req, reader, answered, crossed>>

UnderWay == {q \in Requests : req[q].at # "idle"}

\* Who waits for a process that is replaced does not get its answer any more.
Begin(q) ==
    /\ q \notin asked /\ Reaches(q)
    /\ asked' = asked \cup {q}
    /\ EnsureStarted
    /\ req' = [p \in Requests |->
          IF p = q THEN [at |-> "state", existing |-> binding, cut |-> 0, live |-> TRUE]
          ELSE [req[p] EXCEPT !.live = @ /\ ~Starts]]
    /\ crossed' = (crossed \/ \E p \in UnderWay : "query" \in {Kind[p], Kind[q]})
    /\ UNCHANGED <<contents, binding, maintain, reader, answered>>

-----------------------------------------------------------------------------
(* The answers of pi to the commands of a request.  A command waits for its *)
(* own response and drops whatever it reads before it.                      *)

At(q, step) == req[q].at = step /\ req[q].live /\ pi.up = "up" /\ reader = None
GoTo(q, step) == req' = [req EXCEPT ![q].at = step]
Read == pi' = [pi EXCEPT !.ended = FALSE]

SaveBinding == binding' = pi.session

Bound(q) ==
    GoTo(q, IF Kind[q] = "change" THEN "pre_prompt" ELSE "fork_state") /\ SaveBinding

\* FAULT: the session pi happens to have open is taken for the canonical one.
StateNoSwitch(q) ==
    /\ At(q, "state") /\ Bound(q) /\ Read
    /\ UNCHANGED <<contents, opened, maintain, reader, asked, answered, crossed>>

\* The canonical session is opened again when pi has another one open; the
\* binding is not written before that.
State(q) ==
    /\ At(q, "state") /\ Read
    /\ IF req[q].existing \notin {None, pi.session}
       THEN GoTo(q, "switch_state") /\ UNCHANGED binding
       ELSE Bound(q)
    /\ UNCHANGED <<contents, opened, maintain, reader, asked, answered, crossed>>

SwitchState(q) ==
    /\ At(q, "switch_state") /\ Read /\ GoTo(q, "switch")
    /\ UNCHANGED <<contents, opened, binding, maintain, reader, asked, answered, crossed>>

Switch(q) ==
    /\ At(q, "switch") /\ GoTo(q, "switched")
    /\ pi' = [pi EXCEPT !.session = req[q].existing, !.ended = FALSE]
    /\ UNCHANGED <<contents, opened, binding, maintain, reader, asked, answered, crossed>>

Switched(q) ==
    /\ At(q, "switched") /\ Read /\ Bound(q)
    /\ UNCHANGED <<contents, opened, maintain, reader, asked, answered, crossed>>

PrePrompt(q) ==
    /\ At(q, "pre_prompt") /\ Read /\ GoTo(q, "prompt")
    /\ UNCHANGED <<contents, opened, binding, maintain, reader, asked, answered, crossed>>

ForkState(q) ==
    /\ At(q, "fork_state") /\ Read /\ GoTo(q, "fork_messages")
    /\ UNCHANGED <<contents, opened, binding, maintain, reader, asked, answered, crossed>>

\* A session without messages cannot be forked: the query is prompted in it.
\* The fork will hold what came before the last user message listed here.
ForkMessages(q) ==
    /\ At(q, "fork_messages") /\ Read
    /\ req' = [req EXCEPT ![q] =
          IF contents[pi.session] = <<>> THEN [@ EXCEPT !.at = "prompt"]
          ELSE [@ EXCEPT !.at = "fork", !.existing = pi.session,
                         !.cut = Len(contents[pi.session]) - 1]]
    /\ UNCHANGED <<contents, opened, binding, maintain, reader, asked, answered, crossed>>

\* Only the session that is open can be forked, at a message of its own.
Fork(q) ==
    /\ At(q, "fork") /\ GoTo(q, "prompt")
    /\ pi.session = req[q].existing
    /\ More /\ opened' = opened \cup {NewSession}
    /\ contents' = [contents EXCEPT ![NewSession] = SubSeq(contents[pi.session], 1, req[q].cut)]
    /\ pi' = [pi EXCEPT !.session = NewSession, !.ended = FALSE]
    /\ UNCHANGED <<binding, maintain, reader, asked, answered, crossed>>

PromptAccepted(q) ==
    /\ At(q, "prompt") /\ GoTo(q, "agent_end")
    /\ ~pi.working /\ pi' = [pi EXCEPT !.working = TRUE, !.ended = FALSE]
    /\ contents' = [contents EXCEPT ![pi.session] = Append(@, q)]
    /\ UNCHANGED <<opened, binding, maintain, reader, asked, answered, crossed>>

\* The stdout lock is taken anew, and kept until an end event is read.  It is
\* never that of another process: with the lock held nobody can prompt there.
ReadUntilEvent(q) ==
    /\ req[q].at = "agent_end" /\ reader = None /\ reader' = q
    /\ UNCHANGED <<pi, contents, opened, binding, maintain, req, asked, answered, crossed>>

AgentEnd(q) ==
    /\ reader = q /\ req[q].at = "agent_end" /\ req[q].live /\ pi.up = "up" /\ pi.ended
    /\ GoTo(q, "post_prompt") /\ Read /\ reader' = None
    /\ UNCHANGED <<contents, opened, binding, maintain, asked, answered, crossed>>

\* The session is read once more; a change writes the binding again.
Answer(q) ==
    /\ At(q, "post_prompt") /\ Read
    /\ answered' = answered \cup {q} /\ req' = [req EXCEPT ![q] = NoReq]
    /\ IF Kind[q] = "change" THEN SaveBinding ELSE UNCHANGED binding
    /\ UNCHANGED <<contents, opened, maintain, reader, asked, crossed>>

CommandFails(q) ==
    /\ \E step \in {"state", "switch_state", "switch", "switched", "pre_prompt", "fork_state",
                    "fork_messages", "fork", "prompt", "post_prompt"} : At(q, step)
    /\ Read /\ req' = [req EXCEPT ![q] = NoReq]
    /\ UNCHANGED <<contents, opened, binding, maintain, reader, asked, answered, crossed>>

-----------------------------------------------------------------------------
(* pi ends its work, or exits; the stream ends and who reads it fails; later *)
(* the event loop knows of the exit.  The bot restarts: pi's input ends with *)
(* it.                                                                       *)

WorkEnds ==
    /\ pi.up = "up" /\ pi.working
    /\ pi' = [pi EXCEPT !.working = FALSE, !.ended = TRUE]
    /\ UNCHANGED <<contents, opened, binding, maintain, req, reader, asked, answered, crossed>>

PiExits ==
    /\ pi.up = "up" /\ pi' = [pi EXCEPT !.up = "dead"]
    /\ UNCHANGED <<contents, opened, binding, maintain, req, reader, asked, answered, crossed>>

Reaped ==
    /\ pi.up = "dead" /\ pi' = [pi EXCEPT !.up = "reaped"]
    /\ UNCHANGED <<contents, opened, binding, maintain, req, reader, asked, answered, crossed>>

StreamClosed(q) ==
    /\ q \in UnderWay /\ (pi.up \in {"dead", "reaped"} \/ ~req[q].live)
    /\ req' = [req EXCEPT ![q] = NoReq]
    /\ reader' = IF reader = q THEN None ELSE reader
    /\ UNCHANGED <<pi, contents, opened, binding, maintain, asked, answered, crossed>>

BotRestarts ==
    /\ pi' = [up |-> "none", session |-> None, working |-> FALSE, ended |-> FALSE]
    /\ req' = [q \in Requests |-> NoReq] /\ reader' = None /\ maintain' = FALSE
    /\ UNCHANGED <<contents, opened, binding, asked, answered, crossed>>

Next ==
    \/ EnterBackendMode \/ ExitBackendMode
    \/ \E q \in Requests :
          \/ Refuse(q) \/ Begin(q)
          \/ State(q) \/ SwitchState(q) \/ Switch(q) \/ Switched(q) \/ PrePrompt(q)
          \/ ForkState(q) \/ ForkMessages(q) \/ Fork(q)
          \/ PromptAccepted(q) \/ ReadUntilEvent(q) \/ AgentEnd(q) \/ Answer(q)
          \/ CommandFails(q) \/ StreamClosed(q)
    \/ WorkEnds \/ PiExits \/ Reaped \/ BotRestarts

Spec == Init /\ [][Next]_vars

-----------------------------------------------------------------------------

\* Across forks, exits of pi, restarts of the bot and changes that overlap, the
\* session the binding names holds every change that was answered, and a query only
\* as its first entry, from when it was empty.  (A query that crosses another
\* request may lead the binding astray for good.)  See send_change,
\* fork_query_from_stable_checkpoint and ensure_backend_session.
CanonicalLine ==
    ~crossed =>
       /\ \A q \in answered : Kind[q] = "change" =>
             binding # None /\ q \in ToSet(contents[binding])
       /\ binding # None =>
             \A i \in DOMAIN contents[binding] :
                Kind[contents[binding][i]] = "query" => i = 1

\* A query leaves no trace in the session the binding names.
QueriesLeaveLine ==
    binding # None => \A q \in ToSet(contents[binding]) : Kind[q] = "change"
=============================================================================
