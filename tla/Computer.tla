------------------------------ MODULE Computer ------------------------------
(***************************************************************************)
(* One thread's computer: the workspace directory, its skills, shell       *)
(* sessions and docker container (computer/runtime.py, backends.py,        *)
(* workspace.py), used by runs and by the operator's prune and stop        *)
(* (control/workspace_ops.py).                                             *)
(*                                                                         *)
(* A step is the code between two suspensions of the event loop: a         *)
(* subprocess, a download or the run store.  File reads and writes of the  *)
(* host backend never suspend.  A call that raises before it has changed   *)
(* anything is not a step.  A container (sleep infinity) that somebody     *)
(* else removes is left out.                                               *)
(***************************************************************************)
EXTENDS Naturals, FiniteSets

CONSTANTS
    Runs,        \* runs on the thread
    Sessions,    \* shell session ids; each open takes a new one
    Skills,      \* skill names
    Catalog,     \* the skills of the catalog that can be mirrored
    Backend,     \* [Runs -> {"host", "docker", "remote"}], of the run's policy
    Visible,     \* [Runs -> SUBSET Skills], world_view.visible_skill_names
    None

VARIABLES
    workspace,   \* the thread's workspace directory exists
    mirrored,    \* skills copied into workspace/skills
    loaded,      \* _loaded_skills of the thread
    views,       \* views[r]: the skills in r's view directory
    sessions,    \* _sessions of the thread: session id -> backend kind, or None
    shells,      \* sessions whose process is alive: /bin/sh or a docker exec client
    inside,      \* sessions whose /bin/sh in the container is alive
    kind,        \* _thread_backend_state of the thread
    container,   \* DockerSandboxBackend._containers has the thread
    docker,      \* docker runs a container of the thread's name
    status,      \* what the run manager says of each run
    at,          \* at[r]: the await r is suspended in
    op,          \* the operator's request
    \* History: what the runtime knows to be out of its hands.
    abandoned,   \* the container was left running by a failed rm or by a restart
    orphans      \* shells that outlived a restart

lost == <<abandoned, orphans>>

vars == <<workspace, mirrored, loaded, views, sessions, shells, inside, kind, container,
          docker, status, at, op, lost>>

disk == <<workspace, mirrored, loaded, views>>

box == <<container, docker, inside, lost>>

Idle == [step |-> "idle", sid |-> None]
NoOp == [step |-> "idle", prune |-> FALSE, force |-> FALSE, seen |-> {}, todo |-> {},
         cur |-> None, fresh |-> {}]

Open == {s \in Sessions : sessions[s] # None}

Seen == {r \in Runs : status[r] = "running"}

Init ==
    /\ workspace = FALSE /\ mirrored = {} /\ loaded = {}
    /\ views = [r \in Runs |-> {}]
    /\ sessions = [s \in Sessions |-> None] /\ shells = {} /\ inside = {}
    /\ kind = None
    /\ container = FALSE /\ docker = FALSE
    /\ status = [r \in Runs |-> "new"]
    /\ at = [r \in Runs |-> Idle]
    /\ op = NoOp
    /\ abandoned = FALSE /\ orphans = {}

-----------------------------------------------------------------------------
(* A run's context.                                                         *)

\* ensure_skills_view: only visible skills, and each exactly when mirrored.
EnsureSkillsView(r) == Visible[r] \cap mirrored

\* refresh_world_skills_view keeps the old copy of a skill whose source is gone.
RefreshedView(r, m) == Visible[r] \cap (views[r] \cup m)

(* The fallback policy and the decision both name a backend; the world view *)
(* is built before the backend is asked, so the layout exists even when the *)
(* remote backend raises.                                                   *)
BuildWorldView(r) ==
    /\ workspace' = TRUE
    /\ views' = [views EXCEPT ![r] = EnsureSkillsView(r)]
    /\ UNCHANGED <<mirrored, loaded>>

Prepare(r) ==
    /\ status[r] = "new"
    /\ BuildWorldView(r)
    /\ IF Backend[r] = "remote"
       THEN /\ status' = [status EXCEPT ![r] = "ended"]
            /\ at' = [at EXCEPT ![r].step = "end"]
       ELSE /\ status' = [status EXCEPT ![r] = "running"]
            /\ at' = [at EXCEPT ![r].step = "staging"]
    /\ op' = [op EXCEPT !.fresh = @ \cup {r}]
    /\ UNCHANGED <<sessions, shells, kind, box>>

\* The downloads are over; a resolver that downloads makes its directory again.
StageAttachments(r) ==
    /\ at[r].step = "staging"
    /\ \E downloaded \in BOOLEAN : workspace' = (workspace \/ downloaded)
    /\ kind' = Backend[r]
    /\ at' = [at EXCEPT ![r] = Idle]
    /\ UNCHANGED <<mirrored, loaded, views, sessions, shells, box, status, op>>

Ready(r) == status[r] \in {"running", "cancelled"} /\ at[r].step = "idle"

\* read, write and edit below /workspace: writing makes missing directories.
WriteWorkspace(r) ==
    /\ Ready(r)
    /\ workspace' = TRUE
    /\ UNCHANGED <<mirrored, loaded, views, sessions, shells, kind, box, status, at, op>>

(* Any access below /skills/k mirrors k first (copytree makes the missing   *)
(* directories above it) and refreshes this run's view.                     *)
EnsureSkillReady(r, k) ==
    /\ Ready(r)
    /\ k \in Visible[r] \cap Catalog
    /\ workspace' = TRUE
    /\ mirrored' = mirrored \cup {k}
    /\ views' = [views EXCEPT ![r] = RefreshedView(r, mirrored \cup {k})]
    /\ UNCHANGED <<loaded, sessions, shells, kind, box, status, at, op>>

MarkSkillLoaded(r, k) ==
    /\ Ready(r)
    /\ k \in Visible[r] \cap Catalog
    /\ loaded' = loaded \cup {k}
    /\ UNCHANGED <<workspace, mirrored, views, sessions, shells, kind, box, status, at, op>>

-----------------------------------------------------------------------------
(* Commands and sessions.                                                   *)

\* create_subprocess on the host raises without its working directory.
HostStarts(r) == Backend[r] = "host" /\ workspace

DockerStarts(r) == Backend[r] = "docker"

\* A container in the table is used as it is; else one is started first.
AfterEnsure(r) == IF Backend[r] = "docker" /\ ~container THEN "run" ELSE "spawn"

Spawn(r, s) ==
    /\ Ready(r)
    /\ HostStarts(r) \/ DockerStarts(r)
    /\ at' = [at EXCEPT ![r] = [step |-> AfterEnsure(r), sid |-> s]]
    /\ UNCHANGED <<disk, sessions, shells, kind, box, status, op>>

ExecOnce(r) == Spawn(r, None)

OpenSession(r) ==
    \E s \in Sessions :
        /\ sessions[s] = None /\ \A q \in Runs : at[q].sid # s
        /\ s \notin shells \cup inside
        /\ Spawn(r, s)

(* docker run with the thread's container name: it fails when the name is   *)
(* taken, or for reasons of its own; it creates a missing directory to      *)
(* mount.                                                                   *)
DockerRun(r) ==
    /\ at[r].step = "run"
    /\ \/ /\ ~docker
          /\ docker' = TRUE /\ workspace' = TRUE
          /\ at' = [at EXCEPT ![r].step = "up"]
       \/ /\ at' = [at EXCEPT ![r].step = "clash"]
          /\ UNCHANGED <<docker, workspace>>
    /\ UNCHANGED <<mirrored, loaded, views, sessions, shells, inside, kind, container, status, op,
                   lost>>

EnsureContainer(r) ==
    /\ at[r].step \in {"up", "clash"}
    /\ container' = (container \/ at[r].step = "up")
    /\ at' = [at EXCEPT ![r] = IF @.step = "up" THEN [@ EXCEPT !.step = "spawn"] ELSE Idle]
    /\ UNCHANGED <<disk, sessions, shells, inside, kind, docker, status, op, lost>>

ExecOnceEnd(r) ==
    /\ at[r].step = "spawn" /\ at[r].sid = None
    /\ kind' = Backend[r]
    /\ at' = [at EXCEPT ![r] = Idle]
    /\ UNCHANGED <<disk, sessions, shells, box, status, op>>

HostShell(r) == IF Backend[r] = "host" THEN {at[r].sid} ELSE {}

\* A docker exec into a container that is gone leaves a session without a shell.
DockerShell(r) == IF Backend[r] = "docker" /\ docker THEN {at[r].sid} ELSE {}

OpenSessionEnd(r) ==
    /\ at[r].step = "spawn" /\ at[r].sid # None
    /\ sessions' = [sessions EXCEPT ![at[r].sid] = Backend[r]]
    /\ shells' = shells \cup HostShell(r) \cup DockerShell(r)
    /\ inside' = inside \cup DockerShell(r)
    /\ kind' = Backend[r]
    /\ at' = [at EXCEPT ![r] = Idle]
    /\ UNCHANGED <<disk, container, docker, lost, status, op>>

\* What is written may make the shell exit; reading its output changes nothing.
WriteSession(r, s) ==
    /\ Ready(r) /\ s \in Open \cap shells
    /\ shells' = shells \ {s} /\ inside' = inside \ {s}
    /\ UNCHANGED <<disk, sessions, kind, container, docker, lost, status, at, op>>

CloseSession(r, s) ==
    /\ Ready(r) /\ s \in Open
    /\ at' = [at EXCEPT ![r] = [step |-> "close", sid |-> s]]
    /\ UNCHANGED <<disk, sessions, shells, kind, box, status, op>>

\* The process ended when its input was closed, or was killed after two seconds: a
\* shell in the container whose client was killed may live on.
Closed(s) ==
    /\ sessions' = [sessions EXCEPT ![s] = None]
    /\ shells' = shells \ {s}
    /\ inside' \in {inside, inside \ {s}}
    /\ UNCHANGED <<container, docker, lost>>

CloseSessionEnd(r) ==
    /\ at[r].step = "close"
    /\ Closed(at[r].sid)
    /\ at' = [at EXCEPT ![r] = Idle]
    /\ UNCHANGED <<disk, kind, status, op>>

Finish(r) ==
    /\ Ready(r)
    /\ status' = [status EXCEPT ![r] = "ended"]
    /\ at' = [at EXCEPT ![r].step = "end"]
    /\ UNCHANGED <<disk, sessions, shells, kind, box, op>>

-----------------------------------------------------------------------------
(* The operator: prune_workspace and stop_workspace_sandbox of the control  *)
(* plane.  seen is what list_active returned; todo the copied session ids.  *)

ListActive(prune, force) ==
    /\ op.step = "idle"
    /\ op' = [step |-> "listed", prune |-> prune, force |-> force, seen |-> Seen,
              todo |-> {}, cur |-> None, fresh |-> {}]
    /\ UNCHANGED <<disk, sessions, shells, kind, box, status, at>>

\* FAULT: only sessions count as use.
InUseBySession == Open # {}

InUse == op.seen # {} \/ Open # {}

OpCheck ==
    /\ op.step = "listed"
    /\ op' = IF op.force THEN [op EXCEPT !.step = "close", !.todo = Open]
             ELSE IF InUse THEN NoOp
             ELSE [op EXCEPT !.step = "runtime"]
    /\ UNCHANGED <<disk, sessions, shells, kind, box, status, at>>

(* close_all_sessions walks a copy of the ids: one that somebody closed     *)
(* meanwhile raises KeyError and ends the whole request.                    *)
CloseNext(s) ==
    /\ op.step \in {"close", "runtime"} /\ op.cur = None
    /\ s \in op.todo
    /\ op' = IF sessions[s] = None THEN NoOp
             ELSE [op EXCEPT !.todo = @ \ {s}, !.cur = s]
    /\ UNCHANGED <<disk, sessions, shells, kind, box, status, at>>

CloseNextEnd ==
    /\ op.cur # None
    /\ Closed(op.cur)
    /\ op' = [op EXCEPT !.cur = None]
    /\ UNCHANGED <<disk, kind, status, at>>

AllClosed == op.todo = {} /\ op.cur = None

(* With force the runs that were seen are marked cancelled, whatever they   *)
(* are by then; their tasks go on.                                          *)
CancelSeen(r) ==
    /\ op.step = "close" /\ AllClosed
    /\ r \in op.seen
    /\ status' = [status EXCEPT ![r] = "cancelled"]
    /\ op' = [op EXCEPT !.seen = @ \ {r}]
    /\ UNCHANGED <<disk, sessions, shells, kind, box, at>>

\* prune_workspace of the runtime closes all sessions once more.
EnterRuntime ==
    /\ op.step = "close" /\ AllClosed /\ op.seen = {}
    /\ op' = [op EXCEPT !.step = "runtime", !.todo = IF op.prune THEN Open ELSE {}]
    /\ UNCHANGED <<disk, sessions, shells, kind, box, status, at>>

\* _backend_for_thread: a session's backend, else the last used one, else host.
BackendForThread ==
    IF Open # {} THEN {sessions[s] : s \in Open}
    ELSE {IF kind = None THEN "host" ELSE kind}

\* FAULT: the container is forgotten after docker has removed it.
StopSandboxLate ==
    /\ op.step = "runtime" /\ AllClosed
    /\ \E b \in BackendForThread :
           op' = [op EXCEPT !.step = IF b = "docker" /\ container THEN "rm" ELSE "stopped"]
    /\ UNCHANGED <<disk, sessions, shells, kind, box, status, at>>

StopSandbox ==
    /\ op.step = "runtime" /\ AllClosed
    /\ \E b \in BackendForThread :
           IF b = "docker" /\ container
           THEN container' = FALSE /\ op' = [op EXCEPT !.step = "rm"]
           ELSE op' = [op EXCEPT !.step = "stopped"] /\ UNCHANGED container
    /\ UNCHANGED <<disk, sessions, shells, inside, kind, docker, status, at, lost>>

\* docker rm -f: the shells inside end with the container.  Nobody looks at its
\* exit code: when it fails the container runs on, and the table has no entry.
DockerRm ==
    /\ op.step = "rm"
    /\ \/ /\ docker' = FALSE /\ inside' = {}
          /\ shells' = {s \in shells : sessions[s] # "docker"}
          /\ UNCHANGED abandoned
       \/ abandoned' = TRUE /\ UNCHANGED <<docker, inside, shells>>
    /\ op' = [op EXCEPT !.step = "stopped"]
    /\ UNCHANGED <<disk, sessions, kind, container, status, at, orphans>>

Stopped ==
    /\ op.step = "stopped" /\ ~op.prune
    /\ kind' = IF Open = {} THEN "host" ELSE kind
    /\ op' = NoOp
    /\ UNCHANGED <<disk, sessions, shells, box, status, at>>

\* workspace/skills goes with the workspace; the views lie beside it and stay.
Pruned ==
    /\ op.step = "stopped" /\ op.prune
    /\ loaded' = {} /\ kind' = None
    /\ workspace' = FALSE /\ mirrored' = {}
    /\ op' = NoOp
    /\ UNCHANGED <<views, sessions, shells, box, status, at>>

-----------------------------------------------------------------------------
(* The process of the bot ends and starts again.  Its tables are empty then; *)
(* files, docker's container and any process that does not end with its      *)
(* input are as they were, and a docker command under way may still do its   *)
(* work.                                                                     *)
Restart ==
    /\ \/ UNCHANGED <<docker, inside>>
       \/ (\E r \in Runs : at[r].step = "run") /\ docker' = TRUE /\ UNCHANGED inside
       \/ op.step = "rm" /\ docker' = FALSE /\ inside' = {}
    /\ container' = FALSE /\ abandoned' = docker'
    /\ \E alive \in SUBSET shells : shells' = alive /\ orphans' = alive
    /\ sessions' = [s \in Sessions |-> None] /\ kind' = None /\ loaded' = {}
    /\ status' = [r \in Runs |-> IF status[r] = "new" THEN "new" ELSE "ended"]
    /\ at' = [r \in Runs |-> [Idle EXCEPT !.step = IF status[r] = "new" THEN "idle" ELSE "end"]]
    /\ op' = NoOp
    /\ UNCHANGED <<workspace, mirrored, views>>

Next ==
    \/ \E r \in Runs :
          \/ Prepare(r) \/ StageAttachments(r) \/ WriteWorkspace(r)
          \/ ExecOnce(r) \/ OpenSession(r) \/ DockerRun(r) \/ EnsureContainer(r)
          \/ ExecOnceEnd(r) \/ OpenSessionEnd(r) \/ CloseSessionEnd(r) \/ Finish(r)
          \/ \E k \in Skills : EnsureSkillReady(r, k) \/ MarkSkillLoaded(r, k)
          \/ \E s \in Sessions : WriteSession(r, s) \/ CloseSession(r, s)
          \/ CancelSeen(r)
    \/ \E prune, force \in BOOLEAN : ListActive(prune, force)
    \/ \E s \in Sessions : CloseNext(s)
    \/ OpCheck \/ CloseNextEnd \/ EnterRuntime \/ StopSandbox \/ DockerRm
    \/ Stopped \/ Pruned \/ Restart

Spec == Init /\ [][Next]_vars

-----------------------------------------------------------------------------
(* Properties.                                                              *)

Steps == {"idle", "staging", "run", "up", "clash", "spawn", "close", "end"}

OpSteps == {"idle", "listed", "close", "runtime", "rm", "stopped"}

\* Every variable keeps its type.
TypeOK ==
    /\ {workspace, container, docker, abandoned} \subseteq BOOLEAN
    /\ mirrored \subseteq Skills /\ loaded \subseteq Skills
    /\ views \in [Runs -> SUBSET Skills]
    /\ sessions \in [Sessions -> {None, "host", "docker", "remote"}]
    /\ {shells, inside, orphans} \subseteq SUBSET Sessions
    /\ kind \in {None, "host", "docker", "remote"}
    /\ status \in [Runs -> {"new", "running", "cancelled", "ended"}]
    /\ at \in [Runs -> [step : Steps, sid : Sessions \cup {None}]]
    /\ op \in [step : OpSteps, prune : BOOLEAN, force : BOOLEAN, seen : SUBSET Runs,
               todo : SUBSET Sessions, cur : Sessions \cup {None}, fresh : SUBSET Runs]

(* The container table and docker agree whatever runs and operators do at   *)
(* the same time: a container the backend hands out runs, and one that runs *)
(* is in the table, or its start or removal is on its way, or a failed rm   *)
(* or a restart left it, and then it is not handed out again.               *)
ContainerKnown ==
    /\ container => docker /\ ~abandoned
    /\ docker => \/ container
                 \/ \E r \in Runs : at[r].step = "up"
                 \/ op.step = "rm"
                 \/ abandoned

(* No process outlives the runtime's knowledge of it, but for a restart: a  *)
(* session opened while its workspace is pruned can still be listed and     *)
(* closed.  A shell in the container ends with the container at the latest. *)
ShellsAreKnown == shells \subseteq Open \cup orphans /\ (inside # {} => docker)

\* Tables and reality agree while runs and operators interleave: every running
\* container and every session's process is known to the runtime, on its way in or
\* out, or was left by a docker rm that failed or by a restart
\* (DockerSandboxBackend, ComputerRuntime).
NothingForgotten == ContainerKnown /\ ShellsAreKnown

\* An operator who does not force never takes the workspace from a run that
\* was running when the request listed the active runs; only runs that
\* started since can lose theirs.
SparesSeen == (workspace /\ ~workspace' /\ ~op.force) => Seen \subseteq op.fresh
SparesRunsItSaw == [][SparesSeen]_vars
=============================================================================
