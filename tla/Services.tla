------------------------------ MODULE Services ------------------------------
(***************************************************************************)
(* Six parts that share no state with each other: the memory entries       *)
(* table, the backend bridge, the session bundles of the console, notes    *)
(* and soul files, the settings, and a thread's computer.  A behaviour is  *)
(* one of one part; the variables of the others stay None.                 *)
(***************************************************************************)
EXTENDS Integers, Sequences, FiniteSets

CONSTANTS None,
    Parts,                                        \* the parts to look at
    Entries, ConversationOf, Contents, Dimensions, MaxBatch, MaxTime, \* LtmStore
    Requests, Kind, Source, PiSessions,                             \* BackendBridge
    Sessions, Prompts, DefaultPrompt, Packages, Tools, Calls,       \* ConfigPlane
    Entities, Parses, Lines, Blank, Texts, Today, Files, Hidden,    \* Notes
    Widths, MinWidth, DefaultWidth, Sizes, Gateways, Dirs, DefaultDirs, \* Settings
    Runs, Shells, Skills, Catalog, Backend, Visible                 \* Computer

VARIABLES part,
    rows, now, edits,
    pi, contents, opened, binding, maintain, req, reader, asked, answered, crossed,
    upc, session, agent, prompts, packages, catalog, enabled, tools,
    loader, targets, call, created,
    note, draft, soul, pending, intent, owed, overwritten, torn,
    conf, file, force, waiting, taken, ups,
    workspace, mirrored, loaded, views, sessions, shells, inside, kind, container, docker,
    status, at, op, abandoned, orphans

storeVars == <<rows, now, edits>>
bridgeVars == <<pi, contents, opened, binding, maintain, req, reader, asked, answered, crossed>>
consoleVars == <<upc, session, agent, prompts, packages, catalog, enabled, tools,
                 loader, targets, call, created>>
noteVars == <<note, draft, soul, pending, intent, owed, overwritten, torn>>
settingVars == <<conf, file, force, waiting, taken, ups>>
computerVars == <<workspace, mirrored, loaded, views, sessions, shells, inside, kind,
                  container, docker, status, at, op, abandoned, orphans>>
vars == <<part, storeVars, bridgeVars, consoleVars, noteVars, settingVars, computerVars>>

Store == INSTANCE LtmStore

Bridge == INSTANCE BackendBridge WITH Sessions <- PiSessions

Console == INSTANCE ConfigPlane WITH up <- upc

Note == INSTANCE Notes

Setting == INSTANCE Settings WITH up <- ups

Box == INSTANCE Computer WITH Sessions <- Shells

\* What the parts' constants are: a request is a change or a query, the least
\* render width is positive, a run's policy names a backend, the catalog's skills
\* are skills, and None is no value of anything.
ASSUME ServicesAssumption ==
    /\ Kind \in [Requests -> {"change", "query"}] /\ None \notin PiSessions
    /\ Widths \cup Sizes \cup {DefaultWidth} \subseteq Int /\ MinWidth \in Nat \ {0}
    /\ DefaultPrompt \in Prompts
    /\ None \notin Sessions \cup {"parses", "broken"} \cup Console!References
    /\ \A S \in SUBSET Sessions : S # None
    /\ None \notin [readonly : Texts \cup {None}, editable : Seq(Lines)]
    /\ Backend \in [Runs -> {"host", "docker", "remote"}]
    /\ Visible \in [Runs -> SUBSET Skills] /\ Catalog \subseteq Skills
    /\ None \notin Shells \cup {"host", "docker", "remote"}

NoStore == rows = None /\ now = None /\ edits = None
NoBridge ==
    /\ pi = None /\ contents = None /\ opened = None /\ binding = None
    /\ maintain = None /\ req = None /\ reader = None /\ asked = None
    /\ answered = None /\ crossed = None
NoConsole ==
    /\ upc = None /\ session = None /\ agent = None /\ prompts = None
    /\ packages = None /\ catalog = None /\ enabled = None /\ tools = None
    /\ loader = None /\ targets = None /\ call = None /\ created = None
NoNote ==
    /\ note = None /\ draft = None /\ soul = None /\ pending = None
    /\ intent = None /\ owed = None /\ overwritten = None /\ torn = None
NoSetting ==
    /\ conf = None /\ file = None /\ force = None /\ waiting = None
    /\ taken = None /\ ups = None
NoBox ==
    /\ workspace = None /\ mirrored = None /\ loaded = None /\ views = None
    /\ sessions = None /\ shells = None /\ inside = None /\ kind = None
    /\ container = None /\ docker = None /\ status = None /\ at = None /\ op = None
    /\ abandoned = None /\ orphans = None

Init ==
    /\ part \in Parts
    /\ IF part = "store" THEN Store!Init ELSE NoStore
    /\ IF part = "bridge" THEN Bridge!Init ELSE NoBridge
    /\ IF part = "console" THEN Console!Init ELSE NoConsole
    /\ IF part = "note" THEN Note!Init ELSE NoNote
    /\ IF part = "setting" THEN Setting!Init ELSE NoSetting
    /\ IF part = "computer" THEN Box!Init ELSE NoBox

StoreNext ==
    /\ part = "store" /\ Store!Next
    /\ UNCHANGED <<part, bridgeVars, consoleVars, noteVars, settingVars, computerVars>>
BridgeNext ==
    /\ part = "bridge" /\ Bridge!Next
    /\ UNCHANGED <<part, storeVars, consoleVars, noteVars, settingVars, computerVars>>
ConsoleNext ==
    /\ part = "console" /\ Console!Next
    /\ UNCHANGED <<part, storeVars, bridgeVars, noteVars, settingVars, computerVars>>
NoteNext ==
    /\ part = "note" /\ Note!Next
    /\ UNCHANGED <<part, storeVars, bridgeVars, consoleVars, settingVars, computerVars>>
SettingNext ==
    /\ part = "setting" /\ Setting!Next
    /\ UNCHANGED <<part, storeVars, bridgeVars, consoleVars, noteVars, computerVars>>
ComputerNext ==
    /\ part = "computer" /\ Box!Next
    /\ UNCHANGED <<part, storeVars, bridgeVars, consoleVars, noteVars, settingVars>>

Next ==
    \/ StoreNext \/ BridgeNext \/ ConsoleNext \/ NoteNext \/ SettingNext
    \/ ComputerNext

Spec == Init /\ [][Next]_vars

-----------------------------------------------------------------------------
(* The properties, each of the part whose module states it.                 *)

\* What the operator made of an entry is replaced only by a window that came later
\* and that the platform does not stamp older than the edit (_merge_entry_record
\* against update_entry).
EditsStand == part = "store" => Store!EditsStand

\* As long as no query crosses another request, the session the binding names
\* holds every change that was answered, and no query but one from when it was
\* empty (backend/session.py).
CanonicalLine == part = "bridge" => Bridge!CanonicalLine

\* "query ... does not write back to the main backend session"
\* (docs/16-front-back-agents-and-self-evolution.md): not so, a query is prompted
\* in that session as long as it is empty.
QueriesLeaveLine == part = "bridge" => Bridge!QueriesLeaveLine

\* A session whose creation was reported has its agent among the model targets
\* (create_session of the console).
CreatedHasTarget == part = "console" => Console!CreatedHasTarget

\* No call makes a session unusable that its files allow (the write-back of
\* update_session and update_session_agent).
LoadableStays == [][part = "console" => Console!KeepsLoadable]_vars

\* What the operator saved in a note and what the bot appended to it is there,
\* but for a process that died writing and lines that a save of the console
\* replaced without having shown them (append_editable_text, save_record).
NotesKept == part = "note" => Note!KeepsNotes

\* What the console shows is in force, or it said that a restart is needed, or a
\* reload took it over from an edited file (upsert_render_config and the other
\* settings).
ShownIsInForce == part = "setting" => Setting!ShownIsInForce

\* Tables and reality agree while runs and operators interleave: every running
\* container and every session's process is known to the runtime, on its way in or
\* out, or was left by a docker rm that failed or by a restart
\* (DockerSandboxBackend, ComputerRuntime).
NothingForgotten == part = "computer" => Box!NothingForgotten

\* An operator who does not force never takes the workspace from a run that was
\* running when the request listed the active runs (workspace_ops.py).
SparesRunsItSaw == [][part = "computer" => Box!SparesSeen]_vars
=============================================================================
