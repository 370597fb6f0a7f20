---------------------------- MODULE ConfigPlane ----------------------------
(***************************************************************************)
(* Session bundles on disk and what the running bot knows of them          *)
(* (control/config_control_plane.py, extension_refresh.py, the loaders and *)
(* the skill catalog).  A session is a directory with session.yaml and     *)
(* agent.yaml; agent.yaml refers to a prompt, skills and tools, and a      *)
(* bundle loads only if the loader's snapshot of the catalogs has them.    *)
(*                                                                         *)
(* A call of the console or of a tool runs without interruption up to its  *)
(* awaits: the reconciliation of plugins and the reload of the model       *)
(* registry.  Sub-agents and model targets are references of the same kind *)
(* and are left out; so is the text of the files, except whether           *)
(* session.yaml parses.                                                    *)
(***************************************************************************)
EXTENDS Naturals, FiniteSets

CONSTANTS
    Sessions,
    Prompts,         \* prompt refs
    DefaultPrompt,   \* bootstrap_defaults.prompt_ref
    Packages,        \* skill packages: [name, valid]
    Tools,           \* tools of plugins; builtin tools are always there
    Calls,           \* calls in flight at a time
    None

VARIABLES
    up,         \* the bot runs
    session,    \* session[s]: session.yaml: None, "parses" or "broken"
    agent,      \* agent[s]: agent.yaml: None or its references
    prompts,    \* prompt files
    packages,   \* skill packages on disk
    catalog,    \* SkillCatalog
    enabled,    \* tools of the plugins enabled on disk
    tools,      \* plugin tools registered with the broker
    loader,     \* SessionBundleLoader: catalog snapshot and cached list
    targets,    \* sessions whose agent is a model target
    call,       \* call[c]: a call waiting for plugins or the registry
    created     \* sessions create_session returned

files == <<session, agent, prompts, packages>>
vars == <<up, session, agent, prompts, packages, catalog, enabled, tools,
          loader, targets, call, created>>

Idle == [op |-> "idle", session |-> None]
References == [prompt : Prompts, skills : SUBSET {p.name : p \in Packages}, tools : SUBSET Tools]
SeedAgent == [prompt |-> DefaultPrompt, skills |-> {}, tools |-> {}]

-----------------------------------------------------------------------------
(* Packages, catalog and loader.                                            *)

\* A package with a bad SKILL.md is skipped.
Discover(disk) == {p \in disk : p.valid}

\* Whichever scope's package of a name wins, the name is served.
Names(found) == {p.name : p \in found}

\* The default prompt counts as known without a file.
PromptRefs(disk) == disk \cup {DefaultPrompt}

Fresh(disk, found, registered) ==
    [prompts |-> PromptRefs(disk), skills |-> Names(found), tools |-> registered, cache |-> None]

KnownRefs(l, a) == a.prompt \in l.prompts /\ a.skills \subseteq l.skills /\ a.tools \subseteq l.tools

\* load_by_session_id
Loads(l, sess, ag, s) == ag[s] # None /\ sess[s] = "parses" /\ KnownRefs(l, ag[s])

Listed(sess, ag) == {s \in Sessions : sess[s] # None /\ ag[s] # None}

\* list_bundles: one bundle that does not load fails the whole list.
Lists(l, sess, ag) == l.cache # None \/ \A s \in Listed(sess, ag) : Loads(l, sess, ag, s)
Bundles(l, sess, ag) == IF l.cache # None THEN l.cache ELSE Listed(sess, ag)

Loadable(s) == Loads(loader, session, agent, s)

\* _refresh_session_agent_targets up to its await, with loader l.
RefreshTargets(l, sess, ag, c, op, s) ==
    IF Lists(l, sess, ag)
    THEN /\ targets' = Bundles(l, sess, ag)
         /\ loader' = [l EXCEPT !.cache = Bundles(l, sess, ag)]
         /\ call' = [call EXCEPT ![c] = [op |-> op, session |-> s]]
    ELSE /\ loader' = l /\ call' = [call EXCEPT ![c] = Idle]
         /\ UNCHANGED targets

\* The process is gone, with all it had in memory.
Down ==
    /\ up' = FALSE /\ call' = [c \in Calls |-> Idle]
    /\ catalog' = {} /\ tools' = {} /\ targets' = {} /\ loader' = Fresh({}, {}, {})

Init ==
    /\ up = TRUE
    /\ session = [s \in Sessions |-> None] /\ agent = [s \in Sessions |-> None]
    /\ prompts = {} /\ packages = {} /\ catalog = {}
    /\ enabled = {} /\ tools = {}
    /\ loader = Fresh({}, {}, {}) /\ targets = {}
    /\ call = [c \in Calls |-> Idle] /\ created = {}

Free(c) == up /\ call[c] = Idle

-----------------------------------------------------------------------------
(* Sessions.                                                                *)

\* FAULT: the list is taken from the loader as it is.
CreateSessionStale(c, s) ==
    /\ Free(c) /\ session[s] = None /\ agent[s] = None
    /\ prompts' = prompts \cup {DefaultPrompt}
    /\ session' = [session EXCEPT ![s] = "parses"]
    /\ agent' = [agent EXCEPT ![s] = SeedAgent]
    /\ RefreshTargets(loader, session', agent', c, "create", s)
    /\ UNCHANGED <<up, packages, catalog, enabled, tools, created>>

\* Both files are written; they are removed again if any bundle fails to load.
CreateSession(c, s) ==
    /\ Free(c) /\ session[s] = None /\ agent[s] = None
    /\ prompts' = prompts \cup {DefaultPrompt}
    /\ LET l == Fresh(prompts', catalog, tools)
           sess == [session EXCEPT ![s] = "parses"]
           ag == [agent EXCEPT ![s] = SeedAgent]
       IN /\ RefreshTargets(l, sess, ag, c, "create", s)
          /\ IF Lists(l, sess, ag) THEN session' = sess /\ agent' = ag
             ELSE UNCHANGED <<session, agent>>
    /\ UNCHANGED <<up, packages, catalog, enabled, tools, created>>

\* The registry has been reloaded, or refused its files.
CreateSessionEnds(c, ok) ==
    /\ up /\ call[c].op = "create" /\ call' = [call EXCEPT ![c] = Idle]
    /\ LET s == call[c].session
       IN IF ok THEN created' = created \cup {s} /\ UNCHANGED <<session, agent>>
          ELSE /\ session' = [session EXCEPT ![s] = None]
               /\ agent' = [agent EXCEPT ![s] = None] /\ UNCHANGED created
    /\ UNCHANGED <<up, prompts, packages, catalog, enabled, tools, loader, targets>>

\* The process dies between the two files.
CreateSessionDies(s) ==
    /\ up /\ session[s] = None /\ agent[s] = None
    /\ session' = [session EXCEPT ![s] = "parses"]
    /\ prompts' = prompts \cup {DefaultPrompt}
    /\ Down
    /\ UNCHANGED <<agent, packages, enabled, created>>

\* The new text is written, and the previous text again if it does not load.
UpdateSession(s, text) ==
    /\ up /\ Loadable(s)
    /\ loader' = Fresh(prompts, catalog, tools)
    /\ LET sess == [session EXCEPT ![s] = text]
       IN session' = IF Loads(loader', sess, agent, s) THEN sess ELSE session
    /\ UNCHANGED <<up, agent, prompts, packages, catalog, enabled, tools, targets, call, created>>

\* FAULT: the text that does not load stays.
UpdateSessionAgentKeeps(s, a) ==
    /\ up /\ Loadable(s)
    /\ loader' = Fresh(prompts, catalog, tools)
    /\ agent' = [agent EXCEPT ![s] = a]
    /\ UNCHANGED <<up, session, prompts, packages, catalog, enabled, tools, targets, call, created>>

UpdateSessionAgent(s, a) ==
    /\ up /\ Loadable(s)
    /\ loader' = Fresh(prompts, catalog, tools)
    /\ LET ag == [agent EXCEPT ![s] = a]
       IN agent' = IF Loads(loader', session, ag, s) THEN ag ELSE agent
    /\ UNCHANGED <<up, session, prompts, packages, catalog, enabled, tools, targets, call, created>>

\* list_sessions and find_session_agent fill the cache; it lasts five seconds.
ListSessions ==
    /\ up /\ loader.cache = None /\ Lists(loader, session, agent)
    /\ loader' = [loader EXCEPT !.cache = Listed(session, agent)]
    /\ UNCHANGED <<up, files, catalog, enabled, tools, targets, call, created>>

CacheExpires ==
    /\ up /\ loader.cache # None /\ loader' = [loader EXCEPT !.cache = None]
    /\ UNCHANGED <<up, files, catalog, enabled, tools, targets, call, created>>

-----------------------------------------------------------------------------
(* Skills.                                                                  *)

\* The session's visible skills become all that the catalog now serves.
RefreshSkills(c, s) ==
    /\ Free(c) /\ session[s] # None /\ agent[s] # None
    /\ catalog' = Discover(packages)
    /\ agent' = [agent EXCEPT ![s].skills = Names(catalog')]
    /\ RefreshTargets(Fresh(prompts, catalog', tools), session, agent', c, "registry", s)
    /\ UNCHANGED <<up, session, prompts, packages, enabled, tools, created>>

Installed(p) == {q \in packages : q.name # p.name} \cup {p}

\* The sessions to rewrite are listed with the loader of before the change.
InstallSkill(c, p) ==
    /\ Free(c) /\ p.valid
    /\ packages' = Installed(p)
    /\ catalog' = Discover(packages')
    /\ IF Lists(loader, session, agent)
       THEN /\ agent' = [s \in Sessions |->
                  IF s \in Bundles(loader, session, agent) /\ agent[s] # None
                  THEN [agent[s] EXCEPT !.skills = Names(catalog')] ELSE agent[s]]
            /\ RefreshTargets(Fresh(prompts, catalog', tools), session, agent', c, "registry", None)
       ELSE UNCHANGED <<agent, loader, targets, call>>
    /\ UNCHANGED <<up, session, prompts, enabled, tools, created>>

\* A package is removed or comes by hand, on the host.
EditPackages(p) ==
    /\ packages' = IF p \in packages THEN packages \ {p} ELSE Installed(p)
    /\ UNCHANGED <<up, session, agent, prompts, catalog, enabled, tools, loader, targets, call, created>>

-----------------------------------------------------------------------------
(* reload_runtime_configuration, by itself and after a prompt is written or *)
(* deleted.  The loader is made anew before the plugins are reconciled.     *)

ReloadWith(c, refs) ==
    /\ prompts' = refs
    /\ catalog' = Discover(packages)
    /\ loader' = Fresh(refs, catalog', tools)
    /\ call' = [call EXCEPT ![c] = [op |-> "plugins", session |-> None]]
    /\ UNCHANGED <<up, session, agent, packages, enabled, tools, targets, created>>

ReloadRuntimeConfiguration(c) == Free(c) /\ ReloadWith(c, prompts)
UpsertPrompt(c, p) == Free(c) /\ ReloadWith(c, prompts \cup {p})
DeletePrompt(c, p) == Free(c) /\ p \in prompts /\ ReloadWith(c, prompts \ {p})

\* The targets are listed by the loader there is when the plugins are done.
PluginsReconciled(c) ==
    /\ up /\ call[c].op = "plugins" /\ tools' = enabled
    /\ RefreshTargets(loader, session, agent, c, "registry", None)
    /\ UNCHANGED <<up, files, catalog, enabled, created>>

RegistryReloaded(c) ==
    /\ up /\ call[c].op = "registry" /\ call' = [call EXCEPT ![c] = Idle]
    /\ UNCHANGED <<up, files, catalog, enabled, tools, loader, targets, created>>

\* A plugin is enabled or disabled in the console: its tools come or go at
\* once, the loader's snapshot stays.
TogglePlugin(t) ==
    /\ up /\ enabled' = IF t \in enabled THEN enabled \ {t} ELSE enabled \cup {t}
    /\ tools' = enabled'
    /\ UNCHANGED <<up, files, catalog, loader, targets, call, created>>

-----------------------------------------------------------------------------

Stop == up /\ Down /\ UNCHANGED <<files, enabled, created>>

\* build_runtime_components: the loader knows the builtin tools only, and a
\* bundle that does not load ends the start.
Boot ==
    /\ ~up
    /\ LET found == Discover(packages)
           l == Fresh(prompts, found, {})
       IN /\ Lists(l, session, agent)
          /\ up' = TRUE /\ targets' = Listed(session, agent)
          /\ catalog' = found /\ loader' = [l EXCEPT !.cache = Listed(session, agent)]
    /\ UNCHANGED <<files, enabled, tools, call, created>>

\* RuntimeApp.start reconciles the plugins.
StartPlugins ==
    /\ up /\ tools # enabled /\ tools' = enabled
    /\ UNCHANGED <<up, files, catalog, enabled, loader, targets, call, created>>

Next ==
    \/ \E c \in Calls :
         \/ \E s \in Sessions : CreateSession(c, s) \/ RefreshSkills(c, s)
         \/ \E ok \in BOOLEAN : CreateSessionEnds(c, ok)
         \/ \E p \in Packages : InstallSkill(c, p)
         \/ \E p \in Prompts : UpsertPrompt(c, p) \/ DeletePrompt(c, p)
         \/ ReloadRuntimeConfiguration(c) \/ PluginsReconciled(c) \/ RegistryReloaded(c)
    \/ \E s \in Sessions :
         \/ CreateSessionDies(s)
         \/ \E text \in {"parses", "broken"} : UpdateSession(s, text)
         \/ \E a \in References : UpdateSessionAgent(s, a)
    \/ \E p \in Packages : EditPackages(p)
    \/ \E t \in Tools : TogglePlugin(t)
    \/ ListSessions \/ CacheExpires \/ Stop \/ Boot \/ StartPlugins

Spec == Init /\ [][Next]_vars

-----------------------------------------------------------------------------

\* Whatever other creations, reloads and installations are under way, and
\* however old the cached list is, a session whose creation was reported has
\* its agent among the model targets while the bot runs (create_session,
\* _refresh_session_agent_targets, list_bundles).
CreatedHasTarget == up => created \subseteq targets

\* No call makes a session unusable by what it writes: a session that loaded
\* and no longer does had references the bot has lost meanwhile - a prompt
\* file, a skill of the catalog, a tool of the broker (the write-back of
\* update_session and update_session_agent,
\* _rewrite_all_session_agent_visible_skills).
KeepsLoadable ==
    \A s \in Sessions : Loadable(s) /\ ~Loadable(s)' =>
        \/ ~up'
        \/ agent'[s] = None
        \/ ~KnownRefs(Fresh(prompts', catalog', tools'), agent[s])
LoadableStays == [][KeepsLoadable]_vars
=============================================================================
