----------------------------- MODULE PluginHost -----------------------------
(***************************************************************************)
(* The plugin system: PluginReconciler decides from installed packages,     *)
(* operator specs and what is loaded; PluginRuntimeHost loads and unloads.  *)
(* Nothing serialises the calls: app start, the control plane's PUT,        *)
(* DELETE and POST, and a reload of the configuration each run the          *)
(* reconciler on the same loop and suspend in a plugin's setup() and        *)
(* teardown().  In between a call keeps the loop (the variable loop).       *)
(*                                                                          *)
(* Every load creates an instance of its own, named <<call, plugin>>: a     *)
(* call loads a plugin at most once.  A plugin's hooks stand for one, and   *)
(* so do its tools and its model targets.  Plugins own no scheduled tasks   *)
(* (PluginScheduler.create_handler_task raises), so unregister_by_owner     *)
(* finds none, and unload_plugin never raises.                              *)
(***************************************************************************)
EXTENDS Naturals, Sequences, FiniteSets, Places

CONSTANTS
    Order,      \* the plugin ids in the order of sorted()
    Calls,      \* calls of the reconciler or of teardown_all
    Installed, Enabled,  \* the plugins with a package and with a spec at first
    Clumsy,     \* plugins whose slots, hooks() or tools() may be refused
    MaxUpsets,  \* bound on restarts and on files changed by hand, together
    None

Plugins == {Order[i] : i \in DOMAIN Order}
Instances == Calls \X Plugins

ASSUME PluginAssumption ==
    /\ Order \in Seq(Plugins) /\ Clumsy \subseteq Plugins
    /\ \A i, j \in DOMAIN Order : Order[i] = Order[j] => i = j
    /\ MaxUpsets \in Nat
    /\ None \notin Instances \cup Calls \cup Plugins

VARIABLES
    pkg,        \* extensions/plugins/<id>/plugin.yaml
    spec,       \* runtime_config/plugins/<id>/plugin.yaml
    status,     \* runtime_data/plugins/<id>/status.json, its phase
    packages, packagesFresh,  \* PackageCatalog: the last scan, younger than 5 s
    specs, specsFresh,        \* SpecStore: the last load_all, younger than 5 s
    loaded,     \* PluginRuntimeHost._loaded
    hooksOf,    \* PluginRuntimeHost._plugin_hooks
    registry,   \* the instances whose hooks are in _hook_registry
    tools,      \* the instance whose handlers the broker has for plugin:<id>
    targets,    \* the plugins with model targets
    stage,      \* where a call is suspended, or "next" between two plugins
    queue,      \* the plugins a call has still to bring to a goal
    rest,       \* reconcile_all: what follows the plugins that cannot be read
    loop,       \* the call that has the event loop
    upsets,     \* restarts and files changed by hand so far
    written     \* plugins whose status this process wrote and answers for

disk == <<pkg, spec, upsets>>
caches == <<packages, packagesFresh, specs, specsFresh>>
host == <<loaded, hooksOf, registry, tools, targets>>
vars == <<disk, status, caches, host, stage, queue, rest, loop, written>>

PackageFiles == {"absent", "good", "bad"}
SpecFiles == {"absent", "off", "on", "bad"}
Phases == {"loaded", "failed", "disabled", "uninstalled"}
Goals == Phases \cup {"gone"}

TypeOK ==
    /\ pkg \in [Plugins -> PackageFiles] /\ spec \in [Plugins -> SpecFiles]
    /\ status \in [Plugins -> Phases \cup {None}]
    /\ packages \subseteq Plugins /\ specs \in [Plugins -> {"absent", "off", "on"}]
    /\ packagesFresh \in BOOLEAN /\ specsFresh \in BOOLEAN
    /\ loaded \in [Plugins -> Instances \cup {None}]
    /\ hooksOf \in [Plugins -> Instances \cup {None}]
    /\ registry \subseteq Instances
    /\ tools \in [Plugins -> Instances \cup {None}]
    /\ targets \subseteq Plugins
    /\ stage \in [Calls -> {"new", "next", "teardown", "setup", "rollback", "done"}]
    /\ queue \in [Calls -> Seq([plugin : Plugins, goal : Goals])]
    /\ rest \in [Calls -> {None} \cup [Plugins -> Phases \cup {None}]]
    /\ loop \in Calls \cup {None}
    /\ upsets \in 0..MaxUpsets
    /\ written \subseteq Plugins

-----------------------------------------------------------------------------
(* Packages and specs.                                                      *)

\* PackageCatalog.scan: a fresh result that is not empty is given out again,
\* without the errors it had.
Scanned ==
    IF packagesFresh /\ packages # {}
    THEN [good |-> packages, bad |-> {}]
    ELSE [good |-> {p \in Plugins : pkg[p] = "good"}, bad |-> {p \in Plugins : pkg[p] = "bad"}]

\* A spec file as _parse_spec_file reads it, or no spec.
Parsed(s) == IF s = "bad" THEN "absent" ELSE s

\* SpecStore.load_all, with a cache of the same kind.
LoadedSpecs ==
    IF specsFresh /\ \E p \in Plugins : specs[p] # "absent"
    THEN [specs |-> specs, bad |-> {}]
    ELSE [specs |-> [p \in Plugins |-> Parsed(spec[p])], bad |-> {p \in Plugins : spec[p] = "bad"}]

\* What both leave in their caches.
Refilled ==
    /\ packages' = Scanned.good /\ packagesFresh' = TRUE
    /\ specs' = LoadedSpecs.specs /\ specsFresh' = TRUE

\* The decisions of _reconcile.
Goal(installed, s) ==
    IF s # "absent" /\ ~ installed THEN "uninstalled"
    ELSE IF s # "on" THEN "disabled"
    ELSE "loaded"

-----------------------------------------------------------------------------
Init ==
    /\ pkg = [p \in Plugins |-> IF p \in Installed THEN "good" ELSE "absent"]
    /\ spec = [p \in Plugins |-> IF p \in Enabled THEN "on" ELSE "absent"]
    /\ status = [p \in Plugins |-> None]
    /\ packages = {} /\ packagesFresh = FALSE
    /\ specs = [p \in Plugins |-> "absent"] /\ specsFresh = FALSE
    /\ loaded = [p \in Plugins |-> None] /\ hooksOf = [p \in Plugins |-> None]
    /\ registry = {} /\ tools = [p \in Plugins |-> None] /\ targets = {}
    /\ stage = [q \in Calls |-> "new"] /\ queue = [q \in Calls |-> <<>>]
    /\ rest = [q \in Calls |-> None] /\ loop = None
    /\ upsets = 0 /\ written = {}

Item(p, goal) == [plugin |-> p, goal |-> goal]
This(q) == Head(queue[q]).plugin
Wanted(q) == Head(queue[q]).goal

\* The call goes on to the next plugin without giving up the loop.
Proceed(q) ==
    /\ queue' = [queue EXCEPT ![q] = Tail(@)]
    /\ stage' = [stage EXCEPT ![q] = "next"]
    /\ loop' = q

\* The call awaits the plugin.
Await(q, where) ==
    /\ stage' = [stage EXCEPT ![q] = where]
    /\ loop' = None

\* SpecStore.save and delete
WriteSpec(p, s) == spec' = [spec EXCEPT ![p] = s]
EraseSpec(p) == spec' = [spec EXCEPT ![p] = "absent"]

\* RuntimeHookRegistry.register, and what the host notes beside it
RegisterHooks(p, i) == registry' = registry \cup {i} /\ hooksOf' = [hooksOf EXCEPT ![p] = i]

\* ToolBroker.register_tool, register_legacy_tool and unregister_source: a
\* later registration of a name replaces an earlier one.
RegisterTools(p, i) == tools' = [tools EXCEPT ![p] = i]
UnregisterSource(p) == tools' = [tools EXCEPT ![p] = None]

\* MutableModelTargetCatalog
RegisterPluginSlots(p) == targets' = targets \cup {p}
UnregisterPluginTargets(p) == targets' = targets \ {p}

\* StatusStore.save
Save(p, phase) ==
    /\ status' = [status EXCEPT ![p] = phase]
    /\ written' = written \cup {p}

Begin(q, items) ==
    /\ loop = None /\ stage[q] = "new"
    /\ stage' = [stage EXCEPT ![q] = "next"]
    /\ queue' = [queue EXCEPT ![q] = items]
    /\ loop' = q

-----------------------------------------------------------------------------
(* The calls.                                                               *)

\* update_plugin_spec and reconcile_one: the spec comes from its file, the
\* package from the last scan.
UpdateSpec(q, p, s) ==
    /\ Begin(q, <<Item(p, Goal(p \in packages, s))>>)
    /\ WriteSpec(p, s)
    /\ UNCHANGED <<pkg, upsets, status, caches, host, rest, written>>

DeleteSpec(q, p) ==
    /\ Begin(q, <<Item(p, Goal(p \in packages, "absent"))>>)
    /\ EraseSpec(p)
    /\ UNCHANGED <<pkg, upsets, status, caches, host, rest, written>>

InOrder(S, goal) ==
    LET chosen == Chosen(Order, {n \in DOMAIN Order : Order[n] \in S})
    IN [i \in DOMAIN chosen |-> Item(chosen[i], goal[chosen[i]])]

\* reconcile_all up to its first plugin: those that cannot be read come first,
\* packages before specs.
ReconcileAll(q) ==
    LET badPackages == Scanned.bad
        badSpecs == LoadedSpecs.bad \ badPackages
        failed == [p \in Plugins |-> "failed"]
    IN /\ Begin(q, InOrder(badPackages, failed) \o InOrder(badSpecs, failed))
       /\ rest' = [rest EXCEPT ![q] =
            [p \in Plugins |->
                IF p \in badPackages \cup badSpecs THEN "failed"
                ELSE IF p \in Scanned.good \/ LoadedSpecs.specs[p] # "absent"
                THEN Goal(p \in Scanned.good, LoadedSpecs.specs[p])
                ELSE None]]
       /\ Refilled
       /\ UNCHANGED <<disk, status, host, written>>

\* all_ids: known ones and loaded ones, without those that were dealt with.
Collect(q) ==
    LET goal == [p \in Plugins |-> IF rest[q][p] = None THEN "disabled" ELSE rest[q][p]]
        ids == {p \in Plugins : rest[q][p] # "failed" /\ (rest[q][p] # None \/ loaded[p] # None)}
    IN /\ loop = q /\ stage[q] = "next" /\ queue[q] = <<>> /\ rest[q] # None
       /\ queue' = [queue EXCEPT ![q] = InOrder(ids, goal)]
       /\ rest' = [rest EXCEPT ![q] = None]
       /\ UNCHANGED <<disk, status, caches, host, stage, loop, written>>

\* The call returns; the control plane's calls then list the plugins, which
\* refills the caches, and app start and teardown_all do not.
Return(q) ==
    /\ loop = q /\ stage[q] = "next" /\ queue[q] = <<>> /\ rest[q] = None
    /\ Await(q, "done")
    /\ Refilled \/ UNCHANGED caches
    /\ UNCHANGED <<disk, status, host, queue, rest, written>>

\* list_plugins, which the WebUI polls.
ListPlugins ==
    /\ loop = None /\ Refilled
    /\ UNCHANGED <<disk, status, host, stage, queue, rest, loop, written>>

-----------------------------------------------------------------------------
(* One plugin.                                                              *)

\* Nothing to unload and nothing to load.  teardown_all writes no status: what
\* the file says is then of a process that has stopped.
Settle(q) ==
    /\ loop = q /\ stage[q] = "next" /\ queue[q] # <<>>
    /\ loaded[This(q)] = None /\ Wanted(q) # "loaded"
    /\ IF Wanted(q) = "gone" THEN written' = written \ {This(q)} /\ UNCHANGED status
       ELSE Save(This(q), Wanted(q))
    /\ Proceed(q)
    /\ UNCHANGED <<disk, caches, host, rest>>

\* unload_plugin up to teardown(): tools, tasks and targets go at once.
UnloadBegin(q) ==
    LET p == This(q)
    IN /\ loop = q /\ stage[q] = "next" /\ queue[q] # <<>> /\ loaded[p] # None
       /\ UnregisterSource(p) /\ UnregisterPluginTargets(p)
       /\ Await(q, "teardown")
       /\ UNCHANGED <<disk, status, caches, loaded, hooksOf, registry, queue, rest, written>>

\* FAULT: the new registry is left empty.
RebuiltEmpty(p) == {}

\* FAULT: the plugin that is unloaded is not left out.
RebuiltAll(p) == {hooksOf[r] : r \in {r \in Plugins : loaded[r] # None}} \ {None}

\* _rebuild_hook_registry without p's hooks.
Rebuilt(p) == {hooksOf[r] : r \in {r \in Plugins \ {p} : loaded[r] # None}} \ {None}

\* ... and the rest of it, once teardown() has returned or raised.  Whatever
\* instance is there now is dropped.
UnloadEnd(q) ==
    LET p == This(q)
    IN /\ loop = None /\ stage[q] = "teardown"
       /\ hooksOf' = [hooksOf EXCEPT ![p] = None]
       /\ registry' = Rebuilt(p)
       /\ loaded' = [loaded EXCEPT ![p] = None]
       /\ stage' = [stage EXCEPT ![q] = "next"] /\ loop' = q
       /\ UNCHANGED <<disk, status, caches, tools, targets, queue, rest, written>>

\* load_plugin up to setup().
LoadBegin(q) ==
    /\ loop = q /\ stage[q] = "next" /\ queue[q] # <<>>
    /\ loaded[This(q)] = None /\ Wanted(q) = "loaded"
    /\ Await(q, "setup")
    /\ UNCHANGED <<disk, status, written, caches, host, queue, rest>>

\* _import_plugin raises, or the plugin has another name.
ImportFails(q) ==
    /\ loop = q /\ stage[q] = "next" /\ queue[q] # <<>>
    /\ loaded[This(q)] = None /\ Wanted(q) = "loaded"
    /\ Save(This(q), "failed") /\ Proceed(q)
    /\ UNCHANGED <<disk, caches, host, rest>>

SetupRaises(q) ==
    /\ loop = None /\ stage[q] = "setup"
    /\ Save(This(q), "failed") /\ Proceed(q)
    /\ UNCHANGED <<disk, caches, host, rest>>

\* The rest of load_plugin, and the status.
SetupDone(q) ==
    LET p == This(q)
        i == <<q, p>>
    IN /\ loop = None /\ stage[q] = "setup"
       /\ RegisterPluginSlots(p) /\ RegisterHooks(p, i) /\ RegisterTools(p, i)
       /\ loaded' = [loaded EXCEPT ![p] = i]
       /\ Save(p, "loaded") /\ Proceed(q)
       /\ UNCHANGED <<disk, caches, rest>>

\* A slot is refused: the targets are taken back and the plugin torn down.
TargetsRefused(q) ==
    /\ loop = None /\ stage[q] = "setup" /\ This(q) \in Clumsy
    /\ UnregisterPluginTargets(This(q))
    /\ Await(q, "rollback")
    /\ UNCHANGED <<disk, status, caches, loaded, hooksOf, registry, tools, queue, rest, written>>

RollbackDone(q) ==
    /\ loop = None /\ stage[q] = "rollback"
    /\ Save(This(q), "failed") /\ Proceed(q)
    /\ UNCHANGED <<disk, caches, host, rest>>

\* hooks(), runtime_tools() or tools() raises: what is registered stays.
RegistrationRaises(q) ==
    LET p == This(q)
        i == <<q, p>>
    IN /\ loop = None /\ stage[q] = "setup" /\ p \in Clumsy
       /\ RegisterPluginSlots(p)
       /\ \/ UNCHANGED <<registry, hooksOf, tools>>
          \/ RegisterHooks(p, i) /\ UNCHANGED tools
          \/ RegisterHooks(p, i) /\ RegisterTools(p, i)
       /\ Save(p, "failed") /\ Proceed(q)
       /\ UNCHANGED <<disk, caches, loaded, rest>>

-----------------------------------------------------------------------------
(* Files, time and processes.                                               *)

\* A package is installed, broken or removed; a spec is edited by hand.
ChangePackage(p, f) ==
    /\ loop = None /\ upsets < MaxUpsets /\ upsets' = upsets + 1
    /\ pkg[p] # f /\ pkg' = [pkg EXCEPT ![p] = f]
    /\ UNCHANGED <<spec, status, caches, host, stage, queue, rest, loop, written>>

EditSpec(p, f) ==
    /\ loop = None /\ upsets < MaxUpsets /\ upsets' = upsets + 1
    /\ spec[p] # f /\ spec' = [spec EXCEPT ![p] = f]
    /\ UNCHANGED <<pkg, status, caches, host, stage, queue, rest, loop, written>>

\* Five seconds pass.
Expire ==
    /\ loop = None
    /\ \/ packagesFresh /\ packagesFresh' = FALSE /\ UNCHANGED specsFresh
       \/ specsFresh /\ specsFresh' = FALSE /\ UNCHANGED packagesFresh
    /\ UNCHANGED <<disk, status, packages, specs, host, stage, queue, rest, loop, written>>

\* The process dies, or ends after teardown_all, and another one starts.
Restart ==
    /\ upsets < MaxUpsets /\ upsets' = upsets + 1
    /\ packages' = {} /\ packagesFresh' = FALSE
    /\ specs' = [p \in Plugins |-> "absent"] /\ specsFresh' = FALSE
    /\ loaded' = [p \in Plugins |-> None] /\ hooksOf' = [p \in Plugins |-> None]
    /\ registry' = {} /\ tools' = [p \in Plugins |-> None] /\ targets' = {}
    /\ stage' = [q \in Calls |-> IF stage[q] = "new" THEN "new" ELSE "done"]
    /\ queue' = [q \in Calls |-> <<>>] /\ rest' = [q \in Calls |-> None]
    /\ loop' = None /\ written' = {}
    /\ UNCHANGED <<pkg, spec, status>>

\* teardown_all takes the loaded plugins in turn.
TeardownAll(q) ==
    /\ \E p \in Plugins : loaded[p] # None
    /\ Begin(q, InOrder({p \in Plugins : loaded[p] # None}, [p \in Plugins |-> "gone"]))
    /\ UNCHANGED <<disk, status, caches, host, rest, written>>

Step(q) ==
    \/ Collect(q) \/ Return(q) \/ Settle(q)
    \/ UnloadBegin(q) \/ UnloadEnd(q)
    \/ LoadBegin(q) \/ ImportFails(q) \/ SetupRaises(q) \/ SetupDone(q)
    \/ TargetsRefused(q) \/ RollbackDone(q) \/ RegistrationRaises(q)

Next ==
    \/ \E q \in Calls :
        \/ Step(q) \/ ReconcileAll(q) \/ TeardownAll(q)
        \/ \E p \in Plugins : DeleteSpec(q, p) \/ \E s \in {"on", "off"} : UpdateSpec(q, p, s)
    \/ ListPlugins \/ Expire \/ Restart
    \/ \E p \in Plugins :
        \/ \E f \in PackageFiles : ChangePackage(p, f)
        \/ \E f \in SpecFiles : EditSpec(p, f)

Spec == Init /\ [][Next]_vars

-----------------------------------------------------------------------------
(* Properties.                                                              *)

Works(q, p) == stage[q] \notin {"new", "done"} /\ queue[q] # <<>> /\ This(q) = p

(* PluginReconciler: a status that says loaded is true when no call is at   *)
(* work on the plugin, however calls for it overlapped.                      *)
StatusTruthful ==
    \A p \in Plugins :
        p \in written /\ status[p] = "loaded" /\ loaded[p] = None => \E q \in Calls : Works(q, p)

(* PluginRuntimeHost: unless it is being unloaded, a loaded plugin has its   *)
(* hooks, tools and model targets, whatever was loaded and unloaded next to it. *)
LoadedServes ==
    \A p \in Plugins \ Clumsy :
        loaded[p] # None /\ (\A q \in Calls : Works(q, p) => stage[q] # "teardown")
        => /\ hooksOf[p] = loaded[p] /\ loaded[p] \in registry
           /\ tools[p] = loaded[p] /\ p \in targets

\* PluginReconciler and PluginRuntimeHost: what the status file, the table of
\* loaded plugins and the registries say of a plugin agrees, however the calls
\* that load and unload it and its neighbours overlapped.
LoadedForReal == StatusTruthful /\ LoadedServes

\* Hooks enter the registry with a load, never because another plugin is
\* unloaded, and when a plugin is unloaded no instance of it keeps its hooks, not
\* even one of a load that overlapped.
KeepsHooks ==
    /\ \A i \in registry' \ registry : stage[i[1]] = "setup"
    /\ \A p \in Plugins : loaded[p] # None /\ loaded'[p] = None => \A i \in registry' : i[2] # p

\* _rebuild_hook_registry, whatever is loaded and unloaded meanwhile.
HooksFollowLoads == [][KeepsHooks]_vars

=============================================================================
