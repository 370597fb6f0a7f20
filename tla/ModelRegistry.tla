---------------------------- MODULE ModelRegistry ----------------------------
(***************************************************************************)
(* FileSystemModelRegistryManager: providers, presets that name a provider, *)
(* and bindings of a model target to a preset, one file each.  The runtime  *)
(* uses active_registry; mutations are checked against a changed copy of    *)
(* it, write files and reload.  A reload reads the files in a thread, while *)
(* the loop may go on with other calls, and leaves what it read in a cache  *)
(* of five seconds.                                                         *)
(*                                                                          *)
(* A registry gives every id its entry: a provider itself, the provider of  *)
(* a preset, target and preset of a binding, or None.  Targets of plugins need    *)
(* not be in the catalog and are as if they always were.                    *)
(***************************************************************************)

CONSTANTS
    Providers, Presets, Bindings,  \* ids of the three kinds
    Targets,    \* the targets agents, the system and plugins may have
    Calls,      \* calls of the control plane
    None

Ids == Providers \cup Presets \cup Bindings
Entries == Providers \cup [target : Targets, preset : Presets]
Registries == [Ids -> Entries \cup {None}]

VARIABLES
    files,      \* the three directories
    active,     \* active_registry
    cache,      \* _cache_registry
    fresh,      \* _cache_expiry is in the future
    targets,    \* the target catalog
    stage,      \* where a call is
    entity,     \* what a mutation is about
    todo,       \* the files it has still to write or delete
    candidate,  \* the changed copy, which also says what to write
    read,       \* what the thread has read so far
    lock,       \* _reload_lock
    loop,       \* the call that has the event loop
    reply,      \* how a call ended
    disturbed   \* calls have disturbed, or a write has failed

vars == <<files, active, cache, fresh, targets, stage, entity, todo, candidate,
          read, lock, loop, reply, disturbed>>

Stages == {"new", "writing", "checking", "waiting", "providers", "presets", "bindings",
           "validating", "loaded", "rejected", "done"}

TypeOK ==
    /\ files \in Registries /\ active \in Registries /\ read \in Registries
    /\ cache \in Registries \cup {None} /\ fresh \in BOOLEAN
    /\ targets \subseteq Targets
    /\ stage \in [Calls -> Stages]
    /\ entity \in [Calls -> Ids \cup {None}]
    /\ todo \in [Calls -> SUBSET Ids]
    /\ candidate \in [Calls -> Registries]
    /\ lock \in Calls \cup {None} /\ loop \in Calls \cup {None}
    /\ reply \in [Calls -> {"none", "ok", "refused", "failed", "raised"}]
    /\ disturbed \in BOOLEAN

-----------------------------------------------------------------------------
(* Registries.                                                              *)

Has(reg, id) == reg[id] # None

\* FAULT: the bindings are not checked.
ValidPresets(reg) == \A m \in Presets : Has(reg, m) => Has(reg, reg[m])

\* ModelRegistry.validate.  Whether a preset has the task kind and capabilities
\* that a target requires is not distinguished from the target's being there.
Valid(reg) ==
    /\ \A m \in Presets : Has(reg, m) => Has(reg, reg[m])
    /\ \A b \in Bindings : Has(reg, b) => reg[b].target \in targets /\ Has(reg, reg[b].preset)
    /\ \A a, b \in Bindings : Has(reg, a) /\ Has(reg, b) /\ reg[a].target = reg[b].target => a = b

\* preset_impact and provider_impact
PresetImpact(reg, ms) == {b \in Bindings : Has(reg, b) /\ reg[b].preset \in ms}
ProviderPresets(reg, v) == {m \in Presets : reg[m] = v}

\* The copy without some entries.
Without(reg, gone) == [id \in Ids |-> IF id \in gone THEN None ELSE reg[id]]

Init ==
    /\ files = [id \in Ids |-> None] /\ active = files
    /\ cache = None /\ fresh = FALSE
    /\ targets = Targets
    /\ stage = [q \in Calls |-> "new"] /\ entity = [q \in Calls |-> None]
    /\ todo = [q \in Calls |-> {}] /\ candidate = [q \in Calls |-> files]
    /\ read = files /\ lock = None /\ loop = None
    /\ reply = [q \in Calls |-> "none"] /\ disturbed = FALSE

-----------------------------------------------------------------------------
(* Mutations.                                                               *)

UnderWay(q) == stage[q] \notin {"new", "done"}

Begin(q) ==
    /\ loop = None /\ stage[q] = "new"
    /\ disturbed' = (disturbed \/ \E o \in Calls : UnderWay(o))

Refuse(q) ==
    /\ stage' = [stage EXCEPT ![q] = "done"]
    /\ reply' = [reply EXCEPT ![q] = "refused"]
    /\ UNCHANGED <<entity, todo, candidate, loop>>

\* _apply_candidate up to the writer: nothing is written for a copy that is
\* not valid.
Apply(q, id, ids, changed) ==
    /\ Begin(q)
    /\ IF Valid(changed)
       THEN /\ stage' = [stage EXCEPT ![q] = "writing"] /\ loop' = q
            /\ entity' = [entity EXCEPT ![q] = id]
            /\ todo' = [todo EXCEPT ![q] = ids]
            /\ candidate' = [candidate EXCEPT ![q] = changed]
            /\ UNCHANGED reply
       ELSE Refuse(q)
    /\ UNCHANGED <<files, active, cache, fresh, targets, read, lock>>

\* The three upserts.
UpsertProvider(q, v) == Apply(q, v, {v}, [active EXCEPT ![v] = v])
UpsertPreset(q, m, v) == Apply(q, m, {m}, [active EXCEPT ![m] = v])
UpsertBinding(q, b, t, m) == Apply(q, b, {b}, [active EXCEPT ![b] = [target |-> t, preset |-> m]])

InUse(q) ==
    /\ Begin(q) /\ Refuse(q)
    /\ UNCHANGED <<files, active, cache, fresh, targets, read, lock>>

\* delete_provider: with force, presets and bindings go too.
DeleteProvider(q, v, force) ==
    LET ms == ProviderPresets(active, v)
        gone == {v} \cup ms \cup PresetImpact(active, ms)
    IN IF gone # {v} /\ ~ force THEN InUse(q) ELSE Apply(q, v, gone, Without(active, gone))

DeletePreset(q, m, force) ==
    LET gone == {m} \cup PresetImpact(active, {m})
    IN IF gone # {m} /\ ~ force THEN InUse(q) ELSE Apply(q, m, gone, Without(active, gone))

DeleteBinding(q, b) == Apply(q, b, {b}, Without(active, {b}))

\* _write_yaml and _delete_file, one file after the other: providers, then
\* presets, then bindings.  The thread of another reload may read in between.
WriteFile(q) ==
    /\ loop = q /\ stage[q] = "writing"
    /\ \E id \in todo[q] :
        /\ id \in Presets => todo[q] \cap Providers = {}
        /\ id \in Bindings => todo[q] \cap (Providers \cup Presets) = {}
        /\ files' = [files EXCEPT ![id] = candidate[q][id]]
        /\ todo' = [todo EXCEPT ![q] = @ \ {id}]
    /\ UNCHANGED <<active, cache, fresh, targets, stage, entity, candidate, read, lock, loop, reply, disturbed>>

\* The writer raises: what it has written stays, and nothing is reloaded.
WriteFails(q) ==
    /\ loop = q /\ stage[q] = "writing" /\ todo[q] # {}
    /\ stage' = [stage EXCEPT ![q] = "done"] /\ loop' = None
    /\ todo' = [todo EXCEPT ![q] = {}]
    /\ reply' = [reply EXCEPT ![q] = "refused"] /\ disturbed' = TRUE
    /\ UNCHANGED <<files, active, cache, fresh, targets, entity, candidate, read, lock>>

\* FAULT: the cache is left as it is.
InvalidateNot(q) ==
    /\ loop = q /\ stage[q] = "writing" /\ todo[q] = {}
    /\ stage' = [stage EXCEPT ![q] = "checking"]
    /\ UNCHANGED <<files, active, cache, fresh, targets, entity, todo, candidate, read, lock, loop, reply, disturbed>>

\* _invalidate_filesystem_cache
Invalidate(q) ==
    /\ loop = q /\ stage[q] = "writing" /\ todo[q] = {}
    /\ cache' = None /\ fresh' = FALSE
    /\ stage' = [stage EXCEPT ![q] = "checking"]
    /\ UNCHANGED <<files, active, targets, entity, todo, candidate, read, lock, loop, reply, disturbed>>

-----------------------------------------------------------------------------
(* Reloads.                                                                 *)

\* reload() of the control plane, and _refresh_session_agent_targets, which
\* replaces the targets first.
Reload(q, T) ==
    /\ Begin(q)
    /\ targets' = T
    /\ stage' = [stage EXCEPT ![q] = "checking"] /\ loop' = q
    /\ UNCHANGED <<files, active, cache, fresh, entity, todo, candidate, read, lock, reply>>

\* The result of _apply_candidate: for a binding it asks for its snapshot,
\* and get_binding_snapshot raises for one that is not there.
Answer(q, result) ==
    /\ stage' = [stage EXCEPT ![q] = "done"]
    /\ reply' = [reply EXCEPT ![q] =
        IF entity[q] \in Bindings /\ ~ Has(active, entity[q]) THEN "raised" ELSE result]
    /\ loop' = None

Hit == cache # None /\ fresh

\* asyncio.Lock: nobody gets past those that wait.
LockFree == lock = None /\ \A o \in Calls : stage[o] # "waiting"

\* reload() looks at the cache, then at the lock.
CheckCache(q) ==
    /\ loop = q /\ stage[q] = "checking"
    /\ \/ Hit /\ Answer(q, "ok") /\ UNCHANGED lock
       \/ /\ ~ Hit /\ LockFree
          /\ lock' = q /\ stage' = [stage EXCEPT ![q] = "providers"]
          /\ loop' = None /\ UNCHANGED reply
       \/ /\ ~ Hit /\ ~ LockFree
          /\ stage' = [stage EXCEPT ![q] = "waiting"]
          /\ loop' = None /\ UNCHANGED <<lock, reply>>
    /\ UNCHANGED <<files, active, cache, fresh, targets, entity, todo, candidate, read, disturbed>>

\* A call that waited has the lock, and looks at the cache again.
Acquire(q) ==
    /\ loop = None /\ stage[q] = "waiting" /\ lock = None
    /\ \/ Hit /\ Answer(q, "ok") /\ UNCHANGED lock
       \/ /\ ~ Hit /\ lock' = q
          /\ stage' = [stage EXCEPT ![q] = "providers"] /\ UNCHANGED <<loop, reply>>
    /\ UNCHANGED <<files, active, cache, fresh, targets, entity, todo, candidate, read, disturbed>>

\* _load_registry_from_filesystem in the thread, directory by directory; only
\* the holder of the lock gets here, and nobody else fills the cache.
Read(q, here, ids, next) ==
    /\ stage[q] = here
    /\ read' = [id \in Ids |-> IF id \in ids THEN files[id] ELSE read[id]]
    /\ stage' = [stage EXCEPT ![q] = next]

ReadProviders(q) ==
    /\ Read(q, "providers", Providers, "presets")
    /\ UNCHANGED <<files, active, cache, fresh, targets, entity, todo, candidate, lock, loop, reply, disturbed>>

ReadPresets(q) ==
    /\ Read(q, "presets", Presets, "bindings")
    /\ UNCHANGED <<files, active, cache, fresh, targets, entity, todo, candidate, lock, loop, reply, disturbed>>

ReadBindings(q) ==
    /\ Read(q, "bindings", Bindings, "validating")
    /\ cache' = read' /\ fresh' = TRUE
    /\ UNCHANGED <<files, active, targets, entity, todo, candidate, lock, loop, reply, disturbed>>

\* The files of the directory that a stage reads.
Directory(here) ==
    CASE here = "providers" -> Providers
      [] here = "presets" -> Presets
      [] OTHER -> Bindings

\* A file is listed and then, before it is read, deleted by the call that is
\* about to do so.
ReadFails(q) ==
    /\ stage[q] \in {"providers", "presets", "bindings"}
    /\ \E o \in Calls : \E id \in todo[o] \cap Directory(stage[q]) :
        Has(files, id) /\ ~ Has(candidate[o], id)
    /\ stage' = [stage EXCEPT ![q] = "rejected"]
    /\ UNCHANGED <<files, active, cache, fresh, targets, entity, todo, candidate, read, lock, loop, reply, disturbed>>

\* reload_now: what is not valid stays in the cache, but is not used.
Validate(q) ==
    /\ stage[q] = "validating"
    /\ active' = IF Valid(read) THEN read ELSE active
    /\ stage' = [stage EXCEPT ![q] = IF Valid(read) THEN "loaded" ELSE "rejected"]
    /\ UNCHANGED <<files, cache, fresh, targets, entity, todo, candidate, read, lock, loop, reply, disturbed>>

\* The loop takes the result of the thread and releases the lock.
Resume(q) ==
    /\ loop = None /\ stage[q] \in {"loaded", "rejected"}
    /\ Answer(q, IF stage[q] = "loaded" THEN "ok" ELSE "failed")
    /\ lock' = None
    /\ UNCHANGED <<files, active, cache, fresh, targets, entity, todo, candidate, read, disturbed>>

\* Five seconds pass.
Expire ==
    /\ fresh /\ fresh' = FALSE
    /\ UNCHANGED <<files, active, cache, targets, stage, entity, todo, candidate, read, lock, loop, reply, disturbed>>

Call(q) ==
    \/ \E v \in Providers :
        \/ UpsertProvider(q, v)
        \/ \E m \in Presets : UpsertPreset(q, m, v)
        \/ \E force \in BOOLEAN : DeleteProvider(q, v, force)
    \/ \E m \in Presets :
        \/ \E b \in Bindings, t \in Targets : UpsertBinding(q, b, t, m)
        \/ \E force \in BOOLEAN : DeletePreset(q, m, force)
    \/ \E b \in Bindings : DeleteBinding(q, b)
    \/ \E T \in SUBSET Targets : Reload(q, T)

Step(q) ==
    \/ WriteFile(q) \/ WriteFails(q) \/ Invalidate(q) \/ CheckCache(q) \/ Acquire(q)
    \/ ReadProviders(q) \/ ReadPresets(q) \/ ReadBindings(q) \/ ReadFails(q)
    \/ Validate(q) \/ Resume(q)

Next == Expire \/ \E q \in Calls : Call(q) \/ Step(q)

Spec == Init /\ [][Next]_vars

-----------------------------------------------------------------------------
(* Properties.                                                              *)

\* active_registry, which every run resolves its models from, never has a
\* preset without its provider, a binding without its preset or a target bound
\* twice, whatever the files go through while a thread reads them.
ActiveConsistent ==
    /\ \A m \in Presets : active[m] # None => active[active[m]] # None
    /\ \A b \in Bindings : active[b] # None => active[active[b].preset] # None
    /\ \A a, b \in Bindings :
        active[a] # None /\ active[b] # None /\ active[a].target = active[b].target => a = b

Idle == \A q \in Calls : ~ UnderWay(q)

\* _apply_candidate, reload: as long as calls come one at a time and files
\* can be written, the runtime uses what the files say once a call has returned.
SerialCallsApply == Idle /\ ~ disturbed => active = files

=============================================================================
