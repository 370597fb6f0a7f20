-------------------------- MODULE RegistriesProofs --------------------------
(* What calls of the console and of the reconciler leave in the registries   *)
(* of models and of plugins, however they overlap.                           *)
(*                                                                          *)
(* First the model registry: the active one is consistent, and is what the   *)
(* files say as long as calls do not overlap.  Then the plugin host: status  *)
(* file, loaded plugins and registries agree, and hooks follow loads.        *)
EXTENDS PluginHost, Registry, FiniteSetTheorems, WellFoundedInduction, TLAPS

\* Init has the types.
LEMMA InitTypes == Models!Init => Models!TypeOK
<1> SUFFICES ASSUME Models!Init PROVE Models!TypeOK
  OBVIOUS
<1>1. files \in Models!Registries
  BY DEF Models!Init, Models!Registries
<1> QED
  BY <1>1 DEF Models!Init, Models!TypeOK, Models!Stages

\* A mutation keeps the types if its copy is a registry.
LEMMA ApplyTypes ==
    ASSUME Models!TypeOK, NEW q \in Edits, NEW id \in Models!Ids, NEW ids \in SUBSET Models!Ids,
           NEW changed \in Models!Registries, Models!Apply(q, id, ids, changed)
    PROVE Models!TypeOK'
BY DEF Models!TypeOK, Models!Apply, Models!Begin, Models!Refuse, Models!Stages

\* A deletion that is refused keeps the types.
LEMMA InUseTypes ==
    ASSUME Models!TypeOK, NEW q \in Edits, Models!InUse(q)
    PROVE Models!TypeOK'
BY DEF Models!TypeOK, Models!InUse, Models!Begin, Models!Refuse, Models!Stages

\* Every mutation is Apply for a copy that differs from active_registry in the
\* ids it writes, or writes nothing.
Applies(q) ==
    \/ Models!InUse(q)
    \/ \E id \in Models!Ids, ids \in SUBSET Models!Ids, changed \in Models!Registries :
        /\ Models!Apply(q, id, ids, changed)
        /\ \A i \in Models!Ids \ ids : changed[i] = active[i]

\* A call of the control plane is a mutation or a reload.
LEMMA Mutations ==
    ASSUME Models!TypeOK, NEW q \in Edits, Models!Call(q)
    PROVE Applies(q) \/ \E T \in SUBSET Targets : Models!Reload(q, T)
<1>0. active \in [Models!Ids -> Models!Entries \cup {NoEntry}]
  BY DEF Models!TypeOK, Models!Registries
<1>a. ASSUME NEW i \in Models!Ids, NEW e \in Models!Entries
      PROVE /\ [active EXCEPT ![i] = e] \in Models!Registries
            /\ \A j \in Models!Ids \ {i} : [active EXCEPT ![i] = e][j] = active[j]
  BY <1>0 DEF Models!Registries
<1>1. ASSUME NEW v \in Providers, Models!UpsertProvider(q, v) PROVE Applies(q)
  <2> DEFINE changed == [active EXCEPT ![v] = v]
  <2>1. changed \in Models!Registries /\ \A i \in Models!Ids \ {v} : changed[i] = active[i]
    BY <1>a DEF Models!Ids, Models!Entries
  <2>2. Models!Apply(q, v, {v}, changed)
    BY <1>1 DEF Models!UpsertProvider
  <2>3. v \in Models!Ids /\ {v} \in SUBSET Models!Ids
    BY DEF Models!Ids
  <2> HIDE DEF changed
  <2> QED
    BY <2>1, <2>2, <2>3 DEF Applies
<1>2. ASSUME NEW v \in Providers, NEW m \in Presets, Models!UpsertPreset(q, m, v) PROVE Applies(q)
  <2> DEFINE changed == [active EXCEPT ![m] = v]
  <2>1. changed \in Models!Registries /\ \A i \in Models!Ids \ {m} : changed[i] = active[i]
    BY <1>a DEF Models!Ids, Models!Entries
  <2>2. Models!Apply(q, m, {m}, changed)
    BY <1>2 DEF Models!UpsertPreset
  <2>3. m \in Models!Ids /\ {m} \in SUBSET Models!Ids
    BY DEF Models!Ids
  <2> HIDE DEF changed
  <2> QED
    BY <2>1, <2>2, <2>3 DEF Applies
<1>3. ASSUME NEW b \in Bindings, NEW t \in Targets, NEW m \in Presets, Models!UpsertBinding(q, b, t, m)
      PROVE Applies(q)
  <2> DEFINE changed == [active EXCEPT ![b] = [target |-> t, preset |-> m]]
  <2>1. changed \in Models!Registries /\ \A i \in Models!Ids \ {b} : changed[i] = active[i]
    <3>1. [target |-> t, preset |-> m] \in Models!Entries
      BY DEF Models!Entries
    <3> QED
      BY <1>a, <3>1 DEF Models!Ids
  <2>2. Models!Apply(q, b, {b}, changed)
    BY <1>3 DEF Models!UpsertBinding
  <2>3. b \in Models!Ids /\ {b} \in SUBSET Models!Ids
    BY DEF Models!Ids
  <2> HIDE DEF changed
  <2> QED
    BY <2>1, <2>2, <2>3 DEF Applies
<1>4. ASSUME NEW gone \in SUBSET Models!Ids, NEW id \in Models!Ids, Models!Apply(q, id, gone, Models!Without(active, gone))
      PROVE Applies(q)
  <2>1. /\ Models!Without(active, gone) \in Models!Registries
        /\ \A i \in Models!Ids \ gone : Models!Without(active, gone)[i] = active[i]
    BY <1>0 DEF Models!Without, Models!Registries
  <2> QED
    BY <1>4, <2>1 DEF Applies
<1>5. ASSUME NEW v \in Providers, NEW force \in BOOLEAN, Models!DeleteProvider(q, v, force) PROVE Applies(q)
  <2> DEFINE ms == Models!ProviderPresets(active, v)
             gone == {v} \cup ms \cup Models!PresetImpact(active, ms)
  <2>1. gone \in SUBSET Models!Ids
    BY DEF Models!ProviderPresets, Models!PresetImpact, Models!Ids
  <2>2. Models!InUse(q) \/ Models!Apply(q, v, gone, Models!Without(active, gone))
    BY <1>5 DEF Models!DeleteProvider
  <2> QED
    BY <1>4, <2>1, <2>2 DEF Applies, Models!Ids
<1>6. ASSUME NEW m \in Presets, NEW force \in BOOLEAN, Models!DeletePreset(q, m, force) PROVE Applies(q)
  <2> DEFINE gone == {m} \cup Models!PresetImpact(active, {m})
  <2>1. gone \in SUBSET Models!Ids
    BY DEF Models!PresetImpact, Models!Ids
  <2>2. Models!InUse(q) \/ Models!Apply(q, m, gone, Models!Without(active, gone))
    BY <1>6 DEF Models!DeletePreset
  <2> QED
    BY <1>4, <2>1, <2>2 DEF Applies, Models!Ids
<1>7. ASSUME NEW b \in Bindings, Models!DeleteBinding(q, b) PROVE Applies(q)
  BY <1>4, <1>7 DEF Models!DeleteBinding, Models!Ids
<1> QED
  BY <1>1, <1>2, <1>3, <1>5, <1>6, <1>7 DEF Models!Call

\* The types are kept.
LEMMA NextTypes ==
    ASSUME Models!TypeOK, [Models!Next]_(Models!vars)
    PROVE Models!TypeOK'
<1>1. CASE UNCHANGED Models!vars
  BY <1>1 DEF Models!TypeOK, Models!vars
<1>2. CASE Models!Expire
  BY <1>2 DEF Models!Expire, Models!TypeOK
<1>3. ASSUME NEW q \in Edits, Models!Call(q) PROVE Models!TypeOK'
  <2>1. CASE Applies(q)
    BY <2>1, ApplyTypes, InUseTypes DEF Applies
  <2>2. CASE \E T \in SUBSET Targets : Models!Reload(q, T)
    BY <2>2 DEF Models!Reload, Models!Begin, Models!TypeOK, Models!Stages
  <2> QED
    BY <1>3, <2>1, <2>2, Mutations
<1>4. ASSUME NEW q \in Edits, Models!Step(q) PROVE Models!TypeOK'
  <2> USE DEF Models!TypeOK, Models!Stages
  <2>1. CASE Models!WriteFile(q)
    <3>1. PICK id \in todo[q] :
            /\ files' = [files EXCEPT ![id] = candidate[q][id]]
            /\ todo' = [todo EXCEPT ![q] = @ \ {id}]
      BY <2>1 DEF Models!WriteFile
    <3>2. files' \in Models!Registries
      BY <3>1 DEF Models!Registries
    <3> QED
      BY <2>1, <3>1, <3>2 DEF Models!WriteFile
  <2>0. CASE Models!WriteFails(q)
    BY <2>0 DEF Models!WriteFails
  <2>2. CASE Models!Invalidate(q)
    BY <2>2 DEF Models!Invalidate
  <2>3. CASE Models!CheckCache(q)
    BY <2>3 DEF Models!CheckCache, Models!Answer
  <2>4. CASE Models!Acquire(q)
    BY <2>4 DEF Models!Acquire, Models!Answer
  <2>5. ASSUME NEW here, NEW ids \in SUBSET Models!Ids, NEW next \in Models!Stages, Models!Read(q, here, ids, next)
        PROVE read' \in Models!Registries /\ step' \in [Edits -> Models!Stages]
    BY <2>5 DEF Models!Read, Models!Registries
  <2>6. CASE Models!ReadProviders(q)
    BY <2>6, <2>5 DEF Models!ReadProviders, Models!Ids
  <2>7. CASE Models!ReadPresets(q)
    BY <2>7, <2>5 DEF Models!ReadPresets, Models!Ids
  <2>8. CASE Models!ReadBindings(q)
    BY <2>8, <2>5 DEF Models!ReadBindings, Models!Ids
  <2>9. CASE Models!ReadFails(q)
    BY <2>9 DEF Models!ReadFails
  <2>10. CASE Models!Validate(q)
    BY <2>10 DEF Models!Validate
  <2>11. CASE Models!Resume(q)
    BY <2>11 DEF Models!Resume, Models!Answer
  <2> QED
    BY <1>4, <2>0, <2>1, <2>2, <2>3, <2>4, <2>6, <2>7, <2>8, <2>9, <2>10, <2>11 DEF Models!Step
<1> QED
  BY <1>1, <1>2, <1>3, <1>4 DEF Models!Next

-----------------------------------------------------------------------------
(* The active registry is consistent: only reload_now replaces it, by what it *)
(* has validated.                                                            *)

\* What validate accepts is consistent.
LEMMA ValidConsistent ==
    ASSUME Models!Valid(read), active' = read
    PROVE ActiveConsistent'
BY DEF Models!Valid, Models!Has, ActiveConsistent, Models!ActiveConsistent

\* Only Validate assigns active_registry.
LEMMA ActiveKept ==
    ASSUME Models!TypeOK, Models!Next, active' # active
    PROVE Models!Valid(read) /\ active' = read
<1>1. ASSUME Models!Expire PROVE active' = active
  BY <1>1 DEF Models!Expire
<1>2. ASSUME NEW q \in Edits, Models!Call(q) PROVE active' = active
  BY <1>2, Mutations DEF Applies, Models!Apply, Models!InUse, Models!Reload
<1>3. ASSUME NEW q \in Edits, Models!Step(q) PROVE active' = active \/ Models!Validate(q)
  BY <1>3 DEF Models!Step, Models!WriteFile, Models!WriteFails, Models!Invalidate, Models!CheckCache, Models!Acquire, Models!ReadProviders,
     Models!ReadPresets, Models!ReadBindings, Models!ReadFails, Models!Resume
<1> QED
  BY <1>1, <1>2, <1>3 DEF Models!Next, Models!Validate

\* The types hold in every state.
THEOREM TypeTheorem == RegistrySpec => []Models!TypeOK
BY InitTypes, NextTypes, PTL DEF RegistrySpec, Models!Spec

\* reload_now: whatever the files go through while a thread reads them, the
\* registry in use has no dangling preset or binding and no target bound twice.
THEOREM ActiveConsistentTheorem == RegistrySpec => []ActiveConsistent
<1>1. Models!Init => ActiveConsistent
  BY DEF Models!Init, ActiveConsistent, Models!ActiveConsistent, Models!Ids
<1>2. ASSUME Models!TypeOK, ActiveConsistent, [Models!Next]_(Models!vars) PROVE ActiveConsistent'
  <2>1. CASE active' = active
    BY <1>2, <2>1 DEF ActiveConsistent, Models!ActiveConsistent
  <2>2. CASE active' # active
    BY <1>2, <2>2, ActiveKept, ValidConsistent DEF Models!vars
  <2> QED
    BY <2>1, <2>2
<1> QED
  BY <1>1, <1>2, TypeTheorem, PTL DEF RegistrySpec, Models!Spec

-----------------------------------------------------------------------------
(* Calls that do not overlap.                                                *)

\* Nobody is under way: the runtime uses what the files say.
Settled == active = files /\ cache \in {NoEntry, files}

\* What a reload may rely on: it will accept the files, or they are in use.
Usable == Models!Valid(files) \/ active = files

Agree(ids) == \A id \in ids : read[id] = files[id]

\* What holds at every stage of a call that is alone.
CallInv(q) ==
    /\ step[q] = "writing" =>
        Models!Valid(candidate[q]) /\ \A id \in Models!Ids \ todo[q] : files[id] = candidate[q][id]
    /\ step[q] \in {"checking", "waiting"} =>
        Usable /\ cache \in {NoEntry, files} /\ (cache # NoEntry => active = files)
    /\ step[q] = "providers" => Usable
    /\ step[q] = "presets" => Usable /\ Agree(Providers)
    /\ step[q] = "bindings" => Usable /\ Agree(Providers \cup Presets)
    /\ step[q] = "validating" => Usable /\ read = files /\ cache = files
    /\ step[q] \in {"loaded", "rejected"} => active = files /\ cache \in {NoEntry, files}

\* The inductive invariant: before the first disturbance at most one call is
\* under way, and its stage says how files, cache and active_registry relate.
SerialInv == ~ disturbed =>
    /\ \A p, q \in Edits : Models!UnderWay(p) /\ Models!UnderWay(q) => p = q
    /\ \A q \in Edits : todo[q] # {} => step[q] = "writing"
    /\ \A q \in Edits : CallInv(q)
    /\ Models!Idle => Settled

\* A step of one call that is alone keeps the invariant if it is right about
\* that call.
LEMMA Alone ==
    ASSUME NEW q \in Edits,
           \A o \in Edits \ {q} : step'[o] \in {"new", "done"} /\ todo'[o] = {},
           todo'[q] # {} => step'[q] = "writing",
           Models!UnderWay(q)' => CallInv(q)',
           ~ Models!UnderWay(q)' => Settled'
    PROVE SerialInv'
<1>1. \A o \in Edits \ {q} : ~ Models!UnderWay(o)' /\ CallInv(o)'
  BY DEF Models!UnderWay, CallInv
<1>2. CallInv(q)'
  BY DEF Models!UnderWay, CallInv
<1>3. Models!Idle' => Settled'
  BY DEF Models!Idle
<1> QED
  BY <1>1, <1>2, <1>3 DEF SerialInv

\* A call that begins without a disturbance finds nobody under way.
LEMMA Beginning ==
    ASSUME SerialInv, NEW q \in Edits, Models!Begin(q), ~ disturbed'
    PROVE Settled /\ \A o \in Edits : step[o] \in {"new", "done"} /\ todo[o] = {}
BY DEF Models!Begin, SerialInv, Models!Idle, Models!UnderWay

\* A call that is under way without a disturbance is alone.
LEMMA Going ==
    ASSUME SerialInv, ~ disturbed, NEW q \in Edits, Models!UnderWay(q)
    PROVE /\ CallInv(q)
          /\ step[q] # "writing" => todo[q] = {}
          /\ \A o \in Edits \ {q} : step[o] \in {"new", "done"} /\ todo[o] = {}
BY DEF SerialInv, Models!UnderWay

\* A mutation keeps the invariant.
LEMMA AppliesSerial ==
    ASSUME Models!TypeOK, SerialInv, NEW q \in Edits, Applies(q)
    PROVE SerialInv'
<1>0. CASE disturbed'
  BY <1>0 DEF SerialInv
<1> SUFFICES ASSUME ~ disturbed' PROVE SerialInv'
  BY <1>0
<1>1. Models!Begin(q)
  BY DEF Applies, Models!Apply, Models!InUse
<1>2. Settled /\ \A o \in Edits : step[o] \in {"new", "done"} /\ todo[o] = {}
  BY <1>1, Beginning
<1>3. ASSUME Models!Refuse(q), UNCHANGED <<files, active, cache>> PROVE SerialInv'
  <2>1. step' = [step EXCEPT ![q] = "done"] /\ todo' = todo
    BY <1>3 DEF Models!Refuse
  <2>2. ~ Models!UnderWay(q)' /\ Settled'
    BY <1>2, <1>3, <2>1 DEF Models!UnderWay, Settled, Models!TypeOK
  <2> QED
    BY <1>2, <2>1, <2>2, Alone DEF Models!TypeOK
<1>4. CASE Models!InUse(q)
  BY <1>3, <1>4 DEF Models!InUse
<1>5. ASSUME NEW id \in Models!Ids, NEW ids \in SUBSET Models!Ids, NEW changed \in Models!Registries,
             Models!Apply(q, id, ids, changed), \A i \in Models!Ids \ ids : changed[i] = active[i]
      PROVE SerialInv'
  <2>1. CASE Models!Valid(changed)
    <3>1. /\ step' = [step EXCEPT ![q] = "writing"] /\ todo' = [todo EXCEPT ![q] = ids]
          /\ candidate' = [candidate EXCEPT ![q] = changed]
          /\ files' = files /\ catalog' = catalog
      BY <1>5, <2>1 DEF Models!Apply
    <3>2. candidate'[q] = changed /\ step'[q] = "writing" /\ todo'[q] = ids
      BY <3>1 DEF Models!TypeOK
    <3>3. Models!Valid(candidate[q])'
      BY <2>1, <3>1, <3>2 DEF Models!Valid, Models!Has
    <3>4. CallInv(q)' /\ Models!UnderWay(q)'
      BY <1>2, <1>5, <3>1, <3>2, <3>3 DEF CallInv, Settled, Models!UnderWay
    <3> QED
      BY <1>2, <3>1, <3>2, <3>4, Alone DEF Models!TypeOK
  <2>2. CASE ~ Models!Valid(changed)
    BY <1>3, <1>5, <2>2 DEF Models!Apply
  <2> QED
    BY <2>1, <2>2
<1> QED
  BY <1>4, <1>5 DEF Applies

\* A reload that begins keeps it.
LEMMA ReloadSerial ==
    ASSUME Models!TypeOK, SerialInv, NEW q \in Edits, NEW T \in SUBSET Targets, Models!Reload(q, T)
    PROVE SerialInv'
<1>0. CASE disturbed'
  BY <1>0 DEF SerialInv
<1> SUFFICES ASSUME ~ disturbed' PROVE SerialInv'
  BY <1>0
<1>1. Settled /\ \A o \in Edits : step[o] \in {"new", "done"} /\ todo[o] = {}
  BY Beginning DEF Models!Reload
<1>2. /\ step' = [step EXCEPT ![q] = "checking"] /\ todo' = todo
      /\ UNCHANGED <<files, active, cache>>
  BY DEF Models!Reload
<1>3. CallInv(q)' /\ Models!UnderWay(q)'
  BY <1>1, <1>2 DEF CallInv, Settled, Models!UnderWay, Usable, Models!TypeOK
<1> QED
  BY <1>1, <1>2, <1>3, Alone DEF Models!TypeOK

\* What validate says depends on the registry and the targets alone.
LEMMA ValidKept ==
    ASSUME UNCHANGED <<files, catalog>>
    PROVE Models!Valid(files)' <=> Models!Valid(files)
BY DEF Models!Valid, Models!Has

\* So does what a reload relies on.
LEMMA UsableKept ==
    ASSUME UNCHANGED <<files, catalog, active>>, Usable
    PROVE Usable'
BY ValidKept DEF Usable

\* Two registries with the same entries are the same.
LEMMA SameRegistry ==
    ASSUME NEW r \in Models!Registries, NEW s \in Models!Registries, \A id \in Models!Ids : r[id] = s[id]
    PROVE r = s
BY DEF Models!Registries

\* A step of a call that is under way keeps it.
LEMMA StepSerial ==
    ASSUME Models!TypeOK, Models!TypeOK', SerialInv, NEW q \in Edits, Models!Step(q)
    PROVE SerialInv'
<1>0. CASE disturbed'
  BY <1>0 DEF SerialInv
<1> SUFFICES ASSUME ~ disturbed' PROVE SerialInv'
  BY <1>0
<1>1. Models!UnderWay(q)
  BY DEF Models!Step, Models!UnderWay, Models!WriteFile, Models!WriteFails, Models!Invalidate, Models!CheckCache, Models!Acquire, Models!ReadProviders,
     Models!ReadPresets, Models!ReadBindings, Models!Read, Models!ReadFails, Models!Validate, Models!Resume
<1>2. ~ disturbed
  BY DEF Models!Step, Models!WriteFile, Models!WriteFails, Models!Invalidate, Models!CheckCache, Models!Acquire, Models!ReadProviders,
     Models!ReadPresets, Models!ReadBindings, Models!ReadFails, Models!Validate, Models!Resume
<1>3. /\ CallInv(q) /\ (step[q] # "writing" => todo[q] = {})
      /\ \A o \in Edits \ {q} : step[o] \in {"new", "done"} /\ todo[o] = {}
  BY <1>1, <1>2, Going
<1>4. CASE Models!WriteFile(q)
  <2>1. PICK id \in todo[q] :
            /\ files' = [files EXCEPT ![id] = candidate[q][id]]
            /\ todo' = [todo EXCEPT ![q] = @ \ {id}]
    BY <1>4 DEF Models!WriteFile
  <2>2. step[q] = "writing" /\ step' = step /\ candidate' = candidate /\ catalog' = catalog
    BY <1>4 DEF Models!WriteFile
  <2>3. Models!Valid(candidate[q])'
    BY <1>3, <2>2 DEF CallInv, Models!Valid, Models!Has
  <2>4. id \in Models!Ids /\ todo'[q] = todo[q] \ {id}
    BY <2>1 DEF Models!TypeOK
  <2>5. \A i \in Models!Ids \ todo'[q] : files'[i] = candidate[q][i]
    BY <1>3, <2>1, <2>2, <2>4 DEF CallInv, Models!TypeOK, Models!Registries
  <2>6. CallInv(q)' /\ Models!UnderWay(q)'
    BY <2>2, <2>3, <2>5 DEF CallInv, Models!UnderWay
  <2> QED
    BY <1>3, <2>1, <2>2, <2>6, Alone DEF Models!TypeOK
<1>5. CASE Models!WriteFails(q)
  BY <1>5 DEF Models!WriteFails
<1>6. CASE Models!Invalidate(q)
  <2>1. /\ step[q] = "writing" /\ todo[q] = {} /\ cache' = NoEntry /\ todo' = todo
        /\ step' = [step EXCEPT ![q] = "checking"] /\ UNCHANGED <<files, catalog, active>>
    BY <1>6 DEF Models!Invalidate
  <2>2. files = candidate[q]
    BY <1>3, <2>1, SameRegistry DEF CallInv, Models!TypeOK
  <2>3. Usable
    BY <1>3, <2>1, <2>2 DEF CallInv, Usable
  <2>4. CallInv(q)' /\ Models!UnderWay(q)'
    BY <2>1, <2>3, UsableKept DEF CallInv, Models!UnderWay, Models!TypeOK
  <2> QED
    BY <1>3, <2>1, <2>4, Alone DEF Models!TypeOK
<1>7. ASSUME NEW x \in {"checking", "waiting"}, step[q] = x,
             UNCHANGED <<files, active, cache, catalog, todo>>,
             \/ Models!Hit /\ step' = [step EXCEPT ![q] = "done"]
             \/ \E y \in {"providers", "waiting"} : step' = [step EXCEPT ![q] = y]
      PROVE SerialInv'
  <2>0. Usable /\ cache \in {NoEntry, files} /\ (cache # NoEntry => active = files)
    BY <1>3, <1>7 DEF CallInv
  <2>1. CASE Models!Hit /\ step' = [step EXCEPT ![q] = "done"]
    <3>1. ~ Models!UnderWay(q)' /\ Settled'
      BY <1>7, <2>0, <2>1 DEF Models!Hit, Settled, Models!UnderWay, Models!TypeOK
    <3> QED
      BY <1>3, <1>7, <2>1, <3>1, Alone DEF Models!TypeOK
  <2>2. ASSUME NEW y \in {"providers", "waiting"}, step' = [step EXCEPT ![q] = y] PROVE SerialInv'
    <3>1. CallInv(q)' /\ Models!UnderWay(q)'
      BY <1>7, <2>0, <2>2, UsableKept DEF CallInv, Models!UnderWay, Models!TypeOK
    <3> QED
      BY <1>3, <1>7, <2>2, <3>1, Alone DEF Models!TypeOK
  <2> QED
    BY <1>7, <2>1, <2>2
<1>8. CASE Models!CheckCache(q)
  BY <1>7, <1>8 DEF Models!CheckCache, Models!Answer
<1>9. CASE Models!Acquire(q)
  BY <1>7, <1>9 DEF Models!Acquire, Models!Answer
<1>10. ASSUME NEW here \in Models!Stages, NEW ids \in SUBSET Models!Ids, NEW next \in Models!Stages,
              Models!Read(q, here, ids, next), here \notin {"new", "done", "writing"}
       PROVE /\ step[q] = here /\ step'[q] = next /\ todo[q] = {}
             /\ \A o \in Edits \ {q} : step'[o] \in {"new", "done"}
             /\ \A id \in Models!Ids : read'[id] = IF id \in ids THEN files[id] ELSE read[id]
  BY <1>3, <1>10 DEF Models!Read, Models!TypeOK
<1>11. CASE Models!ReadProviders(q)
  <2>1. /\ step[q] = "providers" /\ step'[q] = "presets" /\ todo[q] = {}
        /\ \A o \in Edits \ {q} : step'[o] \in {"new", "done"}
        /\ \A id \in Providers : read'[id] = files[id]
    BY <1>10, <1>11 DEF Models!ReadProviders, Models!Ids, Models!Stages
  <2>2. UNCHANGED <<files, active, cache, catalog, todo>>
    BY <1>11 DEF Models!ReadProviders
  <2>3. CallInv(q)' /\ Models!UnderWay(q)'
    BY <1>3, <2>1, <2>2, UsableKept DEF CallInv, Models!UnderWay, Agree
  <2> QED
    BY <1>3, <2>1, <2>2, <2>3, Alone
<1>12. CASE Models!ReadPresets(q)
  <2>1. /\ step[q] = "presets" /\ step'[q] = "bindings" /\ todo[q] = {}
        /\ \A o \in Edits \ {q} : step'[o] \in {"new", "done"}
        /\ \A id \in Models!Ids : read'[id] = IF id \in Presets THEN files[id] ELSE read[id]
    BY <1>10, <1>12 DEF Models!ReadPresets, Models!Ids, Models!Stages
  <2>2. UNCHANGED <<files, active, cache, catalog, todo>>
    BY <1>12 DEF Models!ReadPresets
  <2>3. CallInv(q)' /\ Models!UnderWay(q)'
    BY <1>3, <2>1, <2>2, UsableKept DEF CallInv, Models!UnderWay, Agree, Models!Ids
  <2> QED
    BY <1>3, <2>1, <2>2, <2>3, Alone
<1>13. CASE Models!ReadBindings(q)
  <2>1. /\ step[q] = "bindings" /\ step'[q] = "validating" /\ todo[q] = {}
        /\ \A o \in Edits \ {q} : step'[o] \in {"new", "done"}
        /\ \A id \in Models!Ids : read'[id] = IF id \in Bindings THEN files[id] ELSE read[id]
    BY <1>10, <1>13 DEF Models!ReadBindings, Models!Ids, Models!Stages
  <2>2. UNCHANGED <<files, active, catalog, todo>> /\ cache' = read'
    BY <1>13 DEF Models!ReadBindings
  <2>3. \A id \in Models!Ids : read'[id] = files[id]
    BY <1>3, <2>1 DEF CallInv, Agree, Models!Ids
  <2>4. read' = files
    BY <2>3, SameRegistry DEF Models!TypeOK
  <2>5. CallInv(q)' /\ Models!UnderWay(q)'
    BY <1>3, <2>1, <2>2, <2>4, UsableKept DEF CallInv, Models!UnderWay
  <2> QED
    BY <1>3, <2>1, <2>2, <2>5, Alone
<1>14. CASE Models!ReadFails(q)
  <2>1. step[q] # "writing" /\ \E o \in Edits : todo[o] # {}
    BY <1>14 DEF Models!ReadFails
  <2> QED
    BY <1>3, <2>1
<1>15. CASE Models!Validate(q)
  <2>1. /\ step[q] = "validating" /\ active' = IF Models!Valid(read) THEN read ELSE active
        /\ step'[q] \in {"loaded", "rejected"}
        /\ \A o \in Edits \ {q} : step'[o] = step[o]
        /\ UNCHANGED <<files, cache, todo>>
    BY <1>15 DEF Models!Validate, Models!TypeOK
  <2>2. active' = files /\ cache' = files
    BY <1>3, <2>1 DEF CallInv, Usable
  <2>3. CallInv(q)' /\ Models!UnderWay(q)'
    BY <2>1, <2>2 DEF CallInv, Models!UnderWay
  <2> QED
    BY <1>3, <2>1, <2>3, Alone
<1>16. CASE Models!Resume(q)
  <2>1. /\ step[q] \in {"loaded", "rejected"} /\ step'[q] = "done"
        /\ \A o \in Edits \ {q} : step'[o] = step[o]
        /\ UNCHANGED <<files, active, cache, todo>>
    BY <1>16 DEF Models!Resume, Models!Answer, Models!TypeOK
  <2>2. Settled' /\ ~ Models!UnderWay(q)'
    BY <1>3, <2>1 DEF CallInv, Settled, Models!UnderWay
  <2> QED
    BY <1>3, <2>1, <2>2, Alone
<1> QED
  BY <1>4, <1>5, <1>6, <1>8, <1>9, <1>11, <1>12, <1>13, <1>14, <1>15, <1>16 DEF Models!Step

\* Time alone changes nothing it speaks of.
LEMMA StutterSerial ==
    ASSUME SerialInv, UNCHANGED <<files, active, cache, catalog, step, todo, candidate, read, disturbed>>
    PROVE SerialInv'
<1>1. \A q \in Edits : (Models!UnderWay(q)' <=> Models!UnderWay(q)) /\ (CallInv(q) => CallInv(q)')
  BY ValidKept DEF Models!UnderWay, CallInv, Usable, Agree, Models!Valid, Models!Has
<1> QED
  BY <1>1 DEF SerialInv, Models!Idle, Settled

\* _apply_candidate and reload: as long as calls come one at a time and files
\* can be written, the runtime uses what the files say once a call has returned.
THEOREM SerialTheorem == RegistrySpec => []SerialCallsApply
<1>1. Models!Init => SerialInv
  BY DEF Models!Init, SerialInv, Models!UnderWay, CallInv, Models!Idle, Settled
<1>2. ASSUME Models!TypeOK, Models!TypeOK', SerialInv, [Models!Next]_(Models!vars) PROVE SerialInv'
  <2>1. CASE UNCHANGED Models!vars \/ Models!Expire
    BY <1>2, <2>1, StutterSerial DEF Models!vars, Models!Expire
  <2>2. ASSUME NEW q \in Edits, Models!Call(q) PROVE SerialInv'
    BY <1>2, <2>2, Mutations, AppliesSerial, ReloadSerial
  <2>3. ASSUME NEW q \in Edits, Models!Step(q) PROVE SerialInv'
    BY <1>2, <2>3, StepSerial
  <2> QED
    BY <1>2, <2>1, <2>2, <2>3 DEF Models!Next
<1>3. SerialInv => SerialCallsApply
  BY DEF SerialInv, SerialCallsApply, Models!SerialCallsApply, Settled
<1> QED
  BY <1>1, <1>2, <1>3, TypeTheorem, PTL DEF RegistrySpec, Models!Spec

-----------------------------------------------------------------------------
(* The plugin host.                                                          *)

\* A set of natural numbers that is not empty has a least one.
LEMMA LeastOf ==
    ASSUME NEW T \in SUBSET Nat, T # {}
    PROVE  \E m \in T : \A k \in T : m <= k
<1>1. IsWellFoundedOn({p \in Nat \X Nat : p[1] < p[2]}, Nat)
    BY NatLessThanWellFounded DEF OpToRel
<1>2. PICK m \in T : \A k \in T : ~ (<<k, m>> \in {p \in Nat \X Nat : p[1] < p[2]})
    BY <1>1, WFMin
<1>3. m \in Nat
    OBVIOUS
<1>4. ASSUME NEW k \in T PROVE m <= k
  <2>1. k \in Nat /\ <<k, m>> \in Nat \X Nat
      BY <1>3
  <2>2. <<k, m>> \in {p \in Nat \X Nat : p[1] < p[2]} <=> k < m
      BY <2>1
  <2>3. ~ (k < m)
      BY <1>2, <2>2
  <2>4. QED BY <1>3, <2>1, <2>3
<1>5. QED BY <1>4

\* Of the numbers up to n that were chosen there is a k-th one.
LEMMA NthExists ==
    ASSUME NEW n \in Nat, NEW P \in SUBSET (1..n), NEW k \in 1..Cardinality(P)
    PROVE  /\ Nth(P, k) \in P
           /\ Cardinality(P \cap 1..Nth(P, k)) = k
<1>1. \A i \in Nat : IsFiniteSet(P \cap 1..i) /\ Cardinality(P \cap 1..i) \in Nat
  <2>1. TAKE i \in Nat
  <2>2. IsFiniteSet(1..i)
      BY FS_Interval
  <2>3. IsFiniteSet(P \cap 1..i)
      BY <2>2, FS_Subset
  <2>4. QED BY <2>3, FS_CardinalityType
<1>2. PICK T : T = {i \in 1..n : Cardinality(P \cap 1..i) >= k}
    OBVIOUS
<1>3. P \cap 1..n = P
    OBVIOUS
<1>4. Cardinality(P) \in Nat /\ k \in Nat /\ k >= 1 /\ k <= Cardinality(P)
    BY <1>1, <1>3
<1>5. n >= 1
  <2>1. CASE n = 0
    <3>1. P = {}
        BY <2>1
    <3>2. QED BY <1>4, <3>1, FS_EmptySet
  <2>2. QED BY <2>1
<1>6. n \in T
    BY <1>2, <1>3, <1>4, <1>5
<1>7. PICK m \in T : \A i \in T : m <= i
  <2>1. T \in SUBSET Nat
      BY <1>2
  <2>2. QED BY <1>6, <2>1, LeastOf
<1>8. m \in 1..n /\ Cardinality(P \cap 1..m) >= k
    BY <1>2
<1>9. Cardinality(P \cap 1..(m - 1)) < k
  <2>1. CASE m = 1
    <3>1. P \cap 1..(m - 1) = {}
        BY <2>1
    <3>2. QED BY <1>4, <3>1, FS_EmptySet
  <2>2. CASE m # 1
    <3>1. m - 1 \in 1..n /\ m - 1 \notin T
        BY <1>7, <1>8, <2>2
    <3>2. ~ (Cardinality(P \cap 1..(m - 1)) >= k)
        BY <1>2, <3>1
    <3>3. Cardinality(P \cap 1..(m - 1)) \in Nat
        BY <1>1, <3>1
    <3>4. QED BY <1>4, <3>2, <3>3
  <2>3. QED BY <2>1, <2>2
<1>10. PICK before : before = P \cap 1..(m - 1)
    OBVIOUS
<1>11. Cardinality(before) < k /\ IsFiniteSet(before) /\ Cardinality(before) \in Nat /\ m \notin before
  <2>1. m - 1 \in Nat /\ m \notin 1..(m - 1)
      BY <1>8
  <2>2. QED BY <1>1, <1>9, <1>10, <2>1
<1>12. m \in P
  <2>1. CASE m \notin P
    <3>1. P \cap 1..m = before
        BY <1>8, <1>10, <2>1
    <3>2. Cardinality(before) >= k
        BY <1>8, <3>1
    <3>3. QED BY <1>4, <1>11, <3>2
  <2>2. QED BY <2>1
<1>13. Cardinality(P \cap 1..m) = k
  <2>1. P \cap 1..m = before \cup {m}
      BY <1>8, <1>10, <1>12
  <2>2. Cardinality(before \cup {m}) = Cardinality(before) + 1
      BY <1>11, FS_AddElement
  <2>3. Cardinality(before \cup {m}) >= k
      BY <1>8, <2>1
  <2>4. Cardinality(before \cup {m}) = k
      BY <1>4, <1>11, <2>2, <2>3
  <2>5. QED BY <2>1, <2>4
<1>14. QED BY <1>12, <1>13 DEF Nth

Items == [plugin : Plugins, goal : Goals]

\* The plugins of a set, in the order of sorted(), with their goals.
LEMMA OrderOf ==
    ASSUME NEW S, NEW goal \in [Plugins -> Goals]
    PROVE  InOrder(S, goal) \in Seq(Items)
<1>1. PICK P : P = {n \in DOMAIN Order : Order[n] \in S}
    OBVIOUS
<1>2. PICK m \in Nat : m = Len(Order) /\ DOMAIN Order = 1..m
    BY PluginAssumption
<1>3. IsFiniteSet(P) /\ Cardinality(P) \in Nat
  <2>1. IsFiniteSet(1..m)
      BY FS_Interval
  <2>2. P \in SUBSET (1..m)
      BY <1>1, <1>2
  <2>3. IsFiniteSet(P)
      BY <2>1, <2>2, FS_Subset
  <2>4. QED BY <2>3, FS_CardinalityType
<1>4. PICK c \in Nat : c = Cardinality(P)
    BY <1>3
<1>5. \A k \in 1..c : Nth(P, k) \in DOMAIN Order
    BY <1>1, <1>2, <1>4, NthExists
<1>6. PICK chosen : chosen = Chosen(Order, P)
    OBVIOUS
<1>7. chosen = [k \in 1..c |-> Order[Nth(P, k)]]
    BY <1>4, <1>6 DEF Chosen
<1>8. \A k \in 1..c : chosen[k] \in Plugins
    BY <1>5, <1>7, PluginAssumption DEF Plugins
<1>9. InOrder(S, goal) = [i \in DOMAIN chosen |-> Item(chosen[i], goal[chosen[i]])]
    BY <1>1, <1>6 DEF InOrder
<1>10. InOrder(S, goal) = [i \in 1..c |-> Item(chosen[i], goal[chosen[i]])]
    BY <1>7, <1>9
<1>11. \A i \in 1..c : Item(chosen[i], goal[chosen[i]]) \in Items
    BY <1>8 DEF Item, Items
<1>12. QED BY <1>4, <1>10, <1>11


\* Every step is one of a call, or of the surroundings.
LEMMA HostSteps ==
    ASSUME [Next]_vars
    PROVE  \/ \E q \in Calls : Step(q)
           \/ \E q \in Calls : ReconcileAll(q) \/ TeardownAll(q)
           \/ \E q \in Calls, p \in Plugins :
                DeleteSpec(q, p) \/ \E s \in {"on", "off"} : UpdateSpec(q, p, s)
           \/ ListPlugins \/ Expire \/ Restart
           \/ \E p \in Plugins :
                \/ \E f \in PackageFiles : ChangePackage(p, f)
                \/ \E f \in SpecFiles : EditSpec(p, f)
           \/ UNCHANGED vars
BY DEF Next

\* A call that is suspended in a plugin has that plugin still to deal with.
Waiting == \A q \in Calls : stage[q] \in {"teardown", "setup", "rollback"} => queue[q] # <<>>

\* An instance's hooks are noted under its own plugin.
HooksNamed == \A p \in Plugins : hooksOf[p] \in {None} \cup (Calls \X {p})

\* The noted hooks of a loaded plugin are registered.
HooksRegistered == \A p \in Plugins : loaded[p] # None /\ hooksOf[p] # None => hooksOf[p] \in registry

PluginOK == TypeOK /\ Waiting /\ HooksNamed /\ HooksRegistered /\ StatusTruthful /\ LoadedServes

\* What a call finds first in its queue.
LEMMA Front ==
    ASSUME TypeOK, NEW q \in Calls, queue[q] # <<>>
    PROVE  /\ This(q) \in Plugins /\ Wanted(q) \in Goals
           /\ Tail(queue[q]) \in Seq(Items)
<1>1. queue[q] \in Seq(Items)
    BY DEF TypeOK, Items
<1>2. Head(queue[q]) \in Items
    BY <1>1
<1>3. QED BY <1>1, <1>2 DEF This, Wanted, Items

\* Init satisfies the invariant.
LEMMA HostInit == Init => PluginOK
<1> SUFFICES ASSUME Init PROVE PluginOK
    OBVIOUS
<1>1. TypeOK
  <2>1. upsets \in 0..MaxUpsets
      BY PluginAssumption DEF Init
  <2>2. pkg \in [Plugins -> PackageFiles] /\ spec \in [Plugins -> SpecFiles]
      BY DEF Init, PackageFiles, SpecFiles
  <2>3. /\ specs \in [Plugins -> {"absent", "off", "on"}]
        /\ stage \in [Calls -> {"new", "next", "teardown", "setup", "rollback", "done"}]
      BY DEF Init
  <2>4. queue \in [Calls -> Seq([plugin : Plugins, goal : Goals])]
      BY DEF Init
  <2>5. /\ rest \in [Calls -> {None} \cup [Plugins -> Phases \cup {None}]]
        /\ status \in [Plugins -> Phases \cup {None}]
      BY DEF Init
  <2>6. QED BY <2>1, <2>2, <2>3, <2>4, <2>5 DEF Init, TypeOK
<1>2. Waiting /\ HooksNamed /\ HooksRegistered /\ StatusTruthful /\ LoadedServes
    BY DEF Init, Waiting, HooksNamed, HooksRegistered, StatusTruthful, LoadedServes
<1>3. QED BY <1>1, <1>2 DEF PluginOK

\* What the two stores give out has its type.
LEMMA ScanTypes ==
    ASSUME TypeOK
    PROVE  /\ Scanned.good \subseteq Plugins
           /\ LoadedSpecs.specs \in [Plugins -> {"absent", "off", "on"}]
<1>1. \A s \in SpecFiles : Parsed(s) \in {"absent", "off", "on"}
    BY DEF SpecFiles, Parsed
<1>2. [p \in Plugins |-> Parsed(spec[p])] \in [Plugins -> {"absent", "off", "on"}]
    BY <1>1 DEF TypeOK
<1>3. QED BY <1>2 DEF TypeOK, Scanned, LoadedSpecs

\* Goal returns a goal that a status can have.
LEMMA GoalTypes ==
    ASSUME NEW installed, NEW s PROVE Goal(installed, s) \in Phases
BY DEF Goal, Phases

\* A call that begins keeps the types of the calls.
LEMMA BeginTypes ==
    ASSUME TypeOK, NEW q \in Calls, NEW items \in Seq(Items), Begin(q, items)
    PROVE  /\ stage' \in [Calls -> {"new", "next", "teardown", "setup", "rollback", "done"}]
           /\ queue' \in [Calls -> Seq([plugin : Plugins, goal : Goals])]
           /\ loop' \in Calls \cup {None}
BY DEF TypeOK, Begin, Items

\* One of a call's own steps keeps the types.
LEMMA StepTypes ==
    ASSUME TypeOK, Waiting, NEW q \in Calls, Step(q)
    PROVE  TypeOK'
<1>0. Phases \subseteq Goals /\ "loaded" \in Phases /\ "failed" \in Phases
    BY DEF Phases, Goals
<1>1. CASE Collect(q)
  <2>1. PICK goal : goal = [p \in Plugins |-> IF rest[q][p] = None THEN "disabled" ELSE rest[q][p]]
      OBVIOUS
  <2>2. rest[q] \in [Plugins -> Phases \cup {None}]
      BY <1>1 DEF TypeOK, Collect
  <2>3. goal \in [Plugins -> Goals]
      BY <2>1, <2>2 DEF Phases, Goals
  <2>4. \A S : InOrder(S, goal) \in Seq(Items)
      BY <2>3, OrderOf
  <2>5. queue' \in [Calls -> Seq([plugin : Plugins, goal : Goals])]
      BY <1>1, <2>1, <2>4 DEF TypeOK, Collect, Items
  <2>6. QED BY <1>1, <2>5 DEF TypeOK, Collect, disk, caches, host
<1>2. CASE Return(q)
    BY <1>2, ScanTypes DEF TypeOK, Return, Await, Refilled, disk, caches, host
<1>3. ASSUME queue[q] # <<>>, Proceed(q)
      PROVE  /\ stage' \in [Calls -> {"new", "next", "teardown", "setup", "rollback", "done"}]
             /\ queue' \in [Calls -> Seq([plugin : Plugins, goal : Goals])]
             /\ loop' \in Calls \cup {None}
    BY <1>3, Front DEF TypeOK, Proceed, Items
<1>4. ASSUME NEW p \in Plugins, NEW phase \in Phases, Save(p, phase)
      PROVE  status' \in [Plugins -> Phases \cup {None}] /\ written' \subseteq Plugins
    BY <1>4 DEF TypeOK, Save
<1>5. CASE Settle(q)
  <2>1. This(q) \in Plugins /\ Wanted(q) \in Goals
      BY <1>5, Front DEF Settle
  <2>2. status' \in [Plugins -> Phases \cup {None}] /\ written' \subseteq Plugins
      BY <1>4, <1>5, <2>1 DEF Settle, Goals, TypeOK
  <2>3. QED BY <1>3, <1>5, <2>2 DEF TypeOK, Settle, disk, caches, host
<1>6. CASE UnloadBegin(q)
    BY <1>6 DEF TypeOK, UnloadBegin, UnregisterSource, UnregisterPluginTargets, Await,
                disk, caches, host
<1>7. CASE UnloadEnd(q)
  <2>1. registry' \subseteq Instances
      BY <1>7 DEF TypeOK, UnloadEnd, Rebuilt
  <2>2. QED BY <1>7, <2>1 DEF TypeOK, UnloadEnd, disk, caches
<1>8. CASE LoadBegin(q)
    BY <1>8 DEF TypeOK, LoadBegin, Await, disk, caches, host
<1>9. CASE ImportFails(q) \/ SetupRaises(q) \/ RollbackDone(q)
  <2>1. queue[q] # <<>> /\ Save(This(q), "failed") /\ Proceed(q) /\ UNCHANGED <<disk, caches, host, rest>>
      BY <1>9 DEF Waiting, ImportFails, SetupRaises, RollbackDone
  <2>2. status' \in [Plugins -> Phases \cup {None}] /\ written' \subseteq Plugins
      BY <1>0, <1>4, <2>1, Front
  <2>3. QED BY <1>3, <2>1, <2>2 DEF TypeOK, disk, caches, host
<1>10. CASE SetupDone(q)
  <2>1. queue[q] # <<>> /\ This(q) \in Plugins /\ <<q, This(q)>> \in Instances
      BY <1>10, Front DEF Waiting, SetupDone, Instances
  <2>2. status' \in [Plugins -> Phases \cup {None}] /\ written' \subseteq Plugins
      BY <1>0, <1>4, <1>10, <2>1 DEF SetupDone
  <2>3. /\ loaded' \in [Plugins -> Instances \cup {None}]
        /\ hooksOf' \in [Plugins -> Instances \cup {None}]
        /\ tools' \in [Plugins -> Instances \cup {None}]
        /\ registry' \subseteq Instances /\ targets' \subseteq Plugins
    <3>1. /\ RegisterPluginSlots(This(q)) /\ RegisterHooks(This(q), <<q, This(q)>>)
          /\ RegisterTools(This(q), <<q, This(q)>>)
          /\ loaded' = [loaded EXCEPT ![This(q)] = <<q, This(q)>>]
        BY <1>10 DEF SetupDone
    <3>2. loaded' \in [Plugins -> Instances \cup {None}]
        BY <2>1, <3>1 DEF TypeOK
    <3>3. hooksOf' \in [Plugins -> Instances \cup {None}] /\ registry' \subseteq Instances
        BY <2>1, <3>1 DEF TypeOK, RegisterHooks
    <3>4. tools' \in [Plugins -> Instances \cup {None}] /\ targets' \subseteq Plugins
        BY <2>1, <3>1 DEF TypeOK, RegisterPluginSlots, RegisterTools
    <3>5. QED BY <3>2, <3>3, <3>4
  <2>4. Proceed(q) /\ UNCHANGED <<disk, caches, rest>>
      BY <1>10 DEF SetupDone
  <2>5. QED BY <1>3, <2>1, <2>2, <2>3, <2>4 DEF TypeOK, disk, caches
<1>11. CASE TargetsRefused(q)
    BY <1>11 DEF TypeOK, TargetsRefused, UnregisterPluginTargets, Await, disk, caches
<1>12. CASE RegistrationRaises(q)
  <2>1. queue[q] # <<>> /\ This(q) \in Plugins /\ <<q, This(q)>> \in Instances
      BY <1>12, Front DEF Waiting, RegistrationRaises, Instances
  <2>2. status' \in [Plugins -> Phases \cup {None}] /\ written' \subseteq Plugins
      BY <1>0, <1>4, <1>12, <2>1 DEF RegistrationRaises
  <2>3. PICK i \in Instances :
            /\ hooksOf' = hooksOf \/ hooksOf' = [hooksOf EXCEPT ![This(q)] = i]
            /\ tools' = tools \/ tools' = [tools EXCEPT ![This(q)] = i]
            /\ registry' = registry \/ registry' = registry \cup {i}
            /\ targets' = targets \cup {This(q)}
    <3>1. PICK i \in Instances : i = <<q, This(q)>>
        BY <2>1
    <3>2. targets' = targets \cup {This(q)}
        BY <1>12 DEF RegistrationRaises, RegisterPluginSlots
    <3>3. \/ UNCHANGED <<registry, hooksOf, tools>>
          \/ RegisterHooks(This(q), i) /\ UNCHANGED tools
          \/ RegisterHooks(This(q), i) /\ RegisterTools(This(q), i)
        BY <1>12, <3>1 DEF RegistrationRaises
    <3>4. QED BY <3>2, <3>3 DEF RegisterHooks, RegisterTools
  <2>4. hooksOf' \in [Plugins -> Instances \cup {None}]
      BY <2>1, <2>3 DEF TypeOK
  <2>5. tools' \in [Plugins -> Instances \cup {None}]
      BY <2>1, <2>3 DEF TypeOK
  <2>6. registry' \subseteq Instances /\ targets' \subseteq Plugins
      BY <2>1, <2>3 DEF TypeOK
  <2>7. Proceed(q) /\ UNCHANGED <<disk, caches, loaded, rest>>
      BY <1>12 DEF RegistrationRaises
  <2>8. QED BY <1>3, <2>1, <2>2, <2>4, <2>5, <2>6, <2>7 DEF TypeOK, disk, caches
<1>13. QED
    BY <1>1, <1>2, <1>5, <1>6, <1>7, <1>8, <1>9, <1>10, <1>11, <1>12 DEF Step


\* A step of the surroundings, or a call that begins, keeps the types.
LEMMA OtherTypes ==
    ASSUME TypeOK, [Next]_vars, ~ \E q \in Calls : Step(q)
    PROVE  TypeOK'
<1>1. CASE \E q \in Calls : ReconcileAll(q)
  <2>1. PICK q \in Calls : ReconcileAll(q)
      BY <1>1
  <2>2. PICK failed : failed = [p \in Plugins |-> "failed"]
      OBVIOUS
  <2>3. failed \in [Plugins -> Goals]
      BY <2>2 DEF Goals, Phases
  <2>4. \A S : InOrder(S, failed) \in Seq(Items)
      BY <2>3, OrderOf
  <2>5. \A S, T : InOrder(S, failed) \o InOrder(T, failed) \in Seq(Items)
      BY <2>4
  <2>6. \E items \in Seq(Items) : Begin(q, items)
      BY <2>1, <2>2, <2>5 DEF ReconcileAll
  <2>7. /\ stage' \in [Calls -> {"new", "next", "teardown", "setup", "rollback", "done"}]
        /\ queue' \in [Calls -> Seq([plugin : Plugins, goal : Goals])]
        /\ loop' \in Calls \cup {None}
      BY <2>6, BeginTypes
  <2>8. rest' \in [Calls -> {None} \cup [Plugins -> Phases \cup {None}]]
    <3>1. PICK plan : plan =
            [p \in Plugins |->
                IF p \in Scanned.bad \cup (LoadedSpecs.bad \ Scanned.bad) THEN "failed"
                ELSE IF p \in Scanned.good \/ LoadedSpecs.specs[p] # "absent"
                THEN Goal(p \in Scanned.good, LoadedSpecs.specs[p])
                ELSE None]
        OBVIOUS
    <3>2. rest' = [rest EXCEPT ![q] = plan]
        BY <2>1, <3>1 DEF ReconcileAll
    <3>3. plan \in [Plugins -> Phases \cup {None}]
      <4>1. \A installed, s : Goal(installed, s) \in Phases
          BY GoalTypes
      <4>2. "failed" \in Phases
          BY DEF Phases
      <4>3. QED BY <3>1, <4>1, <4>2
    <3>4. QED BY <3>2, <3>3 DEF TypeOK
  <2>9. packages' \subseteq Plugins /\ specs' \in [Plugins -> {"absent", "off", "on"}]
        /\ packagesFresh' \in BOOLEAN /\ specsFresh' \in BOOLEAN
      BY <2>1, ScanTypes DEF ReconcileAll, Refilled
  <2>10. QED BY <2>1, <2>7, <2>8, <2>9 DEF TypeOK, ReconcileAll, disk, host
<1>2. CASE \E q \in Calls : TeardownAll(q)
  <2>1. PICK q \in Calls : TeardownAll(q)
      BY <1>2
  <2>2. PICK gone : gone = [p \in Plugins |-> "gone"]
      OBVIOUS
  <2>3. gone \in [Plugins -> Goals]
      BY <2>2 DEF Goals
  <2>4. \A S : InOrder(S, gone) \in Seq(Items)
      BY <2>3, OrderOf
  <2>5. \E items \in Seq(Items) : Begin(q, items)
      BY <2>1, <2>2, <2>4 DEF TeardownAll
  <2>6. QED BY <2>1, <2>5, BeginTypes DEF TypeOK, TeardownAll, disk, caches, host
<1>3. CASE \E q \in Calls, p \in Plugins :
             DeleteSpec(q, p) \/ \E s \in {"on", "off"} : UpdateSpec(q, p, s)
  <2>1. PICK q \in Calls, p \in Plugins :
             DeleteSpec(q, p) \/ \E s \in {"on", "off"} : UpdateSpec(q, p, s)
      BY <1>3
  <2>2. \A installed, s : <<Item(p, Goal(installed, s))>> \in Seq(Items)
    <3>1. \A installed, s : Goal(installed, s) \in Goals
        BY GoalTypes DEF Goals
    <3>2. QED BY <3>1 DEF Item, Items
  <2>3. \E items \in Seq(Items) : Begin(q, items)
      BY <2>1, <2>2 DEF DeleteSpec, UpdateSpec
  <2>4. spec' \in [Plugins -> SpecFiles]
      BY <2>1 DEF TypeOK, DeleteSpec, UpdateSpec, WriteSpec, EraseSpec, SpecFiles
  <2>5. UNCHANGED <<pkg, upsets, status, caches, host, rest, written>>
      BY <2>1 DEF DeleteSpec, UpdateSpec
  <2>6. QED BY <2>3, <2>4, <2>5, BeginTypes DEF TypeOK, caches, host
<1>4. CASE ListPlugins
    BY <1>4, ScanTypes DEF TypeOK, ListPlugins, Refilled, disk, host
<1>5. CASE Expire
    BY <1>5 DEF TypeOK, Expire, disk, host
<1>6. CASE Restart
  <2>1. upsets' \in 0..MaxUpsets
      BY <1>6, PluginAssumption DEF TypeOK, Restart
  <2>2. queue' \in [Calls -> Seq([plugin : Plugins, goal : Goals])]
      BY <1>6 DEF Restart
  <2>3. /\ stage' \in [Calls -> {"new", "next", "teardown", "setup", "rollback", "done"}]
        /\ rest' \in [Calls -> {None} \cup [Plugins -> Phases \cup {None}]]
        /\ loop' \in Calls \cup {None}
      BY <1>6 DEF Restart
  <2>4. /\ specs' \in [Plugins -> {"absent", "off", "on"}]
        /\ packages' \subseteq Plugins /\ packagesFresh' \in BOOLEAN /\ specsFresh' \in BOOLEAN
      BY <1>6 DEF Restart
  <2>5. QED BY <1>6, <2>1, <2>2, <2>3, <2>4 DEF TypeOK, Restart
<1>7. CASE \E p \in Plugins : \E f \in PackageFiles : ChangePackage(p, f)
  <2>1. upsets' \in 0..MaxUpsets
      BY <1>7, PluginAssumption DEF TypeOK, ChangePackage
  <2>2. QED BY <1>7, <2>1 DEF TypeOK, ChangePackage, caches, host
<1>8. CASE \E p \in Plugins : \E f \in SpecFiles : EditSpec(p, f)
  <2>1. upsets' \in 0..MaxUpsets
      BY <1>8, PluginAssumption DEF TypeOK, EditSpec
  <2>2. QED BY <1>8, <2>1 DEF TypeOK, EditSpec, caches, host
<1>9. CASE UNCHANGED vars
    BY <1>9 DEF TypeOK, vars, disk, caches, host
<1>10. QED
    BY <1>1, <1>2, <1>3, <1>4, <1>5, <1>6, <1>7, <1>8, <1>9, HostSteps

\* Every step keeps the types.
LEMMA HostTypes ==
    ASSUME TypeOK, Waiting, [Next]_vars PROVE TypeOK'
BY StepTypes, OtherTypes

\* Begin leaves a call's stage at "next", and every other call alone.
LEMMA OthersCalls ==
    ASSUME TypeOK, [Next]_vars, ~ (\E q \in Calls : Step(q)), ~ Restart
    PROVE  /\ \A q \in Calls : \/ stage'[q] = stage[q] /\ queue'[q] = queue[q]
                               \/ stage[q] = "new" /\ stage'[q] = "next"
           /\ UNCHANGED <<host, status, written>>
<1>1. ASSUME NEW q \in Calls, NEW items, Begin(q, items)
      PROVE  \A c \in Calls : \/ stage'[c] = stage[c] /\ queue'[c] = queue[c]
                              \/ stage[c] = "new" /\ stage'[c] = "next"
    BY <1>1 DEF TypeOK, Begin
<1>2. CASE \E q \in Calls : ReconcileAll(q) \/ TeardownAll(q)
    BY <1>1, <1>2 DEF ReconcileAll, TeardownAll
<1>3. CASE \E q \in Calls, p \in Plugins :
             DeleteSpec(q, p) \/ \E s \in {"on", "off"} : UpdateSpec(q, p, s)
    BY <1>1, <1>3 DEF DeleteSpec, UpdateSpec
<1>4. CASE ListPlugins \/ Expire
    BY <1>4 DEF ListPlugins, Expire
<1>5. CASE \E p \in Plugins :
             \/ \E f \in PackageFiles : ChangePackage(p, f)
             \/ \E f \in SpecFiles : EditSpec(p, f)
    BY <1>5 DEF ChangePackage, EditSpec
<1>6. CASE UNCHANGED vars
    BY <1>6 DEF vars
<1>7. QED BY <1>2, <1>3, <1>4, <1>5, <1>6, HostSteps


\* A step of one call leaves the others where they are, and a call that was not
\* suspended in a teardown does not leave one.
LEMMA StepCalls ==
    ASSUME TypeOK, NEW q \in Calls, Step(q)
    PROVE  /\ \A c \in Calls \ {q} : stage'[c] = stage[c] /\ queue'[c] = queue[c]
           /\ stage[q] \in {"next", "teardown", "setup", "rollback"}
           /\ stage[q] = "teardown" => UnloadEnd(q)
<1>1. CASE Collect(q) \/ Return(q) \/ Settle(q)
    BY <1>1 DEF TypeOK, Collect, Return, Settle, Await, Proceed
<1>2. CASE UnloadBegin(q) \/ UnloadEnd(q) \/ LoadBegin(q) \/ ImportFails(q)
    BY <1>2 DEF TypeOK, UnloadBegin, UnloadEnd, LoadBegin, ImportFails, Await, Proceed
<1>3. CASE SetupRaises(q) \/ SetupDone(q)
    BY <1>3 DEF TypeOK, SetupRaises, SetupDone, Proceed
<1>4. CASE TargetsRefused(q) \/ RollbackDone(q) \/ RegistrationRaises(q)
    BY <1>4 DEF TypeOK, TargetsRefused, RollbackDone, RegistrationRaises, Await, Proceed
<1>5. QED BY <1>1, <1>2, <1>3, <1>4 DEF Step

\* The steps of a call that leave the host as it is.
LEMMA HostIdle ==
    ASSUME NEW q \in Calls,
           \/ Collect(q) \/ Return(q) \/ Settle(q) \/ LoadBegin(q)
           \/ ImportFails(q) \/ SetupRaises(q) \/ RollbackDone(q)
    PROVE  UNCHANGED host
BY DEF Collect, Return, Settle, LoadBegin, ImportFails, SetupRaises, RollbackDone

\* Waiting is preserved.
LEMMA NextWaiting ==
    ASSUME TypeOK, Waiting, [Next]_vars PROVE Waiting'
<1>1. CASE \E q \in Calls : Step(q)
  <2>1. PICK q \in Calls : Step(q)
      BY <1>1
  <2>2. \A c \in Calls \ {q} : stage'[c] = stage[c] /\ queue'[c] = queue[c]
      BY <2>1, StepCalls
  <2>3. stage'[q] \in {"teardown", "setup", "rollback"} => queue'[q] # <<>>
    <3>1. CASE Collect(q) \/ Return(q) \/ Settle(q) \/ UnloadEnd(q) \/ ImportFails(q)
        BY <3>1 DEF TypeOK, Collect, Return, Settle, UnloadEnd, ImportFails, Await, Proceed
    <3>2. CASE SetupRaises(q) \/ SetupDone(q) \/ RollbackDone(q) \/ RegistrationRaises(q)
        BY <3>2 DEF TypeOK, SetupRaises, SetupDone, RollbackDone, RegistrationRaises, Proceed
    <3>3. CASE UnloadBegin(q) \/ LoadBegin(q) \/ TargetsRefused(q)
        BY <3>3 DEF Waiting, UnloadBegin, LoadBegin, TargetsRefused
    <3>4. QED BY <2>1, <3>1, <3>2, <3>3 DEF Step
  <2>4. QED BY <2>2, <2>3 DEF Waiting
<1>2. CASE Restart
    BY <1>2 DEF Restart, Waiting
<1>3. CASE ~ (\E q \in Calls : Step(q)) /\ ~ Restart
    BY <1>3, OthersCalls DEF Waiting
<1>4. QED BY <1>1, <1>2, <1>3

\* HooksNamed and HooksRegistered are preserved.
LEMMA NextHooks ==
    ASSUME TypeOK, Waiting, HooksNamed, HooksRegistered, [Next]_vars
    PROVE  HooksNamed' /\ HooksRegistered'
<1>1. CASE \E q \in Calls : Step(q)
  <2>1. PICK q \in Calls : Step(q)
      BY <1>1
  <2>2. CASE UNCHANGED <<loaded, hooksOf, registry>>
      BY <2>2 DEF HooksNamed, HooksRegistered
  <2>3. CASE UnloadEnd(q)
    <3>1. PICK p : p = This(q)
        OBVIOUS
    <3>2. /\ hooksOf' = [hooksOf EXCEPT ![p] = None] /\ loaded' = [loaded EXCEPT ![p] = None]
          /\ registry' = {hooksOf[r] : r \in {r \in Plugins \ {p} : loaded[r] # None}} \ {None}
        BY <2>3, <3>1 DEF UnloadEnd, Rebuilt
    <3>3. HooksNamed'
        BY <3>2 DEF TypeOK, HooksNamed
    <3>4. \A r \in Plugins : loaded'[r] # None /\ hooksOf'[r] # None => hooksOf'[r] \in registry'
        BY <3>2 DEF TypeOK
    <3>5. QED BY <3>3, <3>4 DEF HooksRegistered
  <2>4. CASE SetupDone(q) \/ RegistrationRaises(q)
    <3>1. PICK p : p = This(q)
        OBVIOUS
    <3>2. p \in Plugins /\ <<q, p>> \in Calls \X {p}
        BY <2>4, <3>1, Front DEF Waiting, SetupDone, RegistrationRaises
    <3>3. /\ \/ UNCHANGED <<registry, hooksOf>>
             \/ /\ registry' = registry \cup {<<q, p>>}
                /\ hooksOf' = [hooksOf EXCEPT ![p] = <<q, p>>]
          /\ \/ UNCHANGED loaded
             \/ /\ loaded' = [loaded EXCEPT ![p] = <<q, p>>]
                /\ registry' = registry \cup {<<q, p>>}
                /\ hooksOf' = [hooksOf EXCEPT ![p] = <<q, p>>]
        BY <2>4, <3>1 DEF SetupDone, RegistrationRaises, RegisterHooks
    <3>4. HooksNamed'
        BY <3>2, <3>3 DEF TypeOK, HooksNamed
    <3>5. \A r \in Plugins : loaded'[r] # None /\ hooksOf'[r] # None => hooksOf'[r] \in registry'
        BY <3>2, <3>3 DEF TypeOK, HooksRegistered
    <3>6. QED BY <3>4, <3>5 DEF HooksRegistered
  <2>5. CASE UnloadBegin(q) \/ TargetsRefused(q)
      BY <2>2, <2>5 DEF UnloadBegin, TargetsRefused
  <2>6. QED BY <2>1, <2>2, <2>3, <2>4, <2>5, HostIdle DEF Step, host
<1>2. CASE Restart
    BY <1>2 DEF Restart, HooksNamed, HooksRegistered
<1>3. CASE ~ (\E q \in Calls : Step(q)) /\ ~ Restart
    BY <1>3, OthersCalls DEF host, HooksNamed, HooksRegistered
<1>4. QED BY <1>1, <1>2, <1>3


\* StatusTruthful is preserved: whoever unloads a plugin goes on with it, and
\* leaves it with a status that does not say loaded, or loaded.
LEMMA NextStatus ==
    ASSUME TypeOK, Waiting, StatusTruthful, [Next]_vars PROVE StatusTruthful'
<1>1. CASE \E q \in Calls : Step(q)
  <2>1. PICK q \in Calls : Step(q)
      BY <1>1
  <2> SUFFICES ASSUME NEW p \in Plugins, p \in written', status'[p] = "loaded", loaded'[p] = None
               PROVE  \E c \in Calls : Works(c, p)'
      BY DEF StatusTruthful
  <2>2. \A c \in Calls \ {q} : stage'[c] = stage[c] /\ queue'[c] = queue[c]
      BY <2>1, StepCalls
  <2>3. \A c \in Calls \ {q} : Works(c, p) => Works(c, p)'
      BY <2>2 DEF Works, This
  <2>4. CASE Collect(q) \/ Return(q)
    <3>1. p \in written /\ status[p] = "loaded" /\ loaded[p] = None /\ queue[q] = <<>>
        BY <2>4 DEF Collect, Return, host
    <3>2. QED BY <2>3, <3>1 DEF StatusTruthful, Works
  <2>5. CASE UnloadBegin(q) \/ LoadBegin(q) \/ TargetsRefused(q)
    <3>1. p \in written /\ status[p] = "loaded" /\ loaded[p] = None
        BY <2>5 DEF UnloadBegin, LoadBegin, TargetsRefused, host
    <3>2. Works(q, p) => Works(q, p)'
        BY <2>5 DEF TypeOK, UnloadBegin, LoadBegin, TargetsRefused, Await, Works, This
    <3>3. QED BY <2>3, <3>1, <3>2 DEF StatusTruthful
  <2>6. CASE UnloadEnd(q)
    <3>1. stage'[q] = "next" /\ queue'[q] = queue[q] /\ queue[q] # <<>>
        BY <2>6 DEF TypeOK, Waiting, UnloadEnd
    <3>2. p = This(q) => Works(q, p)'
        BY <3>1 DEF Works, This
    <3>3. p # This(q) => p \in written /\ status[p] = "loaded" /\ loaded[p] = None
        BY <2>6, Front DEF TypeOK, UnloadEnd
    <3>4. Works(q, p) => p = This(q)
        BY DEF Works
    <3>5. QED BY <2>3, <3>2, <3>3, <3>4 DEF StatusTruthful
  <2>7. CASE Settle(q)
    <3>1. queue[q] # <<>> /\ This(q) \in Plugins
        BY <2>7, Front DEF Settle
    <3>2. p # This(q) /\ p \in written /\ status[p] = "loaded" /\ loaded[p] = None
        BY <2>7, <3>1 DEF TypeOK, Settle, Save, host
    <3>3. QED BY <2>3, <3>2 DEF StatusTruthful, Works
  <2>8. CASE ImportFails(q) \/ SetupRaises(q) \/ RollbackDone(q) \/ RegistrationRaises(q)
    <3>1. queue[q] # <<>> /\ This(q) \in Plugins
        BY <2>8, Front DEF Waiting, ImportFails, SetupRaises, RollbackDone, RegistrationRaises
    <3>2. Save(This(q), "failed") /\ UNCHANGED loaded
        BY <2>8 DEF ImportFails, SetupRaises, RollbackDone, RegistrationRaises, host
    <3>3. p # This(q) /\ p \in written /\ status[p] = "loaded" /\ loaded[p] = None
        BY <3>1, <3>2 DEF TypeOK, Save
    <3>4. QED BY <2>3, <3>3 DEF StatusTruthful, Works
  <2>9. CASE SetupDone(q)
    <3>1. This(q) \in Plugins /\ <<q, This(q)>> # None
        BY <2>9, Front, PluginAssumption DEF Waiting, SetupDone, Instances
    <3>2. p # This(q)
        BY <2>9, <3>1 DEF TypeOK, SetupDone
    <3>3. p \in written /\ status[p] = "loaded" /\ loaded[p] = None
        BY <2>9, <3>1, <3>2 DEF TypeOK, SetupDone, Save
    <3>4. QED BY <2>3, <3>2, <3>3 DEF StatusTruthful, Works
  <2>10. QED BY <2>1, <2>4, <2>5, <2>6, <2>7, <2>8, <2>9 DEF Step
<1>2. CASE Restart
    BY <1>2 DEF Restart, StatusTruthful
<1>3. CASE ~ (\E q \in Calls : Step(q)) /\ ~ Restart
  <2>1. \A q \in Calls, p \in Plugins : Works(q, p) => Works(q, p)'
      BY <1>3, OthersCalls DEF Works, This
  <2>2. UNCHANGED <<loaded, status, written>>
      BY <1>3, OthersCalls DEF host
  <2>3. QED BY <2>1, <2>2 DEF StatusTruthful
<1>4. QED BY <1>1, <1>2, <1>3

\* LoadedServes is preserved: a load leaves everything it registers, and an
\* unloading takes only its own plugin's.
LEMMA NextServes ==
    ASSUME TypeOK, Waiting, LoadedServes, [Next]_vars PROVE LoadedServes'
<1>1. CASE \E q \in Calls : Step(q)
  <2>1. PICK q \in Calls : Step(q)
      BY <1>1
  <2> SUFFICES ASSUME NEW p \in Plugins \ Clumsy, loaded'[p] # None,
                      \A c \in Calls : Works(c, p)' => stage'[c] # "teardown"
               PROVE  /\ hooksOf'[p] = loaded'[p] /\ loaded'[p] \in registry'
                      /\ tools'[p] = loaded'[p] /\ p \in targets'
      BY DEF LoadedServes
  <2>2. \A c \in Calls \ {q} : stage'[c] = stage[c] /\ queue'[c] = queue[c]
      BY <2>1, StepCalls
  <2>3. \A c \in Calls \ {q} : Works(c, p) => stage[c] # "teardown"
      BY <2>2 DEF Works, This
  <2>4. (Works(q, p) => stage[q] # "teardown") /\ loaded[p] # None
        => /\ hooksOf[p] = loaded[p] /\ loaded[p] \in registry
           /\ tools[p] = loaded[p] /\ p \in targets
      BY <2>3 DEF LoadedServes
  <2>5. CASE UnloadEnd(q)
    <3>1. queue[q] # <<>> /\ This(q) \in Plugins
        BY <2>5, Front DEF Waiting, UnloadEnd
    <3>2. p # This(q)
        BY <2>5, <3>1 DEF TypeOK, UnloadEnd
    <3>3. /\ hooksOf[p] = loaded[p] /\ loaded[p] \in registry
          /\ tools[p] = loaded[p] /\ p \in targets /\ loaded[p] # None
        BY <2>4, <2>5, <3>1, <3>2 DEF TypeOK, UnloadEnd, Works
    <3>4. hooksOf'[p] = hooksOf[p] /\ loaded'[p] = loaded[p] /\ tools'[p] = tools[p] /\ p \in targets'
        BY <2>5, <3>1, <3>2, <3>3 DEF TypeOK, UnloadEnd
    <3>5. hooksOf[p] \in registry'
        BY <2>5, <3>2, <3>3 DEF UnloadEnd, Rebuilt
    <3>6. QED BY <3>3, <3>4, <3>5
  <2>6. CASE UnloadBegin(q)
    <3>1. queue[q] # <<>> /\ This(q) \in Plugins
        BY <2>6, Front DEF UnloadBegin
    <3>2. stage'[q] = "teardown" /\ (p = This(q) => Works(q, p)')
        BY <2>6, <3>1 DEF TypeOK, UnloadBegin, Await, Works, This
    <3>3. p # This(q) /\ stage[q] # "teardown" /\ loaded[p] # None
        BY <2>6, <3>2 DEF UnloadBegin
    <3>4. QED
        BY <2>4, <2>6, <3>3
           DEF TypeOK, UnloadBegin, UnregisterSource, UnregisterPluginTargets
  <2>7. CASE SetupDone(q)
    <3>1. queue[q] # <<>> /\ This(q) \in Plugins /\ stage[q] # "teardown"
        BY <2>7, Front DEF Waiting, SetupDone
    <3>2. CASE p = This(q)
        BY <2>7, <3>1, <3>2
           DEF TypeOK, SetupDone, RegisterHooks, RegisterTools, RegisterPluginSlots
    <3>3. CASE p # This(q)
        BY <2>4, <2>7, <3>1, <3>3
           DEF TypeOK, SetupDone, RegisterHooks, RegisterTools, RegisterPluginSlots
    <3>4. QED BY <3>2, <3>3
  <2>8. CASE TargetsRefused(q) \/ RegistrationRaises(q)
    <3>1. This(q) \in Clumsy /\ stage[q] # "teardown" /\ p # This(q)
        BY <2>8 DEF TargetsRefused, RegistrationRaises
    <3>2. CASE TargetsRefused(q)
        BY <2>4, <3>1, <3>2 DEF TargetsRefused, UnregisterPluginTargets
    <3>3. CASE RegistrationRaises(q)
        BY <2>4, <3>1, <3>3
           DEF TypeOK, RegistrationRaises, RegisterHooks, RegisterTools, RegisterPluginSlots
    <3>4. QED BY <2>8, <3>2, <3>3
  <2>9. CASE UNCHANGED host /\ ~ UnloadEnd(q)
      BY <2>1, <2>4, <2>9, StepCalls DEF host
  <2>10. QED BY <2>1, <2>5, <2>6, <2>7, <2>8, <2>9, HostIdle DEF Step
<1>2. CASE Restart
    BY <1>2 DEF Restart, LoadedServes
<1>3. CASE ~ (\E q \in Calls : Step(q)) /\ ~ Restart
  <2>1. \A q \in Calls, p \in Plugins :
            (Works(q, p) /\ stage[q] = "teardown") => Works(q, p)' /\ stage'[q] = "teardown"
      BY <1>3, OthersCalls DEF Works, This
  <2>2. UNCHANGED <<loaded, hooksOf, registry, tools, targets>>
      BY <1>3, OthersCalls DEF host
  <2>3. QED BY <2>1, <2>2 DEF LoadedServes
<1>4. QED BY <1>1, <1>2, <1>3


\* Every step keeps the invariant.
LEMMA HostNext ==
    ASSUME PluginOK, [Next]_vars PROVE PluginOK'
BY HostTypes, NextWaiting, NextHooks, NextStatus, NextServes DEF PluginOK

\* The invariant holds in every reachable state.
LEMMA HostInvariant == Spec => []PluginOK
<1>1. PluginOK /\ [Next]_vars => PluginOK'
    BY HostNext
<1>2. QED BY HostInit, <1>1, PTL DEF Spec

\* However the calls of the reconciler overlap, a status that says loaded is true
\* and a loaded plugin has its hooks, tools and model targets (reconcile_all,
\* reconcile_one, load_plugin, unload_plugin).
THEOREM LoadedForRealTheorem == Spec => []LoadedForReal
<1>1. PluginOK => LoadedForReal
    BY DEF PluginOK, LoadedForReal
<1>2. QED BY HostInvariant, <1>1, PTL

\* Hooks come with a load, and none of an unloaded plugin's stay
\* (_rebuild_hook_registry).
THEOREM HooksFollowLoadsTheorem == Spec => HooksFollowLoads
<1>1. ASSUME PluginOK, [Next]_vars PROVE [KeepsHooks]_vars
  <2>1. CASE \E q \in Calls : Step(q)
    <3>1. PICK q \in Calls : Step(q)
        BY <2>1
    <3>2. CASE UNCHANGED <<loaded, registry>>
        BY <3>2 DEF KeepsHooks
    <3>3. CASE UnloadEnd(q)
      <4>1. queue[q] # <<>> /\ This(q) \in Plugins
          BY <1>1, <3>3, Front DEF PluginOK, Waiting, UnloadEnd
      <4>2. \A i \in registry' :
                \E r \in Plugins \ {This(q)} : loaded[r] # None /\ i = hooksOf[r] /\ i # None
          BY <3>3 DEF UnloadEnd, Rebuilt
      <4>3. registry' \subseteq registry
          BY <1>1, <4>2 DEF PluginOK, HooksRegistered
      <4>4. \A i \in registry' : i[2] # This(q)
          BY <1>1, <4>2 DEF PluginOK, HooksNamed
      <4>5. \A p \in Plugins : loaded[p] # None /\ loaded'[p] = None => p = This(q)
          BY <1>1, <3>3 DEF PluginOK, TypeOK, UnloadEnd
      <4>6. QED BY <4>3, <4>4, <4>5 DEF KeepsHooks
    <3>4. CASE SetupDone(q) \/ RegistrationRaises(q)
      <4>1. queue[q] # <<>> /\ This(q) \in Plugins /\ stage[q] = "setup"
          BY <1>1, <3>4, Front DEF PluginOK, Waiting, SetupDone, RegistrationRaises
      <4>2. \A i \in registry' \ registry : i = <<q, This(q)>>
          BY <3>4 DEF SetupDone, RegistrationRaises, RegisterHooks
      <4>3. <<q, This(q)>> # None
          BY <4>1, PluginAssumption DEF Instances
      <4>4. \A p \in Plugins : loaded[p] # None => loaded'[p] # None
          BY <1>1, <3>4, <4>1, <4>3 DEF PluginOK, TypeOK, SetupDone, RegistrationRaises
      <4>5. QED BY <4>1, <4>2, <4>4 DEF KeepsHooks
    <3>5. CASE UnloadBegin(q) \/ TargetsRefused(q)
        BY <3>2, <3>5 DEF UnloadBegin, TargetsRefused
    <3>6. QED BY <3>1, <3>2, <3>3, <3>4, <3>5, HostIdle DEF Step, host
  <2>2. CASE Restart
      BY <2>2 DEF Restart, KeepsHooks
  <2>3. CASE ~ (\E q \in Calls : Step(q)) /\ ~ Restart
    <3>1. UNCHANGED <<loaded, registry>>
        BY <1>1, <2>3, OthersCalls DEF PluginOK, host
    <3>2. QED BY <3>1 DEF KeepsHooks
  <2>4. QED BY <2>1, <2>2, <2>3
<1>2. QED BY HostInvariant, <1>1, PTL DEF Spec, HooksFollowLoads

=============================================================================
