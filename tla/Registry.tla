------------------------------ MODULE Registry ------------------------------
(* The model registry under names of its own, beside which a module may     *)
(* extend another component.                                                *)

CONSTANTS Providers, Presets, Bindings, Targets, Edits, NoEntry

VARIABLES files, active, cache, fresh, catalog, step, entity, todo, candidate,
          read, lock, turn, reply, disturbed

Models == INSTANCE ModelRegistry
    WITH Calls <- Edits, None <- NoEntry, targets <- catalog, stage <- step, loop <- turn

\* An id is of one kind, and NoEntry is neither an entry nor an id nor a call.
ASSUME RegistryAssumption ==
    /\ Providers \cap Presets = {} /\ Providers \cap Bindings = {} /\ Presets \cap Bindings = {}
    /\ NoEntry \notin Models!Entries \cup Models!Ids \cup Edits

RegistrySpec == Models!Spec

\* active_registry never has a preset without its provider, a binding without
\* its preset or a target bound twice (reload_now).
ActiveConsistent == Models!ActiveConsistent

\* As long as calls come one at a time and files can be written, the runtime uses
\* what the files say once a call has returned (_apply_candidate, reload).
SerialCallsApply == Models!SerialCallsApply
=============================================================================
