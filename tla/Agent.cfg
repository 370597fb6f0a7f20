SPECIFICATION Spec
CONSTANTS
    p1 = p1
    k1 = k1
    k2 = k2
    None = None
    Plugins = {p1}
    Builtin <- MCBuiltin
    PluginTools <- MCPluginTools
    Enabled <- MCEnabled
    WorldSkills = {k1}
    WorldAgents = {}
    Available = {}
    Bridge = TRUE
    MaxRounds = 1
    Results <- MCResults
    MaxCalls = 2
    Asked <- MCAsked
INVARIANTS
    CallsSettled
    HandlersPermitted
PROPERTY
    LoopEnds
CHECK_DEADLOCK FALSE
