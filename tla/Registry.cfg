SPECIFICATION RegistrySpec
CONSTANTS
    v1 = v1  m1 = m1  b1 = b1  b2 = b2  t1 = t1
    q1 = q1  q2 = q2  q3 = q3  q4 = q4
    Providers = {v1}
    Presets = {m1}
    Bindings = {b1, b2}
    Targets = {t1}
    Edits <- MCEdits
    NoEntry = NoEntry
SYMMETRY Symmetric
INVARIANTS
    ActiveConsistent SerialCallsApply
CHECK_DEADLOCK FALSE
