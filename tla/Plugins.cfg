SPECIFICATION Spec
CONSTANTS
    sure = sure  clumsy = clumsy  q1 = q1  q2 = q2  q3 = q3
    Order <- MCOrder
    Calls <- MCCalls
    Installed = {sure, clumsy}
    Enabled = {sure, clumsy}
    Clumsy = {clumsy}
    MaxUpsets = 1
    None = None
SYMMETRY Symmetric
INVARIANTS
    LoadedForReal
PROPERTY
    HooksFollowLoads
CHECK_DEADLOCK FALSE
