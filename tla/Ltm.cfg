SPECIFICATION FairSpec
CONSTANTS
    Threads <- MCTwo
    Size = 1
    Overlap = 0
    MaxFacts = 1
    MaxTime = 1
    MaxFailures = 1
    MaxStops = 1
INVARIANTS
    NothingSkipped NoLostSignal
PROPERTY
    Drains
CHECK_DEADLOCK FALSE
