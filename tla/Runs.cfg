SPECIFICATION Spec
CONSTANTS
    e1 = e1  e2 = e2  c1 = c1  q1 = q1  q2 = q2  p1 = p1
    Events <- MCEvents
    Children <- MCChildren
    ParentOf <- MCParentOf
    ThreadOf <- MCThreadOf
    Requests <- MCRequests
    Stops <- MCStops
    MaxAsks = 2
    MaxCrashes = 1
    AsksAgain = TRUE
    None = None
SYMMETRY Symmetric
INVARIANTS
    OneAnswerPerAsk OneTaskPerRun AskedAndReplayable ChildWithinParent
PROPERTY
    KeepsPromise
CHECK_DEADLOCK FALSE
