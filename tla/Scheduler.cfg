CONSTANTS
    None = None
    once = once
    every = every
    e1 = e1
    e2 = e2
    e3 = e3
    Owner <- MCOwner
    CronNext <- MCCronNext
    MaxCallbacks = 1
    Tasks = {once, every}
    Entries = {e1, e2, e3}
    Schedule <- MCSchedule
    Persist = {once, every}
    FireOnce = {once}
    Rebindable = {once, every}
    Faulty = {every}
    MaxTime = 2
SPECIFICATION FairSpec
INVARIANTS OneShotFiresOnce QuietWhenStopped HeapMatchesRecords TableMatchesMemory
 
