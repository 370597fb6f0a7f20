CONSTANTS
    None = None
    t1 = t1
    t2 = t2
    r1 = r1
    r2 = r2
    r3 = r3
    n1 = n1
    o1 = o1
    o2 = o2
    o3 = o3
    ThreadOf <- MCThreadOf
    Threads = {t1}
    Runs = {r1, r2, r3}
    Notes = {}
    Stamp <- DistinctStamps
    RecordOnly = {r1, r3}
    Summarizes = {}
    Objects = {o1, o2, o3}
SPECIFICATION Spec
INVARIANT DurableWhenDone
CHECK_DEADLOCK FALSE
