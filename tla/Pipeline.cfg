CONSTANTS
    None = None
    t1 = t1
    t2 = t2
    r1 = r1
    r2 = r2
    r3 = r3
    n1 = n1
    o1 = o1
    o2 = o2
    o3 = o3
    ThreadOf <- MCThreadOf
    Threads = {t1, t2}
    Runs = {r1, r2, r3}
    Notes = {n1}
    Stamp <- SharedSeconds
    RecordOnly = {r3}
    Summarizes = {r1}
    Objects = {o1, o2}
SPECIFICATION Spec
SYMMETRY ObjectSymmetry
INVARIANTS NoStaleOverwrite OwnMessageInContext NothingUnsaved
CHECK_DEADLOCK FALSE
