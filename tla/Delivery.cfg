SPECIFICATION FairSpec
CONSTANTS
    m1 = m1  m2 = m2  q1 = q1  reply = reply  lookup = lookup
    Items = {m1, m2, q1}
    Batches = {reply, lookup}
    Plan <- MCPlan
    Messages = {m1, m2}
    Queries = {lookup}
    MaxConns = 2
    None = None
INVARIANTS
    FactsWereSent CallsAccountedFor NewestServes
PROPERTY
    DispatchEnds
CHECK_DEADLOCK FALSE
