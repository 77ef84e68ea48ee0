SPECIFICATION Spec
CONSTANTS
    Calls = {c1, c2}
    Sessions = {}
    Ids = {i1, i2, i3}
    ChildIds = {i3}
    c1 = c1
    c2 = c2
    i1 = i1
    i2 = i2
    i3 = i3
    alice = alice
    Clients = {alice}
    NoClient = NoClient
    Torn = Torn
    NoSession = NoSession
    NoCall = NoCall
    NoId = NoId
    Workloads <- AllWorkloads
    Concurrent <- AllWorkloads
    PipeCap = 2
    OutCap = 1
    ChanCap = 1
    MaxNotes = 1
    TraceAll = FALSE
    IncludeLifecycle = TRUE
CHECK_DEADLOCK FALSE
INVARIANT Delivers
