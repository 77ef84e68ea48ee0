SPECIFICATION FairSpec
CONSTANTS
    Calls = {c1, c2}
    Sessions = {}
    Ids = {i1, i2, i3}
    ChildIds = {i3}
    c1 = c1
    c2 = c2
    i1 = i1
    i2 = i2
    i3 = i3
    alice = alice
    Clients = {alice}
    NoClient = NoClient
    Torn = Torn
    NoSession = NoSession
    NoCall = NoCall
    NoId = NoId
    Workloads <- AllWorkloads
    Concurrent <- SomeWorkloads
    PipeCap = 1
    OutCap = 1
    ChanCap = 1
    MaxNotes = 1
    TraceAll = FALSE
    IncludeLifecycle = FALSE
CHECK_DEADLOCK FALSE
INVARIANTS
    TypeOK
    SpanEndsWithHandler
    SerialDelivers
    SerialNamesClient
PROPERTIES
    LedgerSpec
    HandlersReturn
