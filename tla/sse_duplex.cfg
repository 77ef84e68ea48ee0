SPECIFICATION Spec
CONSTANTS
    Calls = {c1, c2}
    Streams = {st1}
    Sessions = {s1}
    Ids = {i1, i2}
    Clients = {alice, bob}
    c1 = c1
    c2 = c2
    s1 = s1
    s2 = s2
    i1 = i1
    i2 = i2
    alice = alice
    bob = bob
    NoSession = NoSession
    NoCall = NoCall
    NoId = NoId
    NoClient = NoClient
    NoEntry = NoEntry
    NoRoute = NoRoute
    NoAdvert = NoAdvert
    NoLine = NoLine
    ServerIds = {i1}
    Workloads <- SharedWorkloads
    TraceAll = FALSE
    IncludeLifecycle = FALSE
CHECK_DEADLOCK FALSE
INVARIANT OkMeansAnswered
