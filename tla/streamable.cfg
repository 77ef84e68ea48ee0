SPECIFICATION Spec
CONSTANTS
    Calls = {c1, c2, c3}
    Texts = {"1", "2"}
    Clients = {alice, bob}
    c1 = c1
    c2 = c2
    c3 = c3
    alice = alice
    bob = bob
    NoClient = NoClient
    Torn = Torn
    MaxLines = 3
    Bodies <- SomeBodies
    Workloads <- AllWorkloads
    TraceAll = TRUE
    IncludeLifecycle = FALSE
CHECK_DEADLOCK FALSE
INVARIANTS
    TypeOK
    AnswerDecides
    ClientRemembered
PROPERTY LedgerSpec
