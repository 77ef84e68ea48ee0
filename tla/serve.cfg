SPECIFICATION FairSpec
CONSTANTS
    Calls = {c1, c2}
    Users <- MCUsers
CHECK_DEADLOCK FALSE
INVARIANTS
    TypeOK
    StopNotReported
    NilMeansSignalled
    DiedOfItsOwn
    NoOrphan
    KillsNoCall
PROPERTIES
    EndsAfterAll
    EndedIsExported
    OpenLostLast
    SubprocessSpec
    ConfigHonoured
