SPECIFICATION Spec
CONSTANTS
    Calls = {c1, c2}
    Users <- MCUsers
CHECK_DEADLOCK FALSE
INVARIANT DrainsFirst
