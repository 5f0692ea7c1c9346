SPECIFICATION Spec
CONSTANTS
    Procs = {p1}
    Keys = {k1}
    Ops = {o1}
    MaxTotal = 1
    MaxIds = 1
    MaxFailures = 1
    Ordered = TRUE
    Slow = FALSE
INVARIANTS Backed
CHECK_DEADLOCK FALSE
