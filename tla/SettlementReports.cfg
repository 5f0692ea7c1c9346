SPECIFICATION Spec
CONSTANTS
    Procs = {p1, p2}
    Keys = {k1, k2}
    Ops = {o1}
    MaxTotal = 1
    MaxIds = 2
    MaxFailures = 1
    Ordered = FALSE
    Slow = TRUE
SYMMETRY Symmetric
INVARIANTS TerminalTrue
CHECK_DEADLOCK FALSE
