SPECIFICATION Spec
CONSTANTS
    Procs = {p1, p2}
    Keys = {k1, k2}
    Ops = {o1}
    MaxTotal = 1
    MaxIds = 3
    MaxFailures = 0
    Ordered = TRUE
    Slow = FALSE
INVARIANTS TypeOK StoresAgree SpendCovered
PROPERTIES TerminalStays Converges ImplementsLedger
CHECK_DEADLOCK FALSE
