SPECIFICATION Spec
CONSTANTS
    Procs = {p1, p2}
    Sessions = {s1}
    Keys = {k1, k2}
    Amounts = {2}
    MaxTotal <- Total5
    MaxIds = 3
    PreSubmitTTL = 1
    LockTTL = 1
    ValidUntil = 2
    MinTTL = 1
    MaxTime = 2
    MaxCrashes = 1
    Stalls = FALSE
    Releases = TRUE
    Commits = TRUE
SYMMETRY Symmetric
INVARIANTS TypeOK LockExclusive BudgetHeld NoLeak
CHECK_DEADLOCK FALSE
