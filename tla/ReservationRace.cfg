SPECIFICATION Spec
CONSTANTS
    Procs = {p1, p2}
    Sessions = {s1}
    Keys = {k1, k2}
    Amounts = {1, 2}
    MaxTotal <- Total3
    MaxIds = 4
    PreSubmitTTL = 3
    LockTTL = 1
    ValidUntil = 3
    MinTTL = 1
    MaxTime = 2
    MaxCrashes = 1
    Stalls = FALSE
    Releases = FALSE
    Commits = TRUE
INVARIANTS NoOverbooking
PROPERTIES ImplementsLedger LockFreed
CHECK_DEADLOCK FALSE
