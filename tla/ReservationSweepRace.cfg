SPECIFICATION Spec
CONSTANTS
    Procs = {p1, p2}
    Sessions = {s1}
    Keys = {k1, k2}
    Amounts = {1, 2}
    MaxTotal <- Total3
    MaxIds = 4
    PreSubmitTTL = 1
    LockTTL = 1
    ValidUntil = 4
    MinTTL = 1
    MaxTime = 1
    MaxCrashes = 0
    Stalls = FALSE
    Releases = FALSE
    Commits = FALSE
INVARIANTS NoOverbooking
CHECK_DEADLOCK FALSE
