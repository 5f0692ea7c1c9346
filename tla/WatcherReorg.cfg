SPECIFICATION Spec
CONSTANTS
    d1 = d1
    d2 = d2
    x1 = x1
    x2 = x2
    x3 = x3
    Digests = {d1, d2}
    Keys = {x1, x2, x3}
    Events <- OneRebundled
    Confirmation = 0
    RescanBlocks = 1
    StartBlock = 2
    ReorgDepth = 1
    MaxPerBlock = 1
    MaxHeight = 4
    LastBind = 1
    MaxReorgs = 2
    MaxFailures = 1
    Width = 8
INVARIANTS RecordedOnce
PROPERTIES SettledUnlessDisplaced
CHECK_DEADLOCK FALSE
