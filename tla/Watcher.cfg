SPECIFICATION Spec
CONSTANTS
    d1 = d1
    d2 = d2
    x1 = x1
    x2 = x2
    x3 = x3
    Digests = {d1, d2}
    Keys = {x1, x2, x3}
    Events <- OneRebundled
    Confirmation = 1
    RescanBlocks = 2
    StartBlock = 0
    ReorgDepth = 1
    MaxPerBlock = 2
    MaxHeight = 4
    LastBind = 4
    MaxReorgs = 1
    MaxFailures = 2
    Width = 8
INVARIANTS TypeOK CursorSound RowsOnChain CommitEvidence ReconciledIsLatest
PROPERTIES ConfirmedRecorded BoundCommitted
CHECK_DEADLOCK FALSE
