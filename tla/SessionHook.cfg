SPECIFICATION Spec
CONSTANTS
    zero = zero
    acct = acct
    own = own
    agent = agent
    usdc = usdc
    shop = shop
    other = other
    none = none
    Lanes = {1, 2}
    Addresses <- MCAddresses
    ZeroAddress = zero
    Account = acct
    Owner = own
    Adapters = {acct, other}
    Offered <- MCOffered
    OwnerSigned <- Signed
    RailguardSigned <- Signed
    Executions <- MCExecutions
    NoSession = none
    MaxUint = 3
    MaxTime = 2
    MaxDepth = 3
    MaxExecutions = 3
INVARIANTS TypeOK SequenceFresh SpendWithinCap MovedIsAccounted DigestsUnique EventTotals
PROPERTIES SessionsPermanent OnlyActiveSpend
CHECK_DEADLOCK FALSE
