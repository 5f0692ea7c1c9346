SPECIFICATION Spec
CONSTANTS
    agent = agent
    account = account
    usdc = usdc
    vendor = vendor
    n7 = n7
    n8 = n8
    Procs = {p1, p2}
    Asks <- MCAsks
    NonceTexts = {n7, n8}
    NonceValue <- MCNonceValue
    Windows <- MCWindows
    Deployments <- MCDeployments
    ApiKeys = {"own", "dev-local-signgate-key"}
    Orders <- MCOrders
    MaxDecisions = 2
    MaxStops = 1
INVARIANTS TypeOK OneDecisionOneSession ConsumedHasSession CosignedIsAllowed ReservedIsGranted
PROPERTIES SignedAsConfigured RequestsEnd
