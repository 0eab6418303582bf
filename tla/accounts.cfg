SPECIFICATION Spec
CONSTANTS
    h1 = h1
    h2 = h2
    k1 = k1
    None = None
    Worker = worker
    Handlers <- MCHandlers
    Keys <- MCKeys
    Amounts = {1}
    Levels = {12}
    ManagedLevel = 11
    Traffic <- MCTraffic
    MaxRequests = 3
    MaxAccounts = 2
    MaxFaults = 1
SYMMETRY Symmetric
CHECK_DEADLOCK FALSE
INVARIANTS TypeOK CopiesDivergeForACause GrantBalanceIsExact GrantedExactlyOnce DeletedLeavesNothing
