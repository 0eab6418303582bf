\* two workers, a redemption and a provisioning operation, two attempts each
SPECIFICATION Spec
CONSTANTS
    o1 = o1
    o2 = o2
    w1 = w1
    w2 = w2
    Ops = {o1, o2}
    RedemptionOps = {o1}
    Workers = {w1, w2}
    MaxAttempts = 2
    RetryGrant = 1
    BatchSize = 2
    Concurrency = 1
    MaxAdmin = 1
    MaxStops = 1
SYMMETRY Symmetry
INVARIANTS NoRowIsLost ClaimsAreFenced ExecutionBudget
PROPERTIES SettledStaysSettled
