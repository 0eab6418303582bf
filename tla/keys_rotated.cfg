\* two requests and no failure at all
SPECIFICATION Spec
CONSTANTS
    k1 = k1
    k2 = k2
    k3 = k3
    g1 = g1
    r1 = r1
    r2 = r2
    w1 = w1
    Keys = {k1, k2, k3}
    Groups = {g1}
    Requests = {r1, r2}
    Workers = {w1}
    NoKey = NoKey
    NoGroup = NoGroup
    MaxAttempts = 1
    RetryGrant = 1
    MaxFailures = 0
    MaxRetries = 0
INVARIANTS OnlyNewestKeyActive
CHECK_DEADLOCK FALSE
