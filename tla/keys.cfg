\* one request at a time, a worker slot, two keys, two failures and a retry
SPECIFICATION FairSpec
CONSTANTS
    k1 = k1
    k2 = k2
    g1 = g1
    g2 = g2
    r1 = r1
    w1 = w1
    Keys = {k1, k2}
    Groups = {g1, g2}
    Requests = {r1}
    Workers = {w1}
    NoKey = NoKey
    NoGroup = NoGroup
    MaxAttempts = 2
    RetryGrant = 1
    MaxFailures = 2
    MaxRetries = 1
INVARIANTS DisabledKeysAreChased ActiveKeysWork
PROPERTIES DisabledKeysSettle
CHECK_DEADLOCK FALSE
