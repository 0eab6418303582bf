\* one code, its request, one worker slot that may fail, and one retry
SPECIFICATION FairSpec
CONSTANTS
    c1 = c1
    u1 = u1
    r1 = r1
    w1 = w1
    a1 = a1
    Codes = {c1}
    Users = {u1}
    Requests = {r1}
    Workers = {w1}
    Admins = {a1}
    Nobody = Nobody
    NoCode = NoCode
    MaxAttempts = 2
    RetryGrant = 2
    MaxRetries = 1
INVARIANTS CreditedOnceToOwner ShownMeansCredited
PROPERTIES ImplementsPromise EveryRedemptionSettles
CHECK_DEADLOCK FALSE
