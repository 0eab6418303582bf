\* one request at a time and a worker slot, two failures and an overrun; no symmetry with liveness
SPECIFICATION FairSpec
CONSTANTS
    k1 = k1
    k2 = k2
    r1 = r1
    w1 = w1
    Keys = {k1, k2}
    NoKey = NoKey
    Requests = {r1}
    Workers = {w1}
    Hosts = {"api", "worker"}
    HostOf <- Placement
    None = None
    Gone = Gone
    MaxAttempts = 2
    RetryGrant = 1
    MaxFailures = 2
    MaxOverruns = 1
INVARIANTS OneAtATime SucceededMeansStored
PROPERTIES PromisesAreKept
