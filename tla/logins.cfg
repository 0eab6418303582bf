\* two requests at a time, one client, one account; users' and administrators' keys are disjoint
SPECIFICATION Spec
CONSTANTS
    r1 = r1
    r2 = r2
    i1 = i1
    e1 = e1
    s1 = s1
    s2 = s2
    Requests = {r1, r2}
    Ips = {i1}
    Emails = {e1}
    Traffic = {{"login"}, {"register", "redeem"}, {"admin", "enable", "disable"}}
    Limit <- SmallLimits
    None = None
    Secrets = {s1, s2}
    MaxArrivals = 3
    MaxFaults = 2
INVARIANTS TypeOK CountersExpire GuessesAreBounded EnabledSecretIsProved
CHECK_DEADLOCK FALSE
