SPECIFICATION Spec
CONSTANTS
    a1 = a1
    a2 = a2
    g1 = g1
    g2 = g2
    m1 = m1
    m2 = m2
    m3 = m3
    w = w
    x = x
    y = y
    z = z
    None = None
    Models <- MCModels
    Matches <- MCMatches
    Admins <- MCAdmins
    Groups <- MCGroups
    Platforms = {"pa", "pb"}
    Ids = {1, 2}
    Worlds <- MCWorlds
    Purposes = {"q1", "q2"}
    BuiltIn = {"q1"}
    DefaultModel = m2
    Configs <- MCConfigs
    Traffic <- MCTraffic
    MaxRequests = 3
    MaxChanges = 2
    MaxFaults = 1
SYMMETRY Symmetric
CHECK_DEADLOCK FALSE
INVARIANTS TypeOK CatalogIsTheSnapshot PurposeIsOneRequest ProviderIsUsable
PROPERTIES OvertakenForACause
