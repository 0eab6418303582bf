SPECIFICATION Spec
CONSTANTS
    a1 = a1
    a2 = a2
    p1 = p1
    p2 = p2
    g1 = g1
    r1 = r1
    R1 = R1
    None = None
    Admins <- MCAdmins
    Products <- MCProducts
    Groups <- MCGroups
    Refs <- MCRefs
    Orders <- MCOrders
    Fold <- MCFold
    Offers <- MCOffers
    OnSale <- MCOnSale
    Forms <- MCForms
    MaxRequests = 2
    MaxEdits = 2
    MaxEvents = 1
SYMMETRY Symmetric
CHECK_DEADLOCK FALSE
INVARIANTS TypeOK OrderIsDeliveredOnce RedeemedAsSold DisabledBatchIsDead
