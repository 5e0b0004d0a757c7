SPECIFICATION GatewaySpec
CONSTANTS
    i = i
    m = m
    s = s
    pa = pa
    pb = pb
    Requests = {i, m, s}
    Routes = {pa, pb}
    KindOf <- MCKindOf
    None = None
CHECK_DEADLOCK FALSE
INVARIANTS
    CloseLeavesNothing
    NoOrphanBridge
    SessionsEndWithBridges
PROPERTIES
    UpstreamsEnd
