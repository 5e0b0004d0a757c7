SPECIFICATION Spec
CONSTANTS
    one = one
    two = two
    read = read
    delete = delete
    safe = safe
    unsafe = unsafe
    Messages = {m1, m2}
    Notices = {}
    Ids = {one, two}
    Tools <- MCTools
    Discoverable <- MCDiscoverable
    Calls <- MCCalls
    Authorized <- MCAuthorized
    Requests <- MCRequests
    NoId = NoId
    None = None
    Malformed = Malformed
SYMMETRY MCSymmetry
CHECK_DEADLOCK FALSE
INVARIANTS
    OnlyAuthorizedCallsReachServer
    ListsAreFiltered
    OutstandingIdsAreDistinct
    VersionBeforeInitialized
PROPERTY
    ImplementsRestrictor
