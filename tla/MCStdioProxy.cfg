SPECIFICATION ProxySpec
CONSTANTS
    one = one
    two = two
    read = read
    delete = delete
    safe = safe
    unsafe = unsafe
    Messages = {m1, m2}
    Notices = {n1}
    Ids = {one, two}
    Tools <- MCTools
    Discoverable <- MCDiscoverable
    Calls <- MCCalls
    Authorized <- MCAuthorized
    Requests <- MCRequests
    NoId = NoId
    None = None
    Patient = FALSE
    Malformed = Malformed
CHECK_DEADLOCK FALSE
INVARIANTS
    FreshDrainedMeansAnswered
PROPERTIES
    EofEventuallyExits
    RelatedRequestIsLive
