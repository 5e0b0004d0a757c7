SPECIFICATION Spec
CONSTANTS
    s1 = s1
    s2 = s2
    p1 = p1
    p2 = p2
    Setups = {s1, s2}
    Profile = s1
    Proxies = {p1, p2}
    MaxTokens = 3
    MaxWrites = 3
    MaxMishaps = 1
    Casts <- MCCasts
    None = None
CHECK_DEADLOCK FALSE
INVARIANTS
    ProfilesDecrypt
    TokensSurvive
    LoginRequiredIsMeant
    LoginLeavesNothing
PROPERTIES
    LoginStays
    EveryoneEnds
