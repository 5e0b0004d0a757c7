SPECIFICATION SessionSpec
CONSTANTS
    read = read
    delete = delete
    path = path
    proto = proto
    work = work
    file = file
    number = number
    Names <- MCNames
    Arguments <- MCArguments
    Unsafe <- MCUnsafe
    Values <- MCValues
    Strings <- MCStrings
    Expressions <- MCExpressions
    PrefixOf <- MCPrefixOf
    Matches <- MCMatches
    Policies <- MCPolicies
    ClientCalls <- MCClientCalls
    MaxRemembered = 2
INVARIANTS
    HiddenToolsNeverExecuted
    TighteningOpensNothing
