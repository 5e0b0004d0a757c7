SPECIFICATION Spec
CONSTANTS
    first = first
    second = second
    Paths <- MCPaths
    Plans <- MCPlans
    MaxWrites = 2
    MaxFaults = 2
    None = None
CHECK_DEADLOCK FALSE
INVARIANTS
    AllOrNothing
    FaultsAreContained
    BackedUp
PROPERTIES
    OthersWorkSurvives
