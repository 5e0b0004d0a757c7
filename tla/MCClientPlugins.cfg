SPECIFICATION Spec
CONSTANTS
    Processes = {p1, p2, p3}
    Packages = {adapter}
    MaxFaults = 1
    PointersReadable = TRUE
    None = None
SYMMETRY Interchangeable
CHECK_DEADLOCK FALSE
INVARIANTS
    AdapterSurvives
    WholeOrRecoverable
    LeasedGraphsStay
    HonestOutcome
    NothingLeftBehind
