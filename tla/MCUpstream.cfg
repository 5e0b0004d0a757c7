SPECIFICATION Spec
CONSTANTS
    f1 = f1
    f2 = f2
    f3 = f3
    Fetches = {f1, f2, f3}
CHECK_DEADLOCK FALSE
INVARIANTS
    ClosedMeansGone
PROPERTY
    CloseEnds
