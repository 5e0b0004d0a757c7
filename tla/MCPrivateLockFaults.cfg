SPECIFICATION Spec
CONSTANTS
    a = a
    b1 = b1
    b2 = b2
    pa = pa
    pb = pb
    Calls = {a, b1}
    Processes = {pa, pb}
    ProcessOf <- MCProcessOf
    Undoable <- MCUndoable
    Container = TRUE
    Readable = TRUE
    MaxFaults = 2
    None = None
CHECK_DEADLOCK FALSE
INVARIANTS
    OneFaultReleases
    OneFaultIsUndone
PROPERTY
    EveryCallEnds
