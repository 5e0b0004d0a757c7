SPECIFICATION Spec
CONSTANTS
    a = a
    b1 = b1
    b2 = b2
    pa = pa
    pb = pb
    Calls = {a, b1}
    Processes = {pa, pb}
    ProcessOf <- MCProcessOf
    Undoable <- MCUndoable
    Container = TRUE
    Readable = FALSE
    MaxFaults = 0
    None = None
CHECK_DEADLOCK FALSE
INVARIANT
    MutualExclusion
