SPECIFICATION Spec
CONSTANTS
    r1 = r1
    r2 = r2
    n1 = n1
    n2 = n2
    Requests = {r1}
    MaxParallel = 1
    MaxItems = 1
    MaxEvents = 3
    MaxInt = 2
    Names = {n1}
    Counts = {1}
CHECK_DEADLOCK FALSE
INVARIANT EntryNeverMissing
