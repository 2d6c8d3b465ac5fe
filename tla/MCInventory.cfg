SPECIFICATION Spec
CONSTANTS
    r1 = r1
    r2 = r2
    n1 = n1
    n2 = n2
    Requests = {r1, r2}
    MaxParallel = 2
    MaxItems = 2
    MaxEvents = 3
    MaxInt = 2
    Names = {n1}
    Counts = {1}
SYMMETRY RequestSymmetry
CHECK_DEADLOCK FALSE
INVARIANTS
    TypeOK
    StockNeverNegative
    VersionsAreIndexes
    ReadModelMatches
    AcceptedIsStored
    DetailsFound
