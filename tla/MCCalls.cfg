CONSTANTS
    Clients = {c1, c2}
    StreamIds = {noname, s1}
    EmptyStreamId = noname
    Deletable = {}
    MaxCalls = 3
    MaxBatch = 2
    MaxLink = 2
    MaxExpected = 1
SYMMETRY Symmetry
SPECIFICATION Spec
INVARIANTS TypeOK VersionsContiguous ReplayOrder EventsOfRowsStored AppendAtomic LinkedInOrder WriterInv
PROPERTIES ImplementsEventLog StreamAppendOnly ExpectedVersionHonoured
CHECK_DEADLOCK FALSE
