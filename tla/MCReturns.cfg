CONSTANTS
    Clients = {c1, c2}
    StreamIds = {noname, s1, s2}
    EmptyStreamId = noname
    Deletable = {s2}
    MaxCalls = 2
    MaxBatch = 2
    MaxLink = 2
    MaxExpected = 0
SPECIFICATION FairSpec
PROPERTIES StreamAppendOnly CallReturns
CHECK_DEADLOCK FALSE
