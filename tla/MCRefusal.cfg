CONSTANTS
    Clients = {c1}
    StreamIds = {noname, s1}
    EmptyStreamId = noname
    Deletable = {}
    MaxCalls = 1
    MaxBatch = 2
    MaxLink = 0
    MaxExpected = 0
SPECIFICATION Spec
PROPERTIES RefusedOnlyWhenWrong
CHECK_DEADLOCK FALSE
