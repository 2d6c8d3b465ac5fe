SPECIFICATION Spec
CONSTANTS
    w1 = w1
    w2 = w2
    s1 = s1
    s2 = s2
    AllStreams = all
    Writers = {w1, w2}
    Streams = {s1, s2}
    Deletable = {}
    MaxId = 4
    MaxTime = 1
    IdBounds = {}
    TimeBounds = {}
    Limits = {}
    MaxCalls = 0
    Followers = {s1, all}
SYMMETRY WriterSymmetry
INVARIANTS
    LookupsAgree
    LastIsCount
    StreamFollowed
    MissedWereOpen
