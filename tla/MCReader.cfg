SPECIFICATION Spec
CONSTANTS
    w1 = w1
    w2 = w2
    s1 = s1
    s2 = s2
    AllStreams = all
    Writers = {w1}
    Streams = {s1, s2}
    Deletable = {s2}
    MaxId = 2
    MaxTime = 2
    IdBounds = {1, 2}
    TimeBounds = {2}
    Limits = {1}
    MaxCalls = 4
    Followers = {}
INVARIANTS
    TypeOK
    AnswersTheQuestion
