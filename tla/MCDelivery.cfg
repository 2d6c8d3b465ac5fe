CONSTANTS
    Sessions = {s1, s2}
    Guarded = {s1}
    StreamIds = {noname, x}
    EmptyStreamId = noname
    Kinds = {k1}
    Known = {k1}
    Handlers = {h1, h2}
    MaxChanges = 2
    MaxEvents = 1
    MaxCrashes = 0
SPECIFICATION FairSpec
PROPERTIES EventuallyDelivered
CHECK_DEADLOCK FALSE
