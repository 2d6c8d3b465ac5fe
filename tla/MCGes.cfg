SPECIFICATION Spec
CONSTANTS
    s1 = s1
    s2 = s2
    Sessions = {s1, s2}
    Passing <- PassFree
    MaxRaised = 2
    MaxStream = 3
    MaxFailures = 1
INVARIANTS
    TypeOK
    AggregateIsLoadedPrefix
    PublishedAsNumbered
    NumberedAsDecided
    StoredOnce
