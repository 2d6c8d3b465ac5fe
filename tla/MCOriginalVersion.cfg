SPECIFICATION Spec
CONSTANTS
    s1 = s1
    s2 = s2
    Sessions = {s1, s2}
    Passing <- PassMixed
    MaxRaised = 1
    MaxStream = 2
    MaxFailures = 0
INVARIANTS
    OriginalVersionIsLastNumber
