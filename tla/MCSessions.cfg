CONSTANTS
    Sessions = {s1, s2}
    Guarded = {s1}
    StreamIds = {noname, x}
    EmptyStreamId = noname
    Kinds = {k1, k2}
    Known = {k1}
    Handlers = {h1}
    MaxChanges = 2
    MaxEvents = 2
    MaxCrashes = 1
SPECIFICATION Spec
INVARIANTS TypeOK AggregateIsPrefix RaisedOnce DeliveredIsStored DeliveredInOrder
PROPERTIES DecisionsAreCurrent
CHECK_DEADLOCK FALSE
