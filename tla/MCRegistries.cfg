SPECIFICATION Spec
CONSTANTS
    salesOrder = salesOrder
    stockOrder = stockOrder
    item = item
    plainItem = plainItem
    d1 = d1
    d2 = d2
    None = None
    Types = {salesOrder, stockOrder, item, plainItem}
    Plain = {plainItem}
    Name <- TypeNames
    Delegates = {d1, d2}
    MaxArgs = 2
    MaxCalls = 2
SYMMETRY DelegateSymmetry
INVARIANTS
    TypeOK
    AcceptedIsBound
    BoundByCalls
    AnswerLasts
