\* A key is overwritten while it is read.
SPECIFICATION Spec
CONSTANTS
    p1 = p1
    p2 = p2
    d1 = d1
    d2 = d2
    Call = {p1, p2, d1, d2}
    Ops <- PutsAndRead
    None = None
PROPERTY ReadsServeTheKey
CHECK_DEADLOCK FALSE
