\* Two versions, deleted by id at the same time.
SPECIFICATION Spec
CONSTANTS
    p1 = p1
    p2 = p2
    d1 = d1
    d2 = d2
    Call = {p1, p2, d1, d2}
    Ops <- TwoDeletes
    None = None
INVARIANT KeyGoesWithItsLastVersion
CHECK_DEADLOCK FALSE
