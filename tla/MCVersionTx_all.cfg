\* Two writers, a delete, and a fourth call of any kind.
SPECIFICATION FairSpec
CONSTANTS
    p1 = p1
    p2 = p2
    d1 = d1
    d2 = d2
    Call = {p1, p2, d1, d2}
    Ops <- Mixed
    None = None
INVARIANTS TypeOK ReportedRowsAreGone RemovedRowsAreReported NullVersionIsOne
           VersionsHaveTheirKey PointerHolds
PROPERTY CallsEnd
CHECK_DEADLOCK FALSE
