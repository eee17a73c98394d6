SPECIFICATION SystemSpec
CONSTANTS
    None = None
    Anyone = Anyone
    c1 = c1
    c2 = c2
    c3 = c3
    Caller <- MCCaller
    KeyId <- MCKeyId
    User <- MCUser
    Bucket <- MCBucket
    Starts <- MCStarts
    Budget = 2
    Window = 2
    Skew = 1
    MaxExpires = 3
    MaxHeader = 6
    MaxBytes = 4
    Block = 2
    Radix = 2
    CounterSize = 2
    LastKey = 5
    Inside = {2, 3, 4}
    PageSize = 2
    TableRow = {"x", "y"}
    Texts = {"", "bad", "p", "q"}
    ConsoleStarts <- MCConsoleStarts
    MaxTasks = 3
INVARIANTS
    TypeOK
    DeniesHold
    UndisturbedDecisions
    BudgetsHold
    PayloadsSurviveFraming
    RangesReadTheirSlice
    ConsoleTellsTheTruth
PROPERTIES
    LinksOpen
    RequestsEnd
    DropsSettle
CHECK_DEADLOCK FALSE
