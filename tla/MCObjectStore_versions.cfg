SPECIFICATION Spec
CONSTANTS
    r1 = r1  r2 = r2  r3 = r3  r4 = r4
    Request = {r1, r2, r3}
    Key = {k}
    PartNumber = {1}
    Ops <- AnyVersionOp
    Settings = {"enabled", "suspended"}
    Gc = Gc
    None = None
    BlobMinAge = 3
    UploadMaxAge = 1
    CommitDelay = 1
    ReadDelay = 1
    MaxFailures = 1
SYMMETRY AllAlike
INVARIANTS TypeOK RowsHaveBlobs
PROPERTY LedgerSpec
