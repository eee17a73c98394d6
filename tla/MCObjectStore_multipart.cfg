SPECIFICATION Spec
CONSTANTS
    r1 = r1  r2 = r2  r3 = r3  r4 = r4
    Request = {r1, r2, r3, r4}
    Key = {k}
    PartNumber = {1}
    Ops <- Multipart
    Settings = {}
    Gc = Gc
    None = None
    BlobMinAge = 2
    UploadMaxAge = 1
    CommitDelay = 1
    ReadDelay = 0
    MaxFailures = 1
SYMMETRY PartsAlike
INVARIANT RowsHaveBlobs
PROPERTY LedgerSpec
