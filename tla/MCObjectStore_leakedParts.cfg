SPECIFICATION Spec
CONSTANTS
    r1 = r1  r2 = r2  r3 = r3  r4 = r4
    Request = {r1, r2, r3}
    Key = {k}
    PartNumber = {1}
    Ops <- OneAbort
    Settings = {}
    Gc = Gc
    None = None
    BlobMinAge = 2
    UploadMaxAge = 1
    CommitDelay = 1
    ReadDelay = 0
    MaxFailures = 0
INVARIANT RetiredUploadsHoldNoParts
