SPECIFICATION FairSpec
CONSTANTS
    Bucket = {"B", "C"}
    Name <- MCName
    Key <- MCKey
    Under <- MCUnder
    CommonPrefix <- MCCommonPrefix
    Payload <- MCPayload
    Upload <- MCUpload
    Part <- MCPart
    Walker = {"w"}
    Queries <- MCQueries
    None = None
    User = {"u"}
    Call = {1, 2}
    Folders <- MCFolders
    AsFolder <- MCAsFolder
    Rekey <- MCRekey
    Size <- MCSize
    Joined <- BothParts
    TheUpload = 1
    UploadBucket = "B"
    Starts <- MCStarts
    MaxFailures = 1
INVARIANTS
    TypeOK
    ObjectWalksAreComplete
    VersionWalksAreComplete
    MovesLoseNothing
    DeletedFoldersAreEmpty
    DeletedBucketsHoldLateWrites
PROPERTIES
    OvershootsGoByStaleSums
    WalksEnd
    CallsFinish
CHECK_DEADLOCK FALSE
