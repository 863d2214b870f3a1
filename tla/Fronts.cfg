SPECIFICATION FrontsSpec
CONSTANTS
    LastKey = 6
    Prefixed <- PrefixedKeys
    Folder <- Folders
    NoFolder = "none"
    Encoded <- EncodedKeys
    MaxKeys = 2
    MaxChanges = 3
    Names <- ObjectAndFolder
    MaxSize = 2
    MaxBody = 1
    MaxSent = 2
    Signatures <- PlainSignatures
    Absent = Absent
    Callers = {c1, c2}
    Rules <- AllRules
    NoRule = NoRule
    Requested <- AllRequests
    NotJson <- NoForm
    Ttl = 1
    MaxTime = 3
    MaxLogins = 2
    MaxTables = 2
    MaxRows = 2
    MaxCalls = 5
    None = None
INVARIANT WalkExact
INVARIANT DownloadsWhole
INVARIANT CallsDecided
INVARIANT RowsReadBack
PROPERTY WalkEnds
CHECK_DEADLOCK FALSE
