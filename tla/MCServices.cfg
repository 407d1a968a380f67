SPECIFICATION ServicesSpec
CONSTANTS
    Joins = {j1, j2}
    JoinBase = 3
    MaxBeats = 3
    MaxSockets = 2
    UpdateCommands = {u1}
    AutoUpdates = {u2}
    TopVersion = 3
    HubDownloads = {h1, h2}
    NoDownload = NoDownload
    HubRevisions = 2
    Siblings <- MCSiblings
    Listings <- MCListings
    HubVariant = "q4"
    ShardSizes = {0, 1, 2}
    MaxChunks = 1
    HubCrashes = 1
    PvStarts = {v1, v2}
    PvOpens = {o1}
    PvClosers = {x1, x2}
    Origins = {"a", "b"}
    MaxEntries = 3
    NoProc = NoProc
INVARIANTS ServicesTypeOK JoinsSound FilesWhole PreviewsKept
SYMMETRY MCSymmetry
CHECK_DEADLOCK FALSE
