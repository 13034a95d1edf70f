SPECIFICATION FairSpec
CONSTANTS
    Top = "top"
    Dirs = {"top", "sub"}
    NoDir = "none"
    LeadsTo <- MCLeadsTo
    Links <- MCLinks
    Hidden <- MCHidden
    Matching <- MCMatching
    NameOrder <- MCNameOrder
    SizeOf <- MCSizeOf
    Sort = "size"
    Order = "asc"
    MaxEntries = 4
    MaxItems = 4
    MaxDepth = 1
    MaxHeld = 3
    Jobs = {j1, j2}
    MAX_CACHED_LIST_SNAPSHOTS = 4
    MAX_CACHED_LIST_SNAPSHOT_BYTES = 6
    MAX_CACHED_LIST_SNAPSHOTS_PER_OWNER = 2
    MAX_CACHED_LIST_SNAPSHOT_BYTES_PER_OWNER = 3
    LIST_SNAPSHOT_TTL = 1
    Viewer = ann
    Others = {bob, cid}
    Limit = 1
    Slots = 1
    OtherChanges <- MCChanges
    Deletable <- MCDeletable
    Creatable <- MCCreatable
    Uploadable <- MCCreatable
    NewName <- MCNewName
    OtherWeights = {1, 2}
    Scenarios <- MCScenarios
INVARIANTS TypeOK CacheBounded WalkersWithinSlots ReadYourWrites ViewIsPrefix
PROPERTIES SnapshotExact ServedInTime SparesOthers LoadsEnd RefreshMadeUp
CHECK_DEADLOCK FALSE
