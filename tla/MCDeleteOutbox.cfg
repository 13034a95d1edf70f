SPECIFICATION FairSpec
CONSTANTS
    d1 = d1
    d2 = d2
    o1 = o1
    o2 = o2
    None = None
    First = o1
    Deletes <- MCTwoDeletes
    Objects <- MCTwoObjects
    Entries <- MCTree
    Settings <- MCSettings
    Copies = {1, 2}
    Intruders = TRUE
    MaxFaults = 2
    MaxTouches = 1
    MaxCrashes = 1
INVARIANTS
    TypeOK
    OnlyDeletedDestroyed
    TrashAccounted
    IntentKept
PROPERTIES
    OutboxDrains
