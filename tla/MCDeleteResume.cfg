SPECIFICATION Spec
CONSTANTS
    d1 = d1
    d2 = d2
    o1 = o1
    o2 = o2
    None = None
    First = o1
    Deletes <- MCOneDelete
    Objects <- MCOneObject
    Entries <- MCLongTree
    Settings <- MCPlain
    Copies = {1}
    Intruders = FALSE
    MaxFaults = 0
    MaxTouches = 0
    MaxCrashes = 1
INVARIANTS
    ReleasedWhenPurged
