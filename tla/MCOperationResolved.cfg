SPECIFICATION FairSpec
CONSTANTS
    r1 = r1
    r2 = r2
    r3 = r3
    q1 = q1
    k1 = k1
    k2 = k2
    alice = alice
    Keys <- MCTwoKeys
    Key <- MCSharedKey
    Fingerprint <- MCOtherBody
    Owner <- MCOneOwnerOfTwo
    Requests <- MCThree
    Queries <- MCNoQuery
    Capacity = 2
    PerOwner = 1
    QueueCapacity = 1
    MutationSlots = 1
    Polling = TRUE
    MaxFaults = 1
    MaxCrashes = 0
INVARIANTS
    WithinCapacity
PROPERTIES
    Resolved
