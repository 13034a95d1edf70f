SPECIFICATION Spec
CONSTANTS
    r1 = r1
    r2 = r2
    r3 = r3
    q1 = q1
    k1 = k1
    k2 = k2
    alice = alice
    Keys <- MCOneKey
    Key <- MCSameKey
    Fingerprint <- MCSameBody
    Owner <- MCOneOwner
    Requests <- MCRetry
    Queries <- MCQuery
    Capacity = 1
    PerOwner = 1
    QueueCapacity = 2
    MutationSlots = 1
    Polling = FALSE
    MaxFaults = 1
    MaxCrashes = 1
INVARIANTS
    TypeOK
    AppliedOnce
    RejectedUntouched
    OutcomeHonest
    ReservationKept
PROPERTIES
    NotFoundIsFinal
