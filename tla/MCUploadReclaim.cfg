CONSTANTS
    Owners = {ann}
    Inodes = {i1, i2}
    Outside = {x1}
    Len = 1
    NoIno = NoIno
    NoRev = NoRev
    MinResumable = 1
    MaxRequests = 2
    MaxMishaps = 1
    ReuseInodes = FALSE
SPECIFICATION FairSpec
PROPERTIES RequestsAndClaimsEnd Reclaimed
CHECK_DEADLOCK FALSE
