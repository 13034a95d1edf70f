CONSTANTS
    Owners = {ann}
    Inodes = {i1}
    Outside = {x1}
    Len = 1
    NoIno = NoIno
    NoRev = NoRev
    MinResumable = 1
    MaxRequests = 3
    MaxMishaps = 2
    ReuseInodes = FALSE
SPECIFICATION NoTargetSpec
SYMMETRY Symmetry
INVARIANT CreateOnlyClean
CHECK_DEADLOCK FALSE
