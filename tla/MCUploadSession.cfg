CONSTANTS
    Owners = {ann, bob}
    Inodes = {i1, i2}
    Outside = {x1}
    Len = 1
    NoIno = NoIno
    NoRev = NoRev
    MinResumable = 1
    MaxRequests = 2
    MaxMishaps = 2
    ReuseInodes = FALSE
SPECIFICATION Spec
SYMMETRY Symmetry
INVARIANTS TypeOK CheckpointDurable PublishedWhole StatusHonest NotStartedUntouched
PROPERTIES HonestAnswers LiveStageKept KeepsContract
CHECK_DEADLOCK FALSE
