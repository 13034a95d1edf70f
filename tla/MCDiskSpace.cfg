\* 14: room for one reservation at a time.  16: for both, while released bytes
\* are still in flight.
CONSTANTS
    u1 = u1
    u2 = u2
    Uploads = {u1, u2}
    Length <- MCLength
    Offset <- MCOffset
    Chunk = 2
    Unit = 2
    Metadata = 2
    MinimumFree = 2
    Batch = 2
    Recheck = 6
    Retries = 2
    Free = {14, 16}
SPECIFICATION Spec
INVARIANT TypeOK
INVARIANT MinimumFreeKept
INVARIANT Accounted
