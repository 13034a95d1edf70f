SPECIFICATION Spec
CONSTANTS
    r1 = r1
    r2 = r2
    r3 = r3
    root = root
    d1 = d1
    d2 = d2
    Missing = Missing
    Loop = Loop
    None = None
    MaxLinks = 2
    Root = root
    Dirs <- MCDirs
    Names <- MCNames
    Requests <- MCRequests
    InitNs <- MCInitNs
    Op <- MCOp
    CanFail = {r1, r2, r3}
    Namespaces <- MCNamespaces
INVARIANTS TypeOK LeasesExclusive
