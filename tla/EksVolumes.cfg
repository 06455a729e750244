SPECIFICATION Spec
CONSTANTS
    Proc = {p1, p2}
    Pv = {v1}
    Disk = {d1, d2, d3}
    Node = {n1, n2}
    d1 = d1
    d2 = d2
    d3 = d3
    n1 = n1
    n2 = n2
    NoProc = NoProc
    NoPv = NoPv
    NoDisk = NoDisk
    NoNode = NoNode
    Provisioned = {d1}
    Requests <- AllRequests
    DiskMountLimit = 1
    Flapping = {n1}
    MayRestart = TRUE
SYMMETRY Symmetry
INVARIANTS
    TypeOK
    CacheLocksOwned
    OneBlockPerName
    ToldIsCreated
    AnswerHoldsUnderLock
PROPERTIES
    OwnsDisks
