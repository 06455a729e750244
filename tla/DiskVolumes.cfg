SPECIFICATION Spec
CONSTANTS
    Proc = {p1, p2}
    Pv = {v1}
    Disk = {d1, d2}
    Node = {n1, n2}
    d1 = d1
    d2 = d2
    n1 = n1
    n2 = n2
    NoProc = NoProc
    NoPv = NoPv
    NoDisk = NoDisk
    NoNode = NoNode
    Provisioned = {}
    Requests <- AllRequests
    MayRestart = TRUE
SYMMETRY Symmetry
INVARIANTS
    TypeOK
    MarksOwned
    CacheConsistent
    DeleteForgets
