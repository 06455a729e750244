SPECIFICATION Spec
CONSTANTS
    Proc = {p1, p2}
    Pv = {}
    Disk = {d1, d2}
    Node = {n1, n2}
    d1 = d1
    d2 = d2
    n1 = n1
    n2 = n2
    NoProc = NoProc
    NoPv = NoPv
    NoDisk = NoDisk
    NoNode = NoNode
    Provisioned = {d1, d2}
    Requests <- Moves
    AttachLimit = 1
    Flapping = {n1}
    BadClass = {}
    MayRestart = TRUE
SYMMETRY Symmetry
INVARIANTS
    LocksOwned
    DetachMarksOwned
    AnswerHoldsUnderLock
