SPECIFICATION Spec
CONSTANTS
    Proc = {p1}
    v1 = v1
    v2 = v2
    old = old
    Pv = {v1, v2}
    Legacy = {}
    Export = Export
    Lock = {l1}
    NoProc = NoProc
    NoPv = NoPv
    NoLock = NoLock
    Creations = {v1, v2}
    Deletions = {v1}
    RootExport = FALSE
    MayRestart = FALSE
INVARIANTS
    IsolatedDirectories
