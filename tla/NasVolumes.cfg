SPECIFICATION FairSpec
CONSTANTS
    Proc = {p1, p2}
    v1 = v1
    v2 = v2
    old = old
    Pv = {v1, old}
    Legacy = {old}
    Export = Export
    Lock = {l1, l2}
    NoProc = NoProc
    NoPv = NoPv
    NoLock = NoLock
    Creations = {v1}
    Deletions = {v1, old}
    RootExport = TRUE
    MayRestart = TRUE
INVARIANTS
    TypeOK
    CreationExclusive
    MadeInExport
    VolumesKept
PROPERTIES
    Completed
