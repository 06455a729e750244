SPECIFICATION Spec
CONSTANTS
    Proc = {p1, p2}
    Disk = {d1}
    d1 = d1
    Target = {t1}
    NoProc = NoProc
    NoDisk = NoDisk
    NoTarget = NoTarget
    volumeOf <- OneDisk
    MaxBinds = 2
    Drivers = {"ebs", "eks", "cds", "ccs", "oss", "nas"}
    Overlap <- Overlaps
SYMMETRY Symmetry
INVARIANTS
    TypeOK
    MarksOwned
    StagedIsMounted
    NoBareBind
    DataKept
    LetGo
