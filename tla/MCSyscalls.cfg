SPECIFICATION MCSpec
CONSTANTS
    k = k
    p1 = p1
    p2 = p2
    p3 = p3
    Procs = {k, p1, p2, p3}
    kproc = k
    PidMin = 2
    PidMax = 6
    MaxPrograms = 1
    MaxWaits = 2
    SMP = FALSE
    None = None
    Holders = {1, 2, 3}
    path1 = path1
    path2 = path2
    Paths = {path1, path2}
    OPEN_MAX = 2
    MaxOpens = 2
    NoPath = NoPath
    NoProc = NoProc
CHECK_DEADLOCK FALSE
INVARIANTS
    TypeOK
    StatusTruth
    
    PrivateExact
PROPERTIES
    ExitCompletes
