SPECIFICATION FairSpec
CONSTANTS
    k = k
    p1 = p1
    p2 = p2
    p3 = p3
    Procs = {k, p1, p2, p3}
    kproc = k
    PidMin = 2
    PidMax = 6
    MaxPrograms = 1
    MaxWaits = 2
    SMP = FALSE
    None = None
CHECK_DEADLOCK FALSE
INVARIANTS
    ParentMayWait
