SPECIFICATION Spec
CONSTANTS
    k = k
    p1 = p1
    p2 = p2
    p3 = p3
    p4 = p4
    Procs = {k, p1, p2, p3, p4}
    kproc = k
    PidMin = 2
    PidMax = 7

    MaxPrograms = 1
    MaxWaits = 2
    SMP = FALSE
    None = None
CHECK_DEADLOCK FALSE
PROPERTIES
    KeptUntilCollected
