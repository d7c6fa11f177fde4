SPECIFICATION MCSpec
CONSTANTS
    t1 = t1
    t2 = t2
    t3 = t3
    Threads = {t1, t2, t3}
    s1 = s1
    Sems = {s1}
    l1 = l1
    l2 = l2
    Locks = {l1, l2}
    c1 = c1
    CVs = {c1}
    NoThread = NoThread
    InitialCount = 0
    MaxCount = 2
    u1 = u1
    u2 = u2
    Users = {u1, u2}
    Nobody = Nobody
    Clients = {u1, u2}
    Menu = menu
    BufSize = 3
    MaxInput = 3
    MaxPrint = 1
    MaxPolled = 1
    d1 = d1
    d2 = d2
    Data = {d1, d2}
    NoData = NoData
    NumSectors = 2
    MaxLen = 2
SYMMETRY Symmetry
CHECK_DEADLOCK FALSE
INVARIANTS
    TypeOK
    MutualExclusion
    LockNoLostWakeup
    SemNoLostWakeup
    SpinProgress
    WakeInv
    ClearToWrite
    
    WriteReady
    ControllerFreed
PROPERTIES
    ImplementsBlockDevice
