SPECIFICATION FairSpec
CONSTANTS
    t1 = t1
    t2 = t2
    t3 = t3
    Threads = {t1, t2, t3}
    s1 = s1
    Sems = {s1}
    l1 = l1
    Locks = {l1}
    c1 = c1
    CVs = {c1}
    NoThread = NoThread
    InitialCount = 0
    MaxCount = 2
CHECK_DEADLOCK FALSE
PROPERTIES
    ImplementsMonitor
    WokenRuns
    FreeLockTaken
