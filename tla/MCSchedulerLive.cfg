SPECIFICATION FairSpec
CONSTANTS
    NumCPUs = 2
    b1 = b1
    b2 = b2
    t1 = t1
    Threads = {b1, b2, t1}
    Boot <- MCBoot
    w1 = w1
    Chans = {w1}
    RunprogramChan = w1
    NoCPU = NoCPU
PROPERTIES
    ReadyRuns
