SPECIFICATION Spec
CONSTANTS
    NumCPUs = 2
    b1 = b1
    b2 = b2
    t1 = t1
    t2 = t2
    Threads = {b1, b2, t1, t2}
    Boot <- MCBoot
    w1 = w1
    Chans = {w1}
    RunprogramChan = w1
    NoCPU = NoCPU
SYMMETRY Symmetry
INVARIANTS
    TypeOK
    OnePlace
    OneStack
    NoLostUnidle
    CpuAgrees
    EnoughVictims
