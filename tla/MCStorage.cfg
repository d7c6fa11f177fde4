SPECIFICATION MCSpec
CONSTANTS
    t1 = t1
    t2 = t2
    Threads = {t1, t2}
    name1 = name1
    name2 = name2
    Names = {name1, name2}
    datum = datum
    Data = {datum}
    NumBlocks = 7
    NDirect = 1
    DBPerIDB = 1
    PerBlock = 2
    MaxFault = 8
    Writes <- MCWrites
    Zero = zero
    Stale = stale
    Callers = {t1, t2}
    NumPages = 3
    NPAGEREFS = 2
    NSIZES = 2
    sizes <- MCsizes
    PAGESIZE = 8
    Requests = {2, 3, 9}
    code = code
    data = data
    stack = stack
    CodePages = {code}
    DataPages = {data}
    StackPages = {stack}
    NUMTLB = 2
    NumFrames = 5
    MaxFaults = 5
SYMMETRY Symmetry
CHECK_DEADLOCK FALSE
INVARIANTS
    
    RefsAgree
    BlocksOwnedOnce
    CleanIsDurable
    ListsAgree
    NoOverlap
    TlbMatches
    

    
