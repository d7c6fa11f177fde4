SPECIFICATION FairSpec
CONSTANTS
    c1 = c1
    c2 = c2
    m1 = m1
    Cats = {c1, c2}
    Mice = {m1}
    NumBowls = 2
    NumLoops = 1
    CAT_TIME = 1
    MOUSE_TIME = 1
    MaxRuns = 1
    None = None
CHECK_DEADLOCK FALSE
PROPERTIES
    AllFinish
