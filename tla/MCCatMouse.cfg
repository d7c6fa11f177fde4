SPECIFICATION Spec
CONSTANTS
    c1 = c1
    c2 = c2
    c3 = c3
    m1 = m1
    m2 = m2
    Cats = {c1, c2, c3}
    Mice = {m1, m2}
    NumBowls = 2
    NumLoops = 2
    CAT_TIME = 1
    MOUSE_TIME = 1
    MaxRuns = 2
    None = None
SYMMETRY Symmetry
CHECK_DEADLOCK FALSE
INVARIANTS
    TypeOK
    NoPanic
    NoIdleBowl
    BowlsAgree
    StuckOnlyWhenDone
