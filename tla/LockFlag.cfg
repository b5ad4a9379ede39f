\* A lock with readers and writers, as Current_Thread_Lock is.
CONSTANTS
    r1 = r1
    r2 = r2
    w1 = w1
    w2 = w2
    Readers = {r1, r2}
    Writers = {w1, w2}
SPECIFICATION LockSpec
SYMMETRY Symmetry
INVARIANT WriterFlagSurvives
CHECK_DEADLOCK FALSE
