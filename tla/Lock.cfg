\* A lock with readers and writers, as Current_Thread_Lock is; until the first
\* reader comes it is a lock that only writers use, as all the others are.
CONSTANTS
    r1 = r1
    r2 = r2
    w1 = w1
    w2 = w2
    w3 = w3
    Readers = {r1, r2}
    Writers = {w1, w2, w3}
SPECIFICATION LockSpec
INVARIANTS ReadersCounted WriterExclusion
PROPERTY LoserNeverReturns
CHECK_DEADLOCK FALSE
