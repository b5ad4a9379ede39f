SPECIFICATION Spec
CONSTANTS
    Boot = t0
    NULL = NULL
    Threads = {t0, t1, t2, t3}
INVARIANTS RingIntact LockHeldOnCpu 
CHECK_DEADLOCK FALSE
