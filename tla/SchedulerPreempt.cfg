SPECIFICATION FairSpec
CONSTANTS
    Boot = t0
    NULL = NULL
    Threads = {t0, t1}
PROPERTY EveryThreadRuns
CHECK_DEADLOCK FALSE
