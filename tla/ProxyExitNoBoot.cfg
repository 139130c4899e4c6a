CONSTANTS
    Thread = {t1, t2, t3}
    Minimal = FALSE
    BootExit = FALSE
    MainCalls = {}
SPECIFICATION FairSpec
PROPERTY GlobalExitEnds
CHECK_DEADLOCK FALSE
