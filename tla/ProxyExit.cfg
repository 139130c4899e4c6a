CONSTANTS
    Thread = {t1, t2, t3}
    Minimal = FALSE
    BootExit = TRUE
    MainCalls = {"finalize", "global_exit"}
SPECIFICATION FairSpec
INVARIANTS TypeOK CodeBeforeExit TornDownOnce
PROPERTY GlobalExitEnds
CHECK_DEADLOCK FALSE
