CONSTANTS
    t1 = t1
    t2 = t2
    qd = qd
    q1 = q1
    Thread = {t1}
    BufSize = 8
    SyncEvery = 2
    BatchMax = 2
    QP = {qd, q1}
    QpDefault = qd
    Endpoints <- MCEndpointsOnePe
    SyncArgs <- MCSyncTwo
    Ops = {"PUT", "G", "AMO", "FETCH", "PUT_SIGNAL", "FENCE", "FENCE_QP", "QUIET"}
    FetchOnQuiet = TRUE
    MaxIssue = 9
SPECIFICATION Spec
INVARIANTS PostedInIssueOrder QuietComplete
