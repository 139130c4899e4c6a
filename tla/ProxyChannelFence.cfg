CONSTANTS
    t1 = t1
    t2 = t2
    qd = qd
    q1 = q1
    Thread = {t1}
    BufSize = 8
    SyncEvery = 2
    BatchMax = 2
    QP = {qd, q1}
    QpDefault = qd
    Endpoints <- MCEndpoints
    SyncArgs <- MCSyncTwo
    Ops = {"P", "FENCE_QP"}
    FetchOnQuiet = TRUE
    MaxIssue = 12
SPECIFICATION Spec
INVARIANT FenceAtNamedPe
