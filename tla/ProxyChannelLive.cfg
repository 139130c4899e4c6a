CONSTANTS
    t1 = t1
    t2 = t2
    qd = qd
    q1 = q1
    Thread = {t1, t2}
    BufSize = 4
    SyncEvery = 2
    BatchMax = 1
    QP = {qd}
    QpDefault = qd
    Endpoints <- MCEndpointDefault
    SyncArgs <- MCSyncDefault
    Ops = {"P", "QUIET", "QUIET_QP"}
    FetchOnQuiet = FALSE
    MaxIssue = 7
SPECIFICATION FairSpec
PROPERTY OperationsReturn
