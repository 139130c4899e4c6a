CONSTANTS
    t1 = t1
    t2 = t2
    qd = qd
    q1 = q1
    Thread = {t1, t2}
    BufSize = 4
    SyncEvery = 2
    BatchMax = 2
    QP = {qd, q1}
    QpDefault = qd
    Endpoints <- MCEndpoints
    SyncArgs <- MCSync
    Ops = {"P", "GET", "QUIET_QP", "QUIET"}
    FetchOnQuiet = FALSE
    MaxIssue = 9
SPECIFICATION Spec
INVARIANTS TypeOK EntriesIntact FlagsFresh PostedInIssueOrder QuietComplete QpQuietComplete
SYMMETRY Symmetry
