CONSTANTS
    qd = qd
    q1 = q1
    Thread = {t1, t2, t3}
    Elems = 2
    QP = {qd, q1}
    QpDefault = qd
    Calls <- MCCallsG
    MaxHead = 2
SPECIFICATION Spec
INVARIANT ReturnsOwnValue
CHECK_DEADLOCK FALSE
