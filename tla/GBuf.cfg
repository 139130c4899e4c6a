CONSTANTS
    qd = qd
    q1 = q1
    Thread = {t1, t2, t3}
    Elems = 2
    QP = {qd, q1}
    QpDefault = qd
    Calls <- MCCalls
    MaxHead = 5
SPECIFICATION FairSpec
INVARIANTS TypeOK OneHolder ReturnsOwnValue
PROPERTY CallsReturn
CHECK_DEADLOCK FALSE
