CONSTANTS
    Thread = {t1, t2}
    MaxIssue = 3
    MaxArrive = 3
SPECIFICATION Spec
CHECK_DEADLOCK FALSE
INVARIANT ConsistencyAtTarget
