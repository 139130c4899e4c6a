CONSTANTS
    Thread = {t1, t2}
    MaxIssue = 3
    MaxArrive = 3
SPECIFICATION FairSpec
INVARIANTS TypeOK FreshTicketFlushes
PROPERTY ConsistencyReturns
CHECK_DEADLOCK FALSE
