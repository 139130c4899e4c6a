CONSTANTS
    N = 11
    Jobs <- MCJobsRadix4
SPECIFICATION Spec
INVARIANT LeftAfterAllEntered
CHECK_DEADLOCK FALSE
