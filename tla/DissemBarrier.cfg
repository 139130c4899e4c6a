CONSTANTS
    N = 5
    Jobs <- MCJobs
SPECIFICATION FairSpec
INVARIANT TypeOK
PROPERTIES Synchronizes SlotsGrow EverybodyLeaves
CHECK_DEADLOCK FALSE
