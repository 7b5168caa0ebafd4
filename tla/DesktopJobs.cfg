CONSTANTS
    MaxJobs = 2
    MaxCalls = 2
    MaxLeaves = 2
SPECIFICATION FairSpec
INVARIANTS ToldAsSent NoOrphan
PROPERTY SearchSettles
CHECK_DEADLOCK FALSE
