SPECIFICATION FairSpec
CONSTANTS
    N = 2
    BatchCapacity = 2
    MaxCandidates = 5
    MayPanic = TRUE
INVARIANTS
    ExecutesOnce
    AppliedOnlyWhenAllSealed
    OkIsComplete
    TaskBoundSuffices
PROPERTIES
    FollowsProtocol
    JobReturns
CHECK_DEADLOCK FALSE
