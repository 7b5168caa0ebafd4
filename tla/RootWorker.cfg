CONSTANTS
    MaxJobs = 2
    MaxProgress = 2
    MaxPrewarms = 1
    Policies = {"full"}
SPECIFICATION FairSpec
INVARIANTS RunsUnderLease PoolBelongsToJob
PROPERTIES Implements JobsEnd
CHECK_DEADLOCK FALSE
