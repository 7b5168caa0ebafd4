SPECIFICATION SpecCancel

CONSTANTS
    first = first
    second = second
    job1 = job1
    job2 = job2
    Calls <- MCCalls
    Jobs <- MCJobs
    Requests <- MCRequests
    maxConcurrentJobs = 1
    maxRetainedJobs = 1
    MaxRestarts = 1

INVARIANT RunOnce
INVARIANT SlotHeld
PROPERTY AbortEnds
CHECK_DEADLOCK FALSE
