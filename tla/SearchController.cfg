CONSTANTS
    MaxJobs = 3
    MaxRuns = 3
    MaxProgress = 1
    MaxPages = 2
    MaxMail = 1
SPECIFICATION FairSpec
INVARIANTS OutcomeIsOwn PagesAreCurrent
PROPERTY RunsEnd
CHECK_DEADLOCK FALSE
