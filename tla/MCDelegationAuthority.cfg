SPECIFICATION Spec
CONSTANTS
    Tasks <- MCTasks
    Workers = {w1}
    Results = {r1, r2}
    None = None
    OfferAcceptTimeout = 1
    PersistedRenewal = 1
    ActiveLeaseExpiry = 1
    TombstoneRetention = 1
    MaxTime = 2
INVARIANTS
    LiveMatchesReplay
    PermitIsDurable
PROPERTIES
    TerminalIsFinal
    SealedResultIsFinal
    NoResume
CHECK_DEADLOCK FALSE
