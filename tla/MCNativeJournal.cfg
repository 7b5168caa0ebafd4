SPECIFICATION Spec
CONSTANTS
    Owner = o
    Recoverers = {r1, r2}
    MaxInodes = 2
    MaxChunks = 3
INVARIANTS
    AckedSurvives
    UnresolvedIsKept
    SingleWriter
PROPERTIES
    RecoveryQuarantines
SYMMETRY RecoverersAlike
CHECK_DEADLOCK FALSE
