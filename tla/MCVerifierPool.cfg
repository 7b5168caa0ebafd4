SPECIFICATION Spec
CONSTANTS
    Clients = {c1, c2}
    Callers = {k1, k2}
    MaxTasks = 3
    MaxGeneration = 2
SYMMETRY Symmetry
INVARIANTS
    NoLostWakeup
    FinishIsComplete
PROPERTIES
    AppliesInTurn
CHECK_DEADLOCK FALSE
