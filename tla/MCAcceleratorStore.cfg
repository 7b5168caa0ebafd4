SPECIFICATION LiveSpec

CONSTANTS
    Procs = {"old", "new"}
    Pids = {1, 2, 3}
    Generations = {1, 2}
    Catalog <- MCTwoReleases
    MaxRepairs = 1
    MaxRecords = 3
    MaxFaults = 2

PROPERTY ActivationKept
PROPERTY Heals
CHECK_DEADLOCK FALSE
