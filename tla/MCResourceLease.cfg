SPECIFICATION Spec
CONSTANTS
    Owners = {o1, o2}
    MaxEpoch = 5
    Capacity <- MCCapacity
    Requests <- MCRequests
INVARIANTS
    Conservation
    NoLeak
    ReleaseNeverFaults
    HeldLeaseIsBacked
CHECK_DEADLOCK FALSE
