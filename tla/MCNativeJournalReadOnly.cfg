SPECIFICATION Spec
CONSTANTS
    Owner = o
    Recoverers = {r1}
    MaxInodes = 2
    MaxChunks = 4
PROPERTIES
    QuarantineIsReadOnly
CHECK_DEADLOCK FALSE
