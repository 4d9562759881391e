SPECIFICATION Spec
CONSTANTS
    MaxRequests = 3
CHECK_DEADLOCK FALSE
INVARIANTS InStep
