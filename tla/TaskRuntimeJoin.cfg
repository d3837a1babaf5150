CONSTANTS
    TaskCount = 2
    MaxOps = 6
    Capacity = 1
    Windows = TRUE
SPECIFICATION Spec
INVARIANT JoinIsIdempotent
CHECK_DEADLOCK FALSE
