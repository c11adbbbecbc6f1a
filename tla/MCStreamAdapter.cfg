SPECIFICATION Spec
CONSTANTS
    Indices = {0, 1}
    Deltas <- Wire
    MaxChunks = 4
INVARIANTS LifecycleIsWellFormed LastEndIsComplete
CHECK_DEADLOCK FALSE
