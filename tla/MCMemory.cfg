SPECIFICATION Spec
CONSTANTS
    Procs = {p1, p2}
    Tenants = {"acme", "globex"}
    Directories <- SomeDirectories
    Scores = {1}
    HalfLife = 1
    Threshold = 1
    MaxMemories = 2
    MaxAge = 1
    MaxRequests = 6
    MaxFaults = 1
INVARIANTS ActiveIsEarned WrittenForItsTenant SupersededNamesItsHeir
PROPERTY RevokedIsFinalWhenQuiet
SYMMETRY Symmetric
CHECK_DEADLOCK FALSE
