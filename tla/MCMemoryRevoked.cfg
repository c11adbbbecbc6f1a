SPECIFICATION Spec
CONSTANTS
    Procs = {p1, p2}
    Tenants = {"acme", "globex"}
    Directories <- SomeDirectories
    Scores = {1}
    HalfLife = 1
    Threshold = 1
    MaxMemories = 2
    MaxAge = 1
    MaxRequests = 4
    MaxFaults = 1
PROPERTY RevokedStaysRevoked
CHECK_DEADLOCK FALSE
