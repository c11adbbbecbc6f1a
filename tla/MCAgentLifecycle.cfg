SPECIFICATION Spec
CONSTANTS
    Procs = {p1, p2}
    t1 = t1
    t2 = t2
    v1 = v1
    Tenants = {t1, t2}
    Versions = {v1}
    Observations <- SomeObservations
    Descriptors <- SomeDescriptors
    Registered <- RegisteredBefore
    SecretNames = {"token", "gone"}
    Environment <- OneSecret
    BrokerAttached = FALSE
    WindowSize = 2
    MinSamples = 2
    MaxFailurePercent = 50
    MaxAvgCost = 4
    MaxRequests = 5
    MaxFaults = 1
SYMMETRY Symmetry
INVARIANTS OnlyGatedIsReleased TripIsApplied LateStartsAreInFlight
CHECK_DEADLOCK FALSE
