SPECIFICATION Spec
CONSTANTS
    Calls = {c1, c2}
    r1 = r1
    k1 = k1
    NoRun = NoRun
    NoKey = NoKey
    cloud = cloud
    spare = spare
    local = local
    stray = stray
    Models = {cloud, spare, local, stray}
    Provider <- ProviderOf
    Bundle <- TheBundle
    Requests <- SomeRequests
    Budgets <- CostCeiling
    Registered <- RegisteredProviders
    Scored = {cloud}
    Bodies <- SomeBodies
    Usages <- OneUsage
    Past <- PastCalls
    MaxArrivals = 2
    MaxFaults = 1
SYMMETRY Symmetry
INVARIANTS OvershootIsBounded EveryAnswerIsRecorded ReconcileFindsOnlyGaps RestrictedStaysInside NeverSpliced
CHECK_DEADLOCK FALSE
