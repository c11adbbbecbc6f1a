SPECIFICATION Spec
CONSTANTS
    Calls = {c1, c2}
    Runs = {r1}
    NoRun = NoRun
    NoAgent = NoAgent
    Remotes = {here, there}
    TaskIds = {1, 2}
    t1 = t1
    t2 = t2
    a1 = a1
    r1 = r1
    a2 = a2
    here = here
    there = there
    Dirs <- SomeDirs
    Requests <- SomeRequests
    RemoteStates = {"input-required", "exotic", "completed"}
    MaxInFlight = 1
    MaxRequests = 3
    MaxFaults = 1
INVARIANTS WidthIsBounded FreedOnlyWhenOver ForwardedIsApproved
PROPERTY WidthIsRegained
CHECK_DEADLOCK FALSE
