SPECIFICATION RunSpec
CONSTANTS
    Appends = {a1, a2, a3}
    Runs = {r1}
    Run = r1
    SubRuns = {root}
    Root = root
    Steps = {s1}
    Payloads = {"intent", "result", "denied"}
    PolicyReload = TRUE
    Nobody = Nobody
    LockOf <- OneLock
SYMMETRY Symmetry
INVARIANT DeniedMeansNoEffect
