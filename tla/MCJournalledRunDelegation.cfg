SPECIFICATION RunSpec
CONSTANTS
    Appends = {a1, a2, a3, a4}
    Runs = {r1}
    Run = r1
    SubRuns = {root, child}
    Root = root
    Steps = {s1}
    Payloads = {"intent", "result", "denied"}
    PolicyReload = FALSE
    Nobody = Nobody
    LockOf <- OneLock
SYMMETRY Symmetry
INVARIANT SkippedByItsOwnRecord
