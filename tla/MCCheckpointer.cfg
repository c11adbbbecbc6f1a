SPECIFICATION Spec
CONSTANTS
    Appends = {a1, a2, a3}
    Runs = {r1, r2}
    SubRuns = {root, child}
    Steps = {s1}
    Payloads = {p1, p2}
    Nobody = Nobody
    LockOf <- OneLock
SYMMETRY Symmetry
INVARIANTS SeqIsDense NoAppendConflicts AcknowledgedIsDurable LoadedIsPrefix
