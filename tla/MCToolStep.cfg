SPECIFICATION StepSpec
CONSTANTS
    Calls = {c1, c2, c3}
    Results = {c1, c2, c3}
    Keys = {k1}
    Args = {a1}
    NoKey = NoKey
    NoArgs = NoArgs
    NoResult = NoResult
    StepKey = k1
    StepArgs = a1
    MaximumAttempts = 3
INVARIANTS SucceededLanded
PROPERTIES KeySettles StepEnds
