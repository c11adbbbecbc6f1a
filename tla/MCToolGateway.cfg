SPECIFICATION Spec
CONSTANTS
    Calls = {c1, c2, c3}
    Results = {c1, c2, c3}
    Keys = {k1}
    Args = {a1, a2}
    NoKey = NoKey
    NoArgs = NoArgs
    NoResult = NoResult
SYMMETRY Symmetry
INVARIANTS KeyHeldOnce EffectsCounted AnswersAgree ServedOwnArguments AuditIsConsistent
PROPERTIES ConfirmedNotRepeated KeepsPromise
