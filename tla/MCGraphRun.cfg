SPECIFICATION Spec
CONSTANTS
    Nodes = {"root", "seq", "gated", "if", "then", "loop", "body", "act", "free", "sub", "join", "inner"}
    Root = "root"
    Graph <- EveryKind
    MaxToolCalls = 1
    MaxActivityCalls = 1
    MaxDepth = 1
    ApprovalTTL = TRUE
    Approvers = {p1}
    Nothing = Nothing
INVARIANT OvershootIsBounded
PROPERTY PausedRunDrains
