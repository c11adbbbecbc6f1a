SPECIFICATION Spec
CONSTANTS
    Nodes = {"root", "body", "gated", "act"}
    Root = "root"
    Graph <- AskEach
    MaxToolCalls = 2
    MaxActivityCalls = 2
    MaxDepth = 0
    ApprovalTTL = FALSE
    Approvers = {p1, p2}
    Nothing = Nothing
INVARIANTS ApprovedBeforeScheduled PendingIsAwaited
PROPERTY RunEndsOrIsHeld
