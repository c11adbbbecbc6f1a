SPECIFICATION Spec
CONSTANTS
    Nodes = {"root", "body", "gated"}
    Root = "root"
    Graph <- AskAgain
    MaxToolCalls = 2
    MaxActivityCalls = 1
    MaxDepth = 0
    ApprovalTTL = TRUE
    Approvers = {p1, p2}
    Nothing = Nothing
INVARIANT DecidedOnItsOwn
