SPECIFICATION Spec
CONSTANTS
    Nodes = {"root", "gated", "other"}
    Root = "root"
    Graph <- GatedBoth
    MaxToolCalls = 2
    MaxActivityCalls = 1
    MaxDepth = 0
    ApprovalTTL = TRUE
    Approvers = {p1}
    Nothing = Nothing
INVARIANT DecisionIsThere
