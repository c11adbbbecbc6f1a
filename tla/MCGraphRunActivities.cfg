SPECIFICATION Spec
CONSTANTS
    Nodes = {"root", "one", "two"}
    Root = "root"
    Graph <- Activities
    MaxToolCalls = 1
    MaxActivityCalls = 1
    MaxDepth = 0
    ApprovalTTL = TRUE
    Approvers = {p1}
    Nothing = Nothing
INVARIANT ActivityBudgetHolds
