SPECIFICATION Spec
CONSTANTS
    Nodes = {"root", "gated", "free"}
    Root = "root"
    Graph <- GatedBeside
    MaxToolCalls = 2
    MaxActivityCalls = 1
    MaxDepth = 0
    ApprovalTTL = TRUE
    Approvers = {p1}
    Nothing = Nothing
PROPERTY NoWorkPastDeadline
