----------------------------- MODULE MCGraphRun -----------------------------
(***************************************************************************)
(* The graphs the runs of GraphRun interpret.                              *)
(***************************************************************************)
EXTENDS GraphRun, TLC

Node(kind, children, approval, depth) ==
    [kind |-> kind, children |-> children, approval |-> approval, ref |-> Nothing,
     iterations |-> 1, depth |-> depth]

Tool == Node("tool_call", <<>>, FALSE, 0)
GatedTool == Node("tool_call", <<>>, TRUE, 0)

\* Every kind of node, with branches side by side that cross both budgets: a tool that must
\* be approved, then a branch on its result to an activity, next to a loop over an activity
\* and a tool, and a nested graph with an activity that must be approved too.
EveryKind ==
    "root" :> Node("parallel", <<"seq", "loop", "sub">>, FALSE, 0)
    @@ "seq" :> Node("sequential", <<"gated", "if">>, FALSE, 0)
    @@ "gated" :> GatedTool
    @@ "if" :> [Node("conditional", <<"then">>, FALSE, 0) EXCEPT !.ref = "gated"]
    @@ "then" :> Node("activity", <<>>, FALSE, 0)
    @@ "loop" :> [Node("loop", <<"body">>, FALSE, 0) EXCEPT !.iterations = 2]
    @@ "body" :> Node("sequential", <<"act", "free">>, FALSE, 0)
    @@ "act" :> Node("activity", <<>>, FALSE, 0)
    @@ "free" :> Tool
    @@ "sub" :> Node("subgraph", <<"join">>, FALSE, 0)
    @@ "join" :> Node("fan_in", <<"inner">>, FALSE, 1)
    @@ "inner" :> Node("activity", <<>>, TRUE, 1)

\* A loop whose body asks for approval in every iteration, under one id.
AskAgain ==
    "root" :> [Node("loop", <<"body">>, FALSE, 0) EXCEPT !.iterations = 2]
    @@ "body" :> Node("sequential", <<"gated">>, FALSE, 0)
    @@ "gated" :> GatedTool

\* A tool and an activity, one after the other, each to be approved, twice.
AskEach ==
    "root" :> [Node("loop", <<"body">>, FALSE, 0) EXCEPT !.iterations = 2]
    @@ "body" :> Node("sequential", <<"gated", "act">>, FALSE, 0)
    @@ "gated" :> GatedTool
    @@ "act" :> Node("activity", <<>>, TRUE, 0)

\* Two tools side by side, one of them or both to be approved.
GatedBeside == "root" :> Node("parallel", <<"gated", "free">>, FALSE, 0)
    @@ "gated" :> GatedTool @@ "free" :> Tool
GatedBoth == "root" :> Node("parallel", <<"gated", "other">>, FALSE, 0)
    @@ "gated" :> GatedTool @@ "other" :> GatedTool

\* Two activities side by side.
Activities == "root" :> Node("parallel", <<"one", "two">>, FALSE, 0)
    @@ "one" :> Node("activity", <<>>, FALSE, 0)
    @@ "two" :> Node("activity", <<>>, FALSE, 0)
=============================================================================
