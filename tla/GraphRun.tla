------------------------------ MODULE GraphRun ------------------------------
(***************************************************************************)
(* A graph run: the workflow that interprets a graph                       *)
(* (python/aeon_worker/graph.py and workflows/graph_run.py), and the run   *)
(* controller whose callers pause, resume, cancel and decide approvals     *)
(* (go/internal/runcontroller/controller.go).                              *)
(*                                                                         *)
(* Workflow code is single-threaded: a step of a node is the code between  *)
(* two awaits, and the steps that are ready all run before the workflow    *)
(* takes the next events.  Several events may be applied before the        *)
(* conditions of wait_condition are looked at, and then every waiter whose *)
(* condition holds is woken at once (temporalio's event loop).             *)
(***************************************************************************)
EXTENDS Integers, Sequences, FiniteSets, Functions

CONSTANTS
    Nodes,             \* the nodes of the graph
    Root,              \* its outermost node
    Graph,             \* Graph[n]: what the GraphNode says, see GraphAssumption
    MaxToolCalls,      \* budgets.max_tool_calls
    MaxActivityCalls,  \* budgets.max_activity_calls
    MaxDepth,          \* budgets.max_depth
    ApprovalTTL,       \* whether the request sets approvals.default_ttl_seconds
    Approvers,         \* the requests to POST /approve and /reject
    Nothing            \* None, and the ref of a node that has no condition

Work == {"tool_call", "activity"}
Composite == {"sequential", "parallel", "fan_in", "conditional", "loop", "subgraph"}

\* children: children, the branches if_true and if_false, the body or the inner
\* graph.  depth: the number of subgraphs around the node.  A graph is a nested
\* document, so no node is a child of two.
ASSUME GraphAssumption ==
    /\ Root \in Nodes /\ Nothing \notin Nodes \cup Approvers
    /\ \A n, m \in Nodes : n # m => Range(Graph[n].children) \cap Range(Graph[m].children) = {}
    /\ \A n \in Nodes :
           /\ Graph[n].kind \in Work \cup Composite
           /\ Graph[n].children \in Seq(Nodes)
           /\ Graph[n].kind \in {"loop", "subgraph"} => Graph[n].children # <<>>
           /\ Graph[n].approval \in BOOLEAN
           /\ Graph[n].ref \in Nodes \cup {Nothing}
           /\ Graph[n].iterations \in Nat \ {0} /\ Graph[n].depth \in Nat
           /\ Root \notin Range(Graph[n].children)
           /\ \A c \in Range(Graph[n].children) :
                  Graph[c].depth = Graph[n].depth + (IF Graph[n].kind = "subgraph" THEN 1 ELSE 0)

\* None is no approval that could be pending.
ASSUME NothingAssumption == Nothing \notin [id : Nat, node : Nodes, hash : Nodes \X Nat]

ASSUME NodesAssumption == IsFiniteSet(Nodes)
ASSUME BudgetAssumption == {MaxToolCalls, MaxActivityCalls, MaxDepth} \subseteq Nat
ASSUME TTLAssumption == ApprovalTTL \in BOOLEAN

VARIABLES
    run,        \* the status of the workflow; "stuck": its task fails forever
    st,         \* st[n]: where the coroutine of node n stands, or its last one ended
    pos,        \* pos[n]: the child, or the iteration, a composite node is at
    verdict,    \* verdict[n]: how the approval of n was decided
    context,    \* context[n]: what a condition on n's result evaluates to
    consumed,   \* BudgetsConsumed
    stepSeq,    \* step_seq
    paused,     \* _paused
    pending,    \* _pending_approval
    decision,   \* _approval_decision
    asked,      \* how many approvals have been asked for
    late,       \* the deadline has passed
    cancelled,  \* a cancellation has been requested
    request,    \* request[p]: what approver p holds
    journalled  \* journalled[i]: the decision in the run's journal for approval i

workflow == <<run, st, pos, verdict, context, consumed, stepSeq, pending, decision, asked>>
outside == <<paused, late, cancelled, request, journalled>>
vars == <<workflow, outside>>

NoRequest == [at |-> "idle", id |-> 0, hash |-> Nothing, approved |-> FALSE]

Init ==
    /\ run = "running"
    /\ st = [n \in Nodes |-> IF n = Root THEN "enter" ELSE "idle"]
    /\ pos = [n \in Nodes |-> 0]
    /\ verdict = [n \in Nodes |-> "none"]
    /\ context = [n \in Nodes |-> "missing"]
    /\ consumed = [tools |-> 0, activities |-> 0, depth |-> 0]
    /\ stepSeq = 0
    /\ paused = FALSE
    /\ pending = Nothing
    /\ decision = Nothing
    /\ asked = 0
    /\ late = FALSE
    /\ cancelled = FALSE
    /\ request = [p \in Approvers |-> NoRequest]
    /\ journalled = [i \in {} |-> FALSE]

-----------------------------------------------------------------------------
Kind(n) == Graph[n].kind
Children(n) == Range(Graph[n].children)

\* The children a composite node has started and waits for.
Awaited(n) ==
    IF Kind(n) \in {"parallel", "fan_in"} THEN Children(n)
    ELSE IF Kind(n) = "loop" THEN {Graph[n].children[1]}
    ELSE IF pos[n] = 0 THEN {} ELSE {Graph[n].children[pos[n]]}

Joined(n) == st[n] = "children" /\ \A c \in Awaited(n) : st[c] = "done"

\* Nothing is left to run before the next event.
Settled ==
    /\ run = "running"
    /\ \A n \in Nodes : st[n] \notin {"enter", "go", "woken"} /\ ~Joined(n)

Ready(n, from) == st[n] = from /\ run = "running"
Awakens(n, from) == st[n] = from /\ Settled

Goto(n, to) == st' = [st EXCEPT ![n] = to]

\* An exception of the node reaches the workflow: gather passes on the first one.
Fails ==
    /\ run' = "failed"
    /\ UNCHANGED <<st, pos, verdict, context, consumed, stepSeq, pending, decision, asked>>

-----------------------------------------------------------------------------
(* execute_graph: the limits and the pause gate, then the kind of the node. *)

\* Mutant of Enter: is_paused() is taken once, at the head of the graph.
EnterGatedOnce(n) ==
    /\ Ready(n, "enter")
    /\ \/ Graph[n].depth > MaxDepth /\ Fails
       \/ /\ Graph[n].depth <= MaxDepth
          /\ consumed' = [consumed EXCEPT
                 !.depth = IF Graph[n].depth > @ THEN Graph[n].depth ELSE @]
          /\ \/ late /\ run' = "failed" /\ UNCHANGED st
             \/ ~late /\ Goto(n, IF paused /\ n = Root THEN "gated" ELSE "go") /\ UNCHANGED run
          /\ UNCHANGED <<pos, verdict, context, stepSeq, pending, decision, asked>>
    /\ UNCHANGED outside

Enter(n) ==
    /\ Ready(n, "enter")
    /\ \/ Graph[n].depth > MaxDepth /\ Fails
       \/ /\ Graph[n].depth <= MaxDepth
          /\ consumed' = [consumed EXCEPT
                 !.depth = IF Graph[n].depth > @ THEN Graph[n].depth ELSE @]
          /\ \/ late /\ run' = "failed" /\ UNCHANGED st
             \/ ~late /\ Goto(n, IF paused THEN "gated" ELSE "go") /\ UNCHANGED run
          /\ UNCHANGED <<pos, verdict, context, stepSeq, pending, decision, asked>>
    /\ UNCHANGED outside

\* Mutant of InBudget: the call that trips the limit is let through.
InBudgetPast(n) ==
    IF Kind(n) = "tool_call" THEN consumed.tools <= MaxToolCalls
    ELSE consumed.activities <= MaxActivityCalls

InBudget(n) ==
    IF Kind(n) = "tool_call" THEN consumed.tools + 1 <= MaxToolCalls
    ELSE consumed.activities + 1 <= MaxActivityCalls

\* The counter moves and the activity is scheduled, in one step.
Schedule(n) ==
    /\ Goto(n, "scheduled")
    /\ \/ /\ Kind(n) = "tool_call"
          /\ consumed' = [consumed EXCEPT !.tools = @ + 1]
          /\ stepSeq' = stepSeq + 1
       \/ /\ Kind(n) = "activity"
          /\ consumed' = [consumed EXCEPT !.activities = @ + 1]
          /\ UNCHANGED stepSeq
    /\ UNCHANGED <<run, pos, verdict, context, pending, decision, asked>>

\* The iterations of a loop run under ids of their own, so the body's own id names
\* no result.  The nodes below the body keep their ids.
Unnamed(n) == \E l \in Nodes : Kind(l) = "loop" /\ Graph[l].children[1] = n

\* compute_tool_call_hash and compute_activity_call_hash: node id and parameters.
Hash(n) ==
    <<n, IF Unnamed(n) THEN pos[CHOOSE l \in Nodes : n \in Children(l)] ELSE 0>>

\* The head of _await_approval: one slot for the whole run.
AwaitApproval(n) ==
    /\ asked' = asked + 1
    /\ pending' = [id |-> asked + 1, node |-> n, hash |-> Hash(n)]
    /\ decision' = Nothing
    /\ verdict' = [verdict EXCEPT ![n] = "none"]
    /\ Goto(n, "recording")
    /\ UNCHANGED <<run, pos, context, consumed, stepSeq>>

\* An activity is put to the policy before a person is asked.
BeginWork(n) ==
    /\ Ready(n, "go") /\ Kind(n) \in Work
    /\ \/ ~InBudget(n) /\ Fails
       \/ InBudget(n) /\ Kind(n) = "tool_call" /\ Graph[n].approval /\ AwaitApproval(n)
       \/ InBudget(n) /\ Kind(n) = "tool_call" /\ ~Graph[n].approval /\ Schedule(n)
       \/ /\ InBudget(n) /\ Kind(n) = "activity"
          /\ Goto(n, "policy")
          /\ UNCHANGED <<run, pos, verdict, context, consumed, stepSeq, pending, decision, asked>>
    /\ UNCHANGED outside

\* What a condition makes of n's result; without a condition on it, it makes no difference.
Results(n) == IF \E m \in Nodes : Graph[m].ref = n THEN {"match", "no match"} ELSE {"no match"}

Finish(n, result) ==
    /\ Goto(n, "done")
    /\ context' = IF Unnamed(n) THEN context ELSE [context EXCEPT ![n] = result]
    /\ run' = IF n = Root THEN "succeeded" ELSE run
    /\ UNCHANGED <<verdict, consumed, stepSeq, pending, decision, asked>>

\* Starts the children in S; one that a loop ran before runs again from its start.
Start(n, S, at) ==
    /\ st' = [m \in Nodes |->
                 IF m = n THEN "children" ELSE IF m \in S THEN "enter" ELSE st[m]]
    /\ pos' = [pos EXCEPT ![n] = at]
    /\ UNCHANGED <<run, verdict, context, consumed, stepSeq, pending, decision, asked>>

\* A condition on a node that has no result takes the other branch.
Branch(n) == IF context[Graph[n].ref] = "match" THEN 1 ELSE 2

Descend(n) ==
    /\ Ready(n, "go") /\ Kind(n) \in Composite
    /\ \/ Kind(n) \in {"parallel", "fan_in"} /\ Start(n, Children(n), 0)
       \/ Kind(n) \in {"loop", "subgraph"} /\ Start(n, {Graph[n].children[1]}, 1)
       \/ /\ Kind(n) = "sequential"
          /\ IF Graph[n].children = <<>> THEN Start(n, {}, 0)
             ELSE Start(n, {Graph[n].children[1]}, 1)
       \/ /\ Kind(n) = "conditional"
          /\ IF Branch(n) > Len(Graph[n].children) THEN Start(n, {}, 0)
             ELSE Start(n, {Graph[n].children[Branch(n)]}, Branch(n))
    /\ UNCHANGED outside

\* What the node awaited is done: the next child, the next iteration, or its result.
Advance(n) ==
    /\ run = "running" /\ Joined(n)
    /\ \/ /\ Kind(n) = "sequential" /\ pos[n] < Len(Graph[n].children)
          /\ Start(n, {Graph[n].children[pos[n] + 1]}, pos[n] + 1)
       \/ /\ Kind(n) = "loop" /\ pos[n] < Graph[n].iterations
          /\ Start(n, {Graph[n].children[1]}, pos[n] + 1)
       \/ /\ Kind(n) = "sequential" => pos[n] = Len(Graph[n].children)
          /\ \E result \in Results(n) : Finish(n, result)
          /\ UNCHANGED pos
    /\ UNCHANGED outside

-----------------------------------------------------------------------------
(* Conditions, approvals and the activities the nodes wait for. *)

\* Every waiter whose condition holds is woken, in one go.
CheckConditions ==
    /\ Settled
    /\ st' = [n \in Nodes |->
                 IF st[n] = "gated" /\ ~paused THEN "go"
                 ELSE IF st[n] = "waiting" /\ decision # Nothing THEN "woken" ELSE st[n]]
    /\ st' # st
    /\ UNCHANGED <<run, pos, verdict, context, consumed, stepSeq, pending, decision, asked, outside>>

PolicyAnswer(n) ==
    /\ Awakens(n, "policy")
    /\ \/ Graph[n].approval /\ AwaitApproval(n)
       \/ ~Graph[n].approval /\ Schedule(n)
       \/ Fails
    /\ UNCHANGED outside

\* Mutant of Suspend: the last decision is forgotten after the record, not before it.
SuspendForgets(n) ==
    /\ Awakens(n, "recording")
    /\ Goto(n, "waiting")
    /\ decision' = Nothing
    /\ UNCHANGED <<run, pos, verdict, context, consumed, stepSeq, pending, asked, outside>>

\* The record of the suspension is written, or its failure is logged and dropped.
Suspend(n) ==
    /\ Awakens(n, "recording")
    /\ Goto(n, "waiting")
    /\ UNCHANGED <<run, pos, verdict, context, consumed, stepSeq, pending, decision, asked, outside>>

\* Mutant of Decide: the approval that was decided stays pending.
DecideLeavesPending(n) ==
    /\ Ready(n, "woken") /\ decision # Nothing
    /\ verdict' = [verdict EXCEPT ![n] =
           IF decision.hash = Hash(n) /\ decision.approved THEN "granted" ELSE "denied"]
    /\ Goto(n, "closing")
    /\ decision' = Nothing
    /\ UNCHANGED <<run, pending, pos, context, consumed, stepSeq, asked, outside>>

\* Mutant of Decide: whatever the decision was made about is taken for approved.
DecideAnyHash(n) ==
    /\ Ready(n, "woken") /\ decision # Nothing
    /\ verdict' = [verdict EXCEPT ![n] = IF decision.approved THEN "granted" ELSE "denied"]
    /\ Goto(n, "closing")
    /\ pending' = Nothing
    /\ decision' = Nothing
    /\ UNCHANGED <<run, pos, context, consumed, stepSeq, asked, outside>>

\* wait_condition returned.  A decision another waiter took is None: the
\* assertion is no ApplicationError, so the workflow task fails and is retried.
Decide(n) ==
    /\ Ready(n, "woken")
    /\ \/ /\ decision = Nothing
          /\ run' = "stuck"
          /\ UNCHANGED <<st, verdict, pending, decision>>
       \/ /\ decision # Nothing
          /\ verdict' = [verdict EXCEPT ![n] =
                 IF decision.hash = Hash(n) /\ decision.approved THEN "granted" ELSE "denied"]
          /\ Goto(n, "closing")
          /\ pending' = Nothing
          /\ decision' = Nothing
          /\ UNCHANGED run
    /\ UNCHANGED <<pos, context, consumed, stepSeq, asked, outside>>

\* The TTL ends first, where the wait has one: the run controller's requests set none.
Expire(n) ==
    /\ ApprovalTTL /\ Awakens(n, "waiting")
    /\ verdict' = [verdict EXCEPT ![n] = "expired"]
    /\ Goto(n, "closing")
    /\ pending' = Nothing
    /\ UNCHANGED <<run, pos, context, consumed, stepSeq, decision, asked, outside>>

\* The closing record is written, or dropped, and only then the verdict counts.
Close(n) ==
    /\ Awakens(n, "closing")
    /\ IF verdict[n] = "granted" THEN Schedule(n) ELSE Fails
    /\ UNCHANGED outside

\* The activity ends: module ToolStep has what goes on in it.
WorkEnds(n) ==
    /\ Awakens(n, "scheduled")
    /\ \/ (\E result \in Results(n) : Finish(n, result)) /\ UNCHANGED pos
       \/ Fails
    /\ UNCHANGED outside

-----------------------------------------------------------------------------
(* The run controller and the clock. *)

Pause ==
    /\ Settled /\ ~paused
    /\ paused' = TRUE
    /\ UNCHANGED <<workflow, late, cancelled, request, journalled>>

Resume ==
    /\ Settled /\ paused
    /\ paused' = FALSE
    /\ UNCHANGED <<workflow, late, cancelled, request, journalled>>

DeadlinePasses ==
    /\ Settled /\ ~late
    /\ late' = TRUE
    /\ UNCHANGED <<workflow, paused, cancelled, request, journalled>>

\* Cancellation is raised in every await.  In the awaits of the records it comes
\* as the ActivityError of a cancelled activity, which is logged and dropped.
Cancel ==
    /\ Settled /\ ~cancelled
    /\ cancelled' = TRUE
    /\ \/ /\ \E n \in Nodes : st[n] \in {"gated", "policy", "waiting", "scheduled"}
          /\ run' = "cancelled"
       \/ /\ ~\E n \in Nodes : st[n] \in {"gated", "policy", "waiting", "scheduled"}
          /\ UNCHANGED run
    /\ UNCHANGED <<st, pos, verdict, context, consumed, stepSeq, pending, decision, asked>>
    /\ UNCHANGED <<paused, late, request, journalled>>

\* An approver sees a pending approval in the status of the run.
See(p) ==
    /\ Settled /\ pending # Nothing
    /\ request[p].at = "idle"
    /\ request' = [request EXCEPT ![p] = [NoRequest EXCEPT !.at = "seen", !.hash = pending.hash]]
    /\ UNCHANGED <<workflow, paused, late, cancelled, journalled>>

\* sendApprovalDecision asks again what is pending, for its id, and keeps the hash
\* of the caller.
Query(p) ==
    /\ Settled \/ run \in {"succeeded", "failed", "cancelled"}
    /\ request[p].at = "seen"
    /\ \E approved \in BOOLEAN :
           request' = [request EXCEPT ![p] =
               IF pending = Nothing THEN [NoRequest EXCEPT !.at = "failed"]
               ELSE [at |-> "queried", id |-> pending.id, hash |-> @.hash, approved |-> approved]]
    /\ UNCHANGED <<workflow, paused, late, cancelled, journalled>>

\* The approve and reject signals overwrite the decision that is there.
Signal(p) ==
    /\ Settled /\ request[p].at = "queried"
    /\ decision' = [id |-> request[p].id, hash |-> request[p].hash,
                    approved |-> request[p].approved]
    /\ request' = [request EXCEPT ![p].at = "signalled"]
    /\ UNCHANGED <<run, st, pos, verdict, context, consumed, stepSeq, pending, asked>>
    /\ UNCHANGED <<paused, late, cancelled, journalled>>

\* A run that is over takes no signal.
SignalRefused(p) ==
    /\ run \in {"succeeded", "failed", "cancelled"} /\ request[p].at = "queried"
    /\ request' = [request EXCEPT ![p].at = "failed"]
    /\ UNCHANGED <<workflow, paused, late, cancelled, journalled>>

\* journalApproval: the first record of an approval is the one that stays, and a
\* journal that is down fails nothing.
JournalApproval(p) ==
    /\ request[p].at = "signalled"
    /\ request' = [request EXCEPT ![p].at = "done"]
    /\ \/ UNCHANGED journalled
       \/ /\ request[p].id \notin DOMAIN journalled
          /\ journalled' = [i \in DOMAIN journalled \cup {request[p].id} |->
                 IF i = request[p].id THEN request[p].approved ELSE journalled[i]]
    /\ UNCHANGED <<workflow, paused, late, cancelled>>

-----------------------------------------------------------------------------
Internal ==
    \/ \E n \in Nodes : Enter(n) \/ BeginWork(n) \/ Descend(n) \/ Advance(n) \/ Decide(n)
    \/ CheckConditions

Activity(n) == PolicyAnswer(n) \/ Suspend(n) \/ Close(n) \/ WorkEnds(n)

External ==
    \/ Pause \/ Resume \/ DeadlinePasses \/ Cancel
    \/ \E p \in Approvers : See(p) \/ Query(p) \/ Signal(p) \/ SignalRefused(p) \/ JournalApproval(p)

Over == run # "running" /\ UNCHANGED vars

Next ==
    \/ Internal
    \/ \E n \in Nodes : Activity(n) \/ Expire(n)
    \/ External
    \/ Over

\* The activities of Aeon's own worker, each with a timeout and a bounded number of
\* attempts.  An activity node's work is another team's: on a queue that nobody serves
\* it waits for ever.
OwnActivity(n) ==
    PolicyAnswer(n) \/ Suspend(n) \/ Close(n) \/ (Kind(n) = "tool_call" /\ WorkEnds(n))

\* The worker goes on with the workflow, takes finitely many events at a time and ends
\* its own activities, and a TTL runs out if there is one.  Operators, approvers, other
\* teams' workers, cancellation and the deadline owe nothing.
Fairness ==
    /\ WF_vars(Internal) /\ SF_vars(CheckConditions)
    /\ SF_vars(\E n \in Nodes : OwnActivity(n))
    /\ SF_vars(\E n \in Nodes : Expire(n))

Spec == Init /\ [][Next]_vars /\ Fairness

-----------------------------------------------------------------------------
(* Properties. *)

States == {"idle", "enter", "gated", "go", "children", "policy", "recording", "waiting",
           "woken", "closing", "scheduled", "done"}

\* Type correctness of the run.
TypeOK ==
    /\ run \in {"running", "succeeded", "failed", "cancelled", "stuck"}
    /\ st \in [Nodes -> States]
    /\ pos \in [Nodes -> Nat]
    /\ verdict \in [Nodes -> {"none", "granted", "denied", "expired"}]
    /\ context \in [Nodes -> {"missing", "match", "no match"}]
    /\ consumed \in [tools : Nat, activities : Nat, depth : Nat]
    /\ stepSeq \in Nat /\ asked \in Nat
    /\ {paused, late, cancelled} \subseteq BOOLEAN

AwaitsDecision(n) == st[n] \in {"recording", "waiting", "woken"}

\* "approval gates must never be quietly skippable": while work that requires
\* approval runs, an approver has sent an approval of exactly these parameters.
ApprovedBeforeScheduled ==
    \A n \in Nodes : Graph[n].approval /\ st[n] = "scheduled" =>
        \E p \in Approvers : /\ request[p].at \in {"signalled", "done"}
                             /\ request[p].approved /\ request[p].hash = Hash(n)

\* The graph starts no two children at once.
InLine ==
    \A n \in Nodes : Kind(n) \in {"parallel", "fan_in"} => \A c, d \in Children(n) : c = d

\* What is pending is what a node waits for, and who waits is pending.
SlotIsAwaited ==
    run = "running" =>
        /\ pending # Nothing => AwaitsDecision(pending.node)
        /\ \A n \in Nodes : AwaitsDecision(n) => pending # Nothing /\ pending.node = n

\* In a graph that starts no two children at once, whoever looks at the run sees the
\* approval a node is waiting for, and sees none that nobody waits for.  (Two waiters side
\* by side have one slot between them: DecisionIsThere.)
PendingIsAwaited == InLine => SlotIsAwaited

\* A branch runs only inside its parents: a composite node is not done, and a
\* sequential one not past a child, while something below it is still at work.
Structured ==
    \A n \in Nodes : \A c \in Children(n) :
        st[c] \notin {"idle", "done"} => st[n] = "children" /\ c \in Awaited(n)

\* Past the pause gate, and not done.
PastGate(n) == st[n] \notin {"idle", "enter", "gated", "go", "done"}

\* "Pause signals a run to stop before its next GraphNode": while a run is paused, what is
\* past the gate only gets less.  Children that end, iterations, policy answers and
\* approvals go on, and each node that is past the gate makes its one call at most.
PausedRunDrains ==
    [][paused /\ paused' => \A n \in Nodes : PastGate(n)' => PastGate(n)]_vars

\* Each budget is checked before an await and counted after it, so that branches
\* side by side may cross it; never by more than the calls that can be in between,
\* which is one per tool to be approved, and per activity but the first.
OvershootIsBounded ==
    LET gated == {n \in Nodes : Kind(n) = "tool_call" /\ Graph[n].approval}
        activities == {n \in Nodes : Kind(n) = "activity"}
    IN  /\ consumed.tools <= MaxToolCalls + Cardinality(gated)
        /\ activities # {} =>
               consumed.activities <= MaxActivityCalls + Cardinality(activities) - 1

\* An approver has answered the approval that is pending.
Answered == \E p \in Approvers : request[p].at \in {"signalled", "done"} /\ request[p].id = pending.id

\* The run waits, for others only: for resume, for a person who has not decided and has no
\* TTL, or for another team's worker.
HeldByOthers ==
    /\ \A n \in Nodes : \/ st[n] \in {"idle", "done", "children"}
                        \/ st[n] = "gated" /\ paused
                        \/ st[n] = "waiting" /\ ~ApprovalTTL /\ ~Answered
                        \/ st[n] = "scheduled" /\ Kind(n) = "activity"
    /\ \E n \in Nodes : st[n] \in {"gated", "waiting", "scheduled"}

\* A run ends, or comes to rest with nothing left for the platform to do: no decision that
\* was sent, no resume and no result is lost on it.
RunEndsOrIsHeld == <>[](run \in {"succeeded", "failed", "cancelled"} \/ HeldByOthers)

\* "this guarantees the executed count never exceeds max_tool_calls"
ToolBudgetHolds == consumed.tools <= MaxToolCalls

\* "consumed.activity_calls must count work that actually ran, so the call that
\* trips the limit is never counted as if it had": the limit is never crossed.
ActivityBudgetHolds == consumed.activities <= MaxActivityCalls

\* "wait_condition only returns once this is set"
DecisionIsThere == \A n \in Nodes : st[n] = "woken" => decision # Nothing

\* "so a run never does one unit of work past its limit": nothing is scheduled
\* after the deadline.
NoWorkPastDeadline ==
    [][late => \A n \in Nodes : st'[n] = "scheduled" => st[n] = "scheduled"]_vars

\* "The workflow does not catch cancellation, so it ends in Temporal's CANCELED status"
CancelEndsRun == cancelled ~> run = "cancelled"

\* "a second approval on the same node ... is a different fact": a waiter takes only
\* a decision that was made about the approval it asked for.
DecidedOnItsOwn ==
    \A n \in Nodes : st[n] = "woken" /\ decision # Nothing /\ pending # Nothing
        => decision.id = pending.id
=============================================================================
