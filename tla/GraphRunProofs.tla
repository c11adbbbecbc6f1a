--------------------------- MODULE GraphRunProofs ---------------------------
(***************************************************************************)
(* Proofs about a graph run, for every finite graph, every budget and any  *)
(* number of approvers.                                                    *)
(***************************************************************************)
EXTENDS GraphRun, FiniteSetTheorems, TLAPS

-----------------------------------------------------------------------------
(* The invariant. *)

\* A node without a coroutine.
Inactive(n) == st[n] \in {"idle", "done"}

\* Only work is put to the policy or to a person, and only where it says so.
Stations ==
    \A n \in Nodes :
        /\ st[n] = "policy" => Kind(n) = "activity"
        /\ st[n] \in {"recording", "waiting", "woken", "closing"}
               => Kind(n) \in Work /\ Graph[n].approval

\* The nodes keep their types, their stations and to the graph.
IInv == TypeOK /\ Stations /\ Structured

-----------------------------------------------------------------------------
(* The graph. *)

\* What the graph says of a node's children; a loop and a subgraph have one.
LEMMA ChildrenAreNodes ==
  ASSUME NEW n \in Nodes
  PROVE  /\ Graph[n].children \in Seq(Nodes)
         /\ Children(n) \subseteq Nodes
         /\ \A i \in 1..Len(Graph[n].children) : Graph[n].children[i] \in Children(n)
         /\ Kind(n) \in {"loop", "subgraph"} => Graph[n].children[1] \in Children(n)
<1>1. Graph[n].children \in Seq(Nodes)
  BY GraphAssumption
<1>2. DOMAIN Graph[n].children = 1..Len(Graph[n].children)
  BY <1>1
<1>3. Kind(n) \in {"loop", "subgraph"} => 1 \in 1..Len(Graph[n].children)
  <2>1. Kind(n) \in {"loop", "subgraph"} => Graph[n].children # <<>>
    BY GraphAssumption DEF Kind
  <2> QED BY <1>1, <2>1
<1> QED BY <1>1, <1>2, <1>3 DEF Children, Range

\* A node is the child of one node.
LEMMA OneParent ==
  ASSUME NEW n \in Nodes, NEW m \in Nodes, NEW c \in Children(n), c \in Children(m)
  PROVE  n = m
  BY GraphAssumption DEF Children

-----------------------------------------------------------------------------
(* What a step does to the nodes. *)

\* The coroutine of one node goes on, or ends; what it awaited has ended, and it enters
\* through the gate.
Moves(n, to) ==
    /\ st' = [st EXCEPT ![n] = to] /\ pos' = pos
    /\ st[n] \notin {"idle", "done", "gated"}
    /\ to \in States \ {"idle", "enter", "children"}
    /\ st[n] = "enter" \/ to = "go" => st[n] = "enter" /\ to = IF paused THEN "gated" ELSE "go"
    /\ \A c \in Children(n) : Inactive(c)

\* A composite node starts some of its children, and none is at work before.
Starts(n, S, at) ==
    /\ Start(n, S, at)
    /\ S \subseteq Children(n) /\ at \in Nat
    /\ st[n] \in {"go", "children"}
    /\ \A c \in Children(n) : Inactive(c)
    /\ S \subseteq Awaited(n)'

\* No coroutine moves.
Quiet == st' = st /\ pos' = pos

\* A node that has not started its children has none at work, and one that has
\* joined them neither.
LEMMA NoneAtWork ==
  ASSUME IInv, NEW n \in Nodes, st[n] # "children" \/ Joined(n)
  PROVE  \A c \in Children(n) : Inactive(c)
  BY DEF IInv, Structured, Joined, Inactive

\* Each kind of composite node starts children of its own, and awaits those.
LEMMA DescendStarts ==
  ASSUME IInv, NEW n \in Nodes, Descend(n)
  PROVE  \E S \in SUBSET Nodes, at \in Nat : Starts(n, S, at)
<1>0. st[n] = "go" /\ \A c \in Children(n) : Inactive(c)
  BY NoneAtWork DEF Descend, Ready
<1>1. pos \in [Nodes -> Nat] /\ Graph[n].children \in Seq(Nodes) /\ Children(n) \subseteq Nodes
  BY ChildrenAreNodes DEF IInv, TypeOK
<1>2. CASE Kind(n) \in {"parallel", "fan_in"} /\ Start(n, Children(n), 0)
  BY <1>0, <1>1, <1>2 DEF Starts, Awaited
<1>3. ASSUME NEW i \in 1..Len(Graph[n].children), Kind(n) \notin {"parallel", "fan_in"},
             Start(n, {Graph[n].children[i]}, i),
             Kind(n) = "loop" => i = 1
      PROVE  Starts(n, {Graph[n].children[i]}, i)
  <2>1. pos'[n] = i /\ i # 0
    BY <1>1, <1>3 DEF Start
  <2>2. Graph[n].children[i] \in Children(n)
    BY ChildrenAreNodes
  <2> QED BY <1>0, <1>1, <1>3, <2>1, <2>2 DEF Starts, Awaited
<1>4. CASE Start(n, {}, 0)
  BY <1>0, <1>1, <1>4 DEF Starts
<1>5. CASE Kind(n) \in {"loop", "subgraph"} /\ Start(n, {Graph[n].children[1]}, 1)
  <2>1. 1 \in 1..Len(Graph[n].children)
    BY <1>1, <1>5, GraphAssumption DEF Kind
  <2> QED BY <1>1, <1>3, <1>5, <2>1
<1>6. CASE Kind(n) = "sequential" /\ Graph[n].children # <<>> /\ Start(n, {Graph[n].children[1]}, 1)
  <2>1. 1 \in 1..Len(Graph[n].children)
    BY <1>1, <1>6
  <2> QED BY <1>1, <1>3, <1>6, <2>1
<1>7. CASE /\ Kind(n) = "conditional" /\ ~(Branch(n) > Len(Graph[n].children))
           /\ Start(n, {Graph[n].children[Branch(n)]}, Branch(n))
  <2>1. Branch(n) \in 1..Len(Graph[n].children)
    BY <1>1, <1>7 DEF Branch
  <2> QED BY <1>1, <1>3, <1>7, <2>1
<1> QED BY <1>2, <1>4, <1>5, <1>6, <1>7 DEF Descend

\* A node that joined its children starts the next ones, or ends.
LEMMA AdvanceMoves ==
  ASSUME IInv, NEW n \in Nodes, Advance(n)
  PROVE  \/ \E S \in SUBSET Nodes, at \in Nat : Starts(n, S, at)
         \/ Moves(n, "done")
<1>0. st[n] = "children" /\ \A c \in Children(n) : Inactive(c)
  BY NoneAtWork DEF Advance, Joined
<1>1. pos \in [Nodes -> Nat] /\ Graph[n].children \in Seq(Nodes) /\ Children(n) \subseteq Nodes
  BY ChildrenAreNodes DEF IInv, TypeOK
<1>2. CASE /\ Kind(n) = "sequential" /\ pos[n] < Len(Graph[n].children)
           /\ Start(n, {Graph[n].children[pos[n] + 1]}, pos[n] + 1)
  <2>1. pos[n] + 1 \in 1..Len(Graph[n].children) /\ pos[n] + 1 \in Nat /\ pos[n] + 1 # 0
    BY <1>1, <1>2
  <2>2. Graph[n].children[pos[n] + 1] \in Children(n)
    BY <2>1, ChildrenAreNodes
  <2>3. pos'[n] = pos[n] + 1
    BY <1>1, <1>2 DEF Start
  <2>4. Awaited(n)' = {Graph[n].children[pos[n] + 1]}
    BY <1>2, <2>1, <2>3 DEF Awaited
  <2>5. Starts(n, {Graph[n].children[pos[n] + 1]}, pos[n] + 1)
    BY <1>0, <1>2, <2>1, <2>2, <2>4 DEF Starts
  <2> QED BY <1>1, <2>1, <2>2, <2>5
<1>3. CASE /\ Kind(n) = "loop" /\ Start(n, {Graph[n].children[1]}, pos[n] + 1)
  <2>1. Graph[n].children[1] \in Children(n)
    BY <1>3, ChildrenAreNodes
  <2>2. Awaited(n)' = {Graph[n].children[1]}
    BY <1>3 DEF Awaited
  <2>3. Starts(n, {Graph[n].children[1]}, pos[n] + 1)
    BY <1>0, <1>1, <1>3, <2>1, <2>2 DEF Starts
  <2> QED BY <1>1, <2>1, <2>3
<1>4. CASE UNCHANGED pos /\ \E result \in Results(n) : Finish(n, result)
  BY <1>0, <1>4 DEF Moves, Finish, Goto, Inactive, States
<1> QED BY <1>2, <1>3, <1>4 DEF Advance

\* The steps, by what they do to the nodes.
LEMMA StepKinds ==
  ASSUME IInv, [Next]_vars
  PROVE  \/ Quiet
         \/ CheckConditions
         \/ \E n \in Nodes, S \in SUBSET Nodes, at \in Nat : Starts(n, S, at)
         \/ \E n \in Nodes, to \in States : Moves(n, to)
<1>1. CASE UNCHANGED vars
  BY <1>1 DEF vars, workflow, Quiet
<1>2. CASE External
  BY <1>2 DEF External, Pause, Resume, DeadlinePasses, Cancel, See, Query, Signal,
     SignalRefused,
     JournalApproval, workflow, Quiet
<1>3. ASSUME NEW n \in Nodes, NEW from, NEW to, st[n] = from, Goto(n, to), UNCHANGED pos,
             from \notin {"idle", "done", "children", "gated"},
             to \in States \ {"idle", "enter", "children"},
             from = "enter" \/ to = "go" =>
                from = "enter" /\ to = IF paused THEN "gated" ELSE "go"
      PROVE  Moves(n, to)
  BY <1>3, NoneAtWork DEF Moves, Goto, Inactive
<1>4. ASSUME NEW n \in Nodes, Enter(n)
      PROVE  Quiet \/ \E to \in States : Moves(n, to)
  <2>1. CASE UNCHANGED <<st, pos>>
    BY <2>1 DEF Quiet
  <2>2. CASE Goto(n, IF paused THEN "gated" ELSE "go") /\ UNCHANGED pos
    BY <1>3, <1>4, <2>2 DEF Enter, Ready, States
  <2> QED BY <1>4, <2>1, <2>2 DEF Enter, Fails
<1>5. ASSUME NEW n \in Nodes, BeginWork(n)
      PROVE  Quiet \/ \E to \in States : Moves(n, to)
  <2>1. CASE Fails
    BY <2>1 DEF Quiet, Fails
  <2>2. CASE AwaitApproval(n)
    BY <1>3, <1>5, <2>2 DEF BeginWork, Ready, States, AwaitApproval
  <2>3. CASE Schedule(n)
    BY <1>3, <1>5, <2>3 DEF BeginWork, Ready, States, Schedule
  <2>4. CASE Goto(n, "policy") /\ UNCHANGED pos
    BY <1>3, <1>5, <2>4 DEF BeginWork, Ready, States
  <2> QED BY <1>5, <2>1, <2>2, <2>3, <2>4 DEF BeginWork
<1>6. ASSUME NEW n \in Nodes, Decide(n)
      PROVE  Quiet \/ \E to \in States : Moves(n, to)
  <2>1. CASE UNCHANGED st
    BY <1>6, <2>1 DEF Quiet, Decide
  <2>2. CASE Goto(n, "closing")
    BY <1>3, <1>6, <2>2 DEF Decide, Ready, States
  <2> QED BY <1>6, <2>1, <2>2 DEF Decide
<1>7. ASSUME NEW n \in Nodes, PolicyAnswer(n)
      PROVE  Quiet \/ \E to \in States : Moves(n, to)
  <2>1. CASE Fails
    BY <2>1 DEF Quiet, Fails
  <2>2. CASE AwaitApproval(n)
    BY <1>3, <1>7, <2>2 DEF PolicyAnswer, Awakens, States, AwaitApproval
  <2>3. CASE Schedule(n)
    BY <1>3, <1>7, <2>3 DEF PolicyAnswer, Awakens, States, Schedule
  <2> QED BY <1>7, <2>1, <2>2, <2>3 DEF PolicyAnswer
<1>8. ASSUME NEW n \in Nodes, Suspend(n) \/ Expire(n)
      PROVE  \E to \in States : Moves(n, to)
  BY <1>3, <1>8 DEF Suspend, Expire, Awakens, States
<1>9. ASSUME NEW n \in Nodes, Close(n)
      PROVE  Quiet \/ \E to \in States : Moves(n, to)
  <2>1. CASE Fails
    BY <2>1 DEF Quiet, Fails
  <2>2. CASE Schedule(n)
    BY <1>3, <1>9, <2>2 DEF Close, Awakens, States, Schedule
  <2> QED BY <1>9, <2>1, <2>2 DEF Close
<1>10. ASSUME NEW n \in Nodes, WorkEnds(n)
       PROVE  Quiet \/ \E to \in States : Moves(n, to)
  <2>1. CASE Fails
    BY <2>1 DEF Quiet, Fails
  <2>2. CASE UNCHANGED pos /\ \E result \in Results(n) : Finish(n, result)
    BY <1>3, <1>10, <2>2 DEF WorkEnds, Awakens, States, Finish
  <2> QED BY <1>10, <2>1, <2>2 DEF WorkEnds
<1>11. ASSUME NEW n \in Nodes, Descend(n) \/ Advance(n)
       PROVE  \/ \E S \in SUBSET Nodes, at \in Nat : Starts(n, S, at)
              \/ \E to \in States : Moves(n, to)
  BY <1>11, DescendStarts, AdvanceMoves DEF States
<1> QED BY <1>1, <1>2, <1>4, <1>5, <1>6, <1>7, <1>8, <1>9, <1>10, <1>11
        DEF Next, Internal, Activity, Over

-----------------------------------------------------------------------------
(* The nodes keep to the graph. *)

\* No step leaves a node at work outside its parent.
LEMMA StructuredNext ==
  ASSUME IInv, [Next]_vars
  PROVE  Structured'
<1> USE DEF IInv, TypeOK
<1>1. CASE Quiet
  BY <1>1 DEF Quiet, Structured, Awaited
<1>2. CASE CheckConditions
  BY <1>2, ChildrenAreNodes DEF CheckConditions, Structured, Awaited
<1>3. ASSUME NEW n \in Nodes, NEW S \in SUBSET Nodes, NEW at \in Nat, Starts(n, S, at)
      PROVE  Structured'
  <2> SUFFICES ASSUME NEW m \in Nodes, NEW c \in Children(m), ~Inactive(c)'
               PROVE  st'[m] = "children" /\ c \in Awaited(m)'
    BY DEF Structured, Inactive
  <2>0. c \in Nodes
    BY ChildrenAreNodes
  <2>1. /\ st'[n] = "children"
        /\ \A x \in Nodes \ {n} : st'[x] = (IF x \in S THEN "enter" ELSE st[x])
        /\ \A x \in Nodes \ {n} : pos'[x] = pos[x]
    BY <1>3 DEF Starts, Start
  <2>2. CASE c \in S
    <3>1. m = n
      BY <1>3, <2>2, OneParent DEF Starts
    <3> QED BY <1>3, <2>1, <2>2, <3>1 DEF Starts
  <2>3. CASE c \notin S
    <3>1. ~Inactive(c)
      BY <1>3, <2>0, <2>1, <2>3 DEF Inactive, Starts
    <3>2. st[m] = "children" /\ c \in Awaited(m)
      BY <3>1 DEF Structured, Inactive
    <3>3. m # n
      BY <1>3, <3>1 DEF Starts
    <3>4. m \notin S
      BY <1>3, <3>2 DEF Starts, Inactive
    <3> QED BY <2>1, <3>2, <3>3, <3>4 DEF Awaited
  <2> QED BY <2>2, <2>3
<1>4. ASSUME NEW n \in Nodes, NEW to \in States, Moves(n, to)
      PROVE  Structured'
  <2> SUFFICES ASSUME NEW m \in Nodes, NEW c \in Children(m), ~Inactive(c)'
               PROVE  st'[m] = "children" /\ c \in Awaited(m)'
    BY DEF Structured, Inactive
  <2>0. c \in Nodes
    BY ChildrenAreNodes
  <2>1. ~Inactive(c)
    BY <1>4, <2>0 DEF Moves, Inactive
  <2>2. st[m] = "children" /\ c \in Awaited(m) /\ m # n
    BY <1>4, <2>1 DEF Structured, Inactive, Moves
  <2> QED BY <1>4, <2>2 DEF Moves, Awaited
<1> QED BY <1>1, <1>2, <1>3, <1>4, StepKinds

\* The counters stay numbers.
LEMMA CountersNext ==
  ASSUME IInv, NEW n \in Nodes
  PROVE  /\ Schedule(n) => consumed' \in [tools : Nat, activities : Nat, depth : Nat]
         /\ Schedule(n) => stepSeq' \in Nat
         /\ AwaitApproval(n) => asked' \in Nat
<1>1. consumed \in [tools : Nat, activities : Nat, depth : Nat] /\ stepSeq \in Nat /\ asked \in Nat
  BY DEF IInv, TypeOK
<1> QED BY <1>1 DEF Schedule, AwaitApproval

\* Each step keeps the types.
LEMMA TypeNext ==
  ASSUME IInv, [Next]_vars
  PROVE  TypeOK'
<1> USE DEF IInv, TypeOK
<1>1. st' \in [Nodes -> States] /\ pos' \in [Nodes -> Nat]
  <2>1. CASE Quiet
    BY <2>1 DEF Quiet
  <2>2. CASE CheckConditions
    BY <2>2 DEF CheckConditions, States
  <2>3. ASSUME NEW n \in Nodes, NEW S \in SUBSET Nodes, NEW at \in Nat, Starts(n, S, at)
        PROVE  st' \in [Nodes -> States] /\ pos' \in [Nodes -> Nat]
    BY <2>3 DEF Starts, Start, States
  <2>4. ASSUME NEW n \in Nodes, NEW to \in States, Moves(n, to)
        PROVE  st' \in [Nodes -> States] /\ pos' \in [Nodes -> Nat]
    BY <2>4 DEF Moves
  <2> QED BY <2>1, <2>2, <2>3, <2>4, StepKinds
<1>2. CASE UNCHANGED vars
  BY <1>2 DEF vars, workflow, outside
<1>3. CASE External
  <2>1. UNCHANGED <<verdict, context, consumed, stepSeq, asked>>
    BY <1>3 DEF External, Pause, Resume, DeadlinePasses, Cancel, See, Query, Signal,
       SignalRefused,
       JournalApproval, workflow
  <2>2. /\ run' \in {run, "cancelled"}
        /\ paused' \in BOOLEAN /\ late' \in BOOLEAN /\ cancelled' \in BOOLEAN
    BY <1>3 DEF External, Pause, Resume, DeadlinePasses, Cancel, See, Query, Signal,
       SignalRefused,
       JournalApproval, workflow
  <2> QED BY <1>1, <2>1, <2>2
<1>4. ASSUME NEW n \in Nodes, Enter(n) PROVE TypeOK'
  <2>1. Graph[n].depth \in Nat
    BY GraphAssumption
  <2> QED BY <1>1, <1>4, <2>1 DEF Enter, Fails, outside
<1>5. ASSUME Fails, UNCHANGED outside PROVE TypeOK'
  BY <1>1, <1>5 DEF Fails, outside
<1>6. ASSUME NEW n \in Nodes, Schedule(n), UNCHANGED outside PROVE TypeOK'
  BY <1>1, <1>6, CountersNext DEF Schedule, outside
<1>7. ASSUME NEW n \in Nodes, AwaitApproval(n), UNCHANGED outside PROVE TypeOK'
  <2>1. verdict' \in [Nodes -> {"none", "granted", "denied", "expired"}]
    BY <1>7 DEF AwaitApproval
  <2> QED BY <1>1, <1>7, <2>1, CountersNext DEF AwaitApproval, outside
<1>8. ASSUME NEW n \in Nodes, NEW result \in Results(n), Finish(n, result),
             UNCHANGED outside
      PROVE TypeOK'
  <2>1. result \in {"match", "no match"}
    BY DEF Results
  <2> QED BY <1>1, <1>8, <2>1 DEF Finish, outside
<1>9. ASSUME NEW n \in Nodes, Descend(n) PROVE TypeOK'
  <2>1. UNCHANGED <<run, verdict, context, consumed, stepSeq, asked>>
    BY <1>9 DEF Descend, Start
  <2> QED BY <1>1, <1>9, <2>1 DEF Descend, outside
<1>10. ASSUME NEW n \in Nodes, Advance(n) PROVE TypeOK'
  <2>1. UNCHANGED <<run, verdict, context, consumed, stepSeq, asked>>
        \/ \E result \in Results(n) : Finish(n, result)
    BY <1>10 DEF Advance, Start
  <2> QED BY <1>1, <1>8, <1>10, <2>1 DEF Advance, outside
<1>11. ASSUME NEW n \in Nodes,
              BeginWork(n) \/ PolicyAnswer(n) \/ Close(n) \/ WorkEnds(n)
       PROVE  TypeOK'
  <2>1. UNCHANGED <<run, verdict, context, consumed, stepSeq, asked, outside>> => TypeOK'
    BY <1>1 DEF outside
  <2> QED BY <1>5, <1>6, <1>7, <1>8, <1>11, <2>1 DEF BeginWork, PolicyAnswer, Close,
     WorkEnds
<1>12. ASSUME NEW n \in Nodes, Decide(n) \/ Suspend(n) \/ Expire(n) PROVE TypeOK'
  BY <1>1, <1>12 DEF Decide, Suspend, Expire, outside
<1>13. CASE CheckConditions
  BY <1>1, <1>13 DEF CheckConditions, outside
<1> QED BY <1>2, <1>3, <1>4, <1>9, <1>10, <1>11, <1>12, <1>13
        DEF Next, Internal, Activity, Over

\* Each step leaves the nodes at the stations of their kind.
LEMMA StationsNext ==
  ASSUME IInv, [Next]_vars
  PROVE  Stations'
<1> USE DEF IInv, TypeOK, Stations
<1>1. ASSUME NEW n \in Nodes, NEW to, st' = [st EXCEPT ![n] = to],
             to = "policy" => Kind(n) = "activity",
             to \in {"recording", "waiting", "woken", "closing"}
                => Kind(n) \in Work /\ Graph[n].approval
      PROVE  Stations'
  BY <1>1
<1>2. CASE st' = st
  BY <1>2
<1>3. CASE CheckConditions
  BY <1>3 DEF CheckConditions
<1>4. ASSUME NEW n \in Nodes, NEW S, NEW at, Start(n, S, at) PROVE Stations'
  BY <1>4 DEF Start
<1>5. CASE External \/ UNCHANGED vars
  BY <1>2, <1>5 DEF External, Pause, Resume, DeadlinePasses, Cancel, See, Query, Signal,
     SignalRefused, JournalApproval, workflow, vars
<1>6. ASSUME NEW n \in Nodes, Enter(n) PROVE Stations'
  BY <1>1, <1>2, <1>6 DEF Enter, Fails, Goto
<1>7. ASSUME NEW n \in Nodes, BeginWork(n) \/ PolicyAnswer(n) PROVE Stations'
  BY <1>1, <1>2, <1>7 DEF BeginWork, PolicyAnswer, Fails, AwaitApproval, Schedule, Goto,
     Awakens, Work
<1>8. ASSUME NEW n \in Nodes, Descend(n) PROVE Stations'
  BY <1>4, <1>8 DEF Descend
<1>9. ASSUME NEW n \in Nodes, Advance(n) PROVE Stations'
  BY <1>1, <1>4, <1>9 DEF Advance, Finish, Goto
<1>10. ASSUME NEW n \in Nodes, Decide(n) \/ Suspend(n) \/ Expire(n) PROVE Stations'
  BY <1>1, <1>2, <1>10 DEF Decide, Suspend, Expire, Goto, Ready, Awakens
<1>11. ASSUME NEW n \in Nodes, Close(n) \/ WorkEnds(n) PROVE Stations'
  BY <1>1, <1>2, <1>11 DEF Close, WorkEnds, Schedule, Fails, Finish, Goto
<1> QED BY <1>3, <1>5, <1>6, <1>7, <1>8, <1>9, <1>10, <1>11
        DEF Next, Internal, Activity, Over

\* Only the root runs, and it is nobody's child.
LEMMA InitInv == Init => IInv
<1> SUFFICES ASSUME Init PROVE IInv
  OBVIOUS
<1>1. TypeOK /\ Stations
  BY DEF Init, TypeOK, States, Stations
<1>2. Structured
  <2>1. \A n \in Nodes : Root \notin Children(n) /\ Children(n) \subseteq Nodes
    BY GraphAssumption, ChildrenAreNodes DEF Children
  <2> QED BY <2>1 DEF Init, Structured
<1> QED BY <1>1, <1>2 DEF IInv

\* A run keeps to its graph: a branch is at work only while every node above it waits
\* for it (execute_graph awaits what it starts).
THEOREM Invariance == Spec => []IInv
<1>1. IInv /\ [Next]_vars => IInv'
  BY TypeNext, StationsNext, StructuredNext DEF IInv
<1> QED BY <1>1, InitInv, PTL DEF Spec

\* A paused run has nobody between the gate and its work: signals come when all that was
\* ready has run.
GateIsShut == paused => \A n \in Nodes : st[n] # "go"

LEMMA GateNext ==
  ASSUME IInv, GateIsShut, [Next]_vars
  PROVE  GateIsShut'
<1> USE DEF IInv, TypeOK
<1>1. CASE Pause \/ Resume
  BY <1>1 DEF Pause, Resume, Settled, workflow, GateIsShut
<1>2. paused' = paused \/ Pause \/ Resume
  BY DEF Next, Internal, Enter, BeginWork, Descend, Advance, Decide, CheckConditions, Activity,
     PolicyAnswer, Suspend, Close, WorkEnds, Expire, External, DeadlinePasses, Cancel, See, Query,
     Signal, SignalRefused, JournalApproval, Over, vars, outside
<1>3. ASSUME paused' = paused, paused, NEW n \in Nodes PROVE st'[n] # "go"
  <2>0. st[n] # "go"
    BY <1>3 DEF GateIsShut
  <2>1. CASE Quiet
    BY <2>0, <2>1 DEF Quiet
  <2>2. CASE CheckConditions
    BY <1>3, <2>0, <2>2 DEF CheckConditions
  <2>3. ASSUME NEW m \in Nodes, NEW S \in SUBSET Nodes, NEW at \in Nat, Starts(m, S, at)
        PROVE  st'[n] # "go"
    BY <2>0, <2>3 DEF Starts, Start
  <2>4. ASSUME NEW m \in Nodes, NEW to \in States, Moves(m, to)
        PROVE  st'[n] # "go"
    BY <1>3, <2>0, <2>4 DEF Moves
  <2> QED BY <2>1, <2>2, <2>3, <2>4, StepKinds
<1> QED BY <1>1, <1>2, <1>3 DEF GateIsShut

\* Pause "signals a run to stop before its next GraphNode": in any graph, while the run is
\* paused the nodes past the gate only get fewer.  That takes the gate at the head of every
\* node, and that nobody stands behind it when the pause comes.
THEOREM PausedRunsOnlyDrain == Spec => PausedRunDrains
<1>1. Init => GateIsShut
  BY DEF Init, GateIsShut
<1>2. IInv /\ GateIsShut /\ [Next]_vars => GateIsShut'
  BY GateNext
<1>3. IInv /\ GateIsShut /\ [Next]_vars
      => [paused /\ paused' => \A n \in Nodes : PastGate(n)' => PastGate(n)]_vars
  <2> SUFFICES ASSUME IInv, GateIsShut, [Next]_vars, paused, NEW n \in Nodes, PastGate(n)'
               PROVE  PastGate(n)
    OBVIOUS
  <2> USE DEF IInv, TypeOK
  <2>0. st[n] # "go"
    BY DEF GateIsShut
  <2>1. CASE Quiet
    BY <2>1 DEF Quiet, PastGate
  <2>2. CASE CheckConditions
    BY <2>2 DEF CheckConditions, PastGate
  <2>3. ASSUME NEW m \in Nodes, NEW S \in SUBSET Nodes, NEW at \in Nat, Starts(m, S, at)
        PROVE  PastGate(n)
    <3>1. st[m] = "children"
      BY <2>3 DEF Starts, GateIsShut
    <3> QED BY <2>3, <3>1 DEF Starts, Start, PastGate
  <2>4. ASSUME NEW m \in Nodes, NEW to \in States, Moves(m, to)
        PROVE  PastGate(n)
    BY <2>0, <2>4 DEF Moves, PastGate
  <2> QED BY <2>1, <2>2, <2>3, <2>4, StepKinds
<1> QED BY <1>1, <1>2, <1>3, Invariance, PTL DEF Spec, PausedRunDrains

-----------------------------------------------------------------------------
(* Approvals. *)

\* A hash is of a node and an iteration.
LEMMA HashType ==
  ASSUME IInv, NEW n \in Nodes
  PROVE  Hash(n) \in Nodes \X Nat
<1>1. CASE Unnamed(n)
  <2>1. \E l \in Nodes : n \in Children(l)
    BY <1>1, ChildrenAreNodes DEF Unnamed
  <2>2. pos[CHOOSE l \in Nodes : n \in Children(l)] \in Nat
    BY <2>1 DEF IInv, TypeOK
  <2> QED BY <1>1, <2>2 DEF Hash
<1>2. CASE ~Unnamed(n)
  BY <1>2 DEF Hash
<1> QED BY <1>1, <1>2

\* The loop around a node that is at work does not move, so that what the node
\* was approved for is what it does.
LEMMA HashStays ==
  ASSUME IInv, [Next]_vars, NEW n \in Nodes, ~Inactive(n)
  PROVE  Hash(n)' = Hash(n)
<1>1. CASE Unnamed(n)
  <2> DEFINE l == CHOOSE l \in Nodes : n \in Children(l)
  <2>1. l \in Nodes /\ n \in Children(l)
    BY <1>1, ChildrenAreNodes DEF Unnamed
  <2> HIDE DEF l
  <2>2. pos'[l] = pos[l]
    <3>1. ASSUME NEW m \in Nodes, NEW S \in SUBSET Nodes, NEW at \in Nat, Starts(m, S, at)
          PROVE  pos'[l] = pos[l]
      BY <2>1, <3>1 DEF Starts, Start, IInv, TypeOK
    <3> QED BY <3>1, StepKinds DEF Quiet, CheckConditions, Moves
  <2> QED BY <1>1, <2>2 DEF Hash, l, Unnamed
<1>2. CASE ~Unnamed(n)
  BY <1>2 DEF Hash, Unnamed
<1> QED BY <1>1, <1>2

\* What an approver may send back.
Hashes == (Nodes \X Nat) \cup {Nothing}

\* An approval of h has been sent to the run.
Vouched(h) ==
    \E p \in Approvers : /\ request[p].at \in {"signalled", "done"}
                         /\ request[p].approved /\ request[p].hash = h

\* What is pending, decided and granted, and who said so.
RequestsAreTyped ==
    request \in [Approvers -> [at : {"idle", "seen", "queried", "signalled", "done", "failed"},
                               id : Nat, hash : Hashes, approved : BOOLEAN]]
PendingIsTyped == pending = Nothing \/ pending \in [id : Nat, node : Nodes, hash : Nodes \X Nat]
DecisionIsVouched == decision # Nothing => (decision.approved => Vouched(decision.hash))
GrantIsVouched ==
    \A n \in Nodes :
        /\ st[n] = "closing" /\ verdict[n] = "granted" => Vouched(Hash(n))
        /\ st[n] = "scheduled" /\ Graph[n].approval => Vouched(Hash(n))

\* Every decision and every grant goes back to an approval that was sent.
ApprovalInv ==
    /\ RequestsAreTyped
    /\ PendingIsTyped
    /\ DecisionIsVouched
    /\ GrantIsVouched

\* Each step keeps the types of the requests and of what is pending.
LEMMA RequestsNext ==
  ASSUME IInv, ApprovalInv, [Next]_vars
  PROVE  RequestsAreTyped' /\ PendingIsTyped'
<1> USE DEF ApprovalInv
<1>1. CASE UNCHANGED <<request, pending>>
  BY <1>1 DEF RequestsAreTyped, PendingIsTyped, Hashes
<1>2. ASSUME NEW n \in Nodes, AwaitApproval(n), UNCHANGED request
      PROVE  RequestsAreTyped' /\ PendingIsTyped'
  <2>1. asked' \in Nat /\ Hash(n) \in Nodes \X Nat
    BY <1>2, CountersNext, HashType
  <2>2. PendingIsTyped'
    BY <1>2, <2>1 DEF AwaitApproval, PendingIsTyped
  <2> QED BY <1>2, <2>2 DEF RequestsAreTyped, Hashes
<1>3. CASE pending' = Nothing /\ UNCHANGED request
  BY <1>3 DEF RequestsAreTyped, PendingIsTyped, Hashes
<1>4. ASSUME NEW p \in Approvers,
             See(p) \/ Query(p) \/ Signal(p) \/ SignalRefused(p) \/ JournalApproval(p)
      PROVE  RequestsAreTyped' /\ PendingIsTyped'
  <2>1. pending' = pending
    BY <1>4 DEF See, Query, Signal, SignalRefused, JournalApproval, workflow
  <2>2. CASE See(p)
    BY <2>1, <2>2 DEF See, RequestsAreTyped, PendingIsTyped, NoRequest, Hashes
  <2>3. CASE Query(p)
    <3>1. CASE pending = Nothing
      <4>1. request' = [request EXCEPT ![p] = [NoRequest EXCEPT !.at = "failed"]]
        BY <2>3, <3>1 DEF Query
      <4> QED BY <2>1, <4>1 DEF RequestsAreTyped, PendingIsTyped, NoRequest, Hashes
    <3>2. CASE pending # Nothing
      <4>1. PICK approved \in BOOLEAN :
                request' = [request EXCEPT ![p] = [at |-> "queried", id |-> pending.id,
                                                   hash |-> request[p].hash, approved |-> approved]]
        BY <2>3, <3>2 DEF Query
      <4>2. pending.id \in Nat /\ request[p].hash \in Hashes
        BY <3>2 DEF PendingIsTyped, RequestsAreTyped
      <4> QED BY <2>1, <4>1, <4>2 DEF RequestsAreTyped, PendingIsTyped, Hashes
    <3> QED BY <3>1, <3>2
  <2>4. CASE Signal(p) \/ SignalRefused(p) \/ JournalApproval(p)
    BY <2>1, <2>4 DEF Signal, SignalRefused, JournalApproval, RequestsAreTyped,
       PendingIsTyped, Hashes
  <2> QED BY <1>4, <2>2, <2>3, <2>4
<1>5. CASE Pause \/ Resume \/ DeadlinePasses \/ Cancel \/ UNCHANGED vars \/ CheckConditions
  BY <1>1, <1>5 DEF Pause, Resume, DeadlinePasses, Cancel, vars, workflow, outside,
     CheckConditions
<1>6. ASSUME NEW n \in Nodes,
             Enter(n) \/ Descend(n) \/ Advance(n) \/ Suspend(n) \/ Close(n) \/ WorkEnds(n)
      PROVE  RequestsAreTyped' /\ PendingIsTyped'
  BY <1>1, <1>6 DEF Enter, Descend, Advance, Suspend, Close, WorkEnds, Start, Finish, Fails,
     Schedule, outside
<1>7. ASSUME NEW n \in Nodes, BeginWork(n) \/ PolicyAnswer(n)
      PROVE  RequestsAreTyped' /\ PendingIsTyped'
  BY <1>1, <1>2, <1>7 DEF BeginWork, PolicyAnswer, Fails, Schedule, outside
<1>8. ASSUME NEW n \in Nodes, Decide(n) \/ Expire(n)
      PROVE  RequestsAreTyped' /\ PendingIsTyped'
  BY <1>1, <1>3, <1>8 DEF Decide, Expire, outside
<1> QED BY <1>4, <1>5, <1>6, <1>7, <1>8 DEF Next, Internal, External, Activity, Over

\* An approval that was sent stays sent.
LEMMA VouchedStays ==
  ASSUME RequestsAreTyped, [Next]_vars, NEW h, Vouched(h)
  PROVE  Vouched(h)'
<1>1. CASE UNCHANGED request
  BY <1>1 DEF Vouched
<1>2. ASSUME NEW p \in Approvers,
             See(p) \/ Query(p) \/ Signal(p) \/ SignalRefused(p) \/ JournalApproval(p)
      PROVE  Vouched(h)'
  <2>1. \A q \in Approvers \ {p} : request'[q] = request[q]
    BY <1>2 DEF RequestsAreTyped, See, Query, Signal, SignalRefused, JournalApproval
  <2>2. request[p].at \in {"signalled", "done"}
        => /\ request'[p].at = "done" /\ request'[p].hash = request[p].hash
           /\ request'[p].approved = request[p].approved
    BY <1>2 DEF RequestsAreTyped, See, Query, Signal, SignalRefused, JournalApproval
  <2> QED BY <2>1, <2>2 DEF Vouched
<1>3. CASE Internal \/ \E n \in Nodes : Activity(n) \/ Expire(n)
  BY <1>1, <1>3 DEF Internal, Enter, BeginWork, Descend, Advance, Decide, CheckConditions,
     Activity, PolicyAnswer, Suspend, Close, WorkEnds, Expire, outside
<1>4. CASE Pause \/ Resume \/ DeadlinePasses \/ Cancel \/ UNCHANGED vars
  BY <1>1, <1>4 DEF Pause, Resume, DeadlinePasses, Cancel, vars, outside
<1> QED BY <1>2, <1>3, <1>4 DEF Next, External, Over

\* A decision comes from a signal.
LEMMA DecisionNext ==
  ASSUME IInv, ApprovalInv, [Next]_vars
  PROVE  DecisionIsVouched'
<1>0. \A h : Vouched(h) => Vouched(h)'
  BY VouchedStays DEF ApprovalInv
<1>1. CASE decision' \in {decision, Nothing}
  BY <1>0, <1>1 DEF ApprovalInv, DecisionIsVouched
<1>2. ASSUME NEW p \in Approvers, Signal(p) PROVE DecisionIsVouched'
  <2>1. request'[p] = [request[p] EXCEPT !.at = "signalled"]
    BY <1>2 DEF Signal, ApprovalInv, RequestsAreTyped
  <2>2. request'[p].at = "signalled" /\ request'[p].hash = request[p].hash
        /\ request'[p].approved = request[p].approved
    BY <2>1 DEF ApprovalInv, RequestsAreTyped
  <2>3. decision'.hash = request[p].hash /\ decision'.approved = request[p].approved
    BY <1>2 DEF Signal
  <2> QED BY <2>2, <2>3 DEF DecisionIsVouched, Vouched
<1>3. CASE Internal \/ \E n \in Nodes : Activity(n) \/ Expire(n)
  BY <1>1, <1>3 DEF Internal, Enter, BeginWork, Descend, Advance, Decide, CheckConditions,
     Activity, PolicyAnswer, Suspend, Close, WorkEnds, Expire, Start, Finish, Fails, Schedule,
     AwaitApproval
<1>4. CASE UNCHANGED vars \/ (External /\ ~\E p \in Approvers : Signal(p))
  BY <1>1, <1>4 DEF External, Pause, Resume, DeadlinePasses, Cancel, See, Query,
     SignalRefused,
     JournalApproval, vars, workflow
<1> QED BY <1>2, <1>3, <1>4 DEF Next, External, Over

\* A grant comes from a decision on the hash of the node that asked.
LEMMA GrantNext ==
  ASSUME IInv, ApprovalInv, [Next]_vars
  PROVE  GrantIsVouched'
<1> USE DEF IInv, TypeOK
<1>0. \A h : Vouched(h) => Vouched(h)'
  BY VouchedStays DEF ApprovalInv
<1>1. \A n \in Nodes : ~Inactive(n) => Hash(n)' = Hash(n)
  BY HashStays
<1>2. ASSUME NEW n \in Nodes, Vouched(Hash(n)), ~Inactive(n) PROVE Vouched(Hash(n))'
  <2>1. \E p \in Approvers : /\ request'[p].at \in {"signalled", "done"}
                              /\ request'[p].approved /\ request'[p].hash = Hash(n)
    BY <1>0, <1>2 DEF Vouched
  <2> QED BY <1>1, <1>2, <2>1 DEF Vouched
<1>3. ASSUME NEW n \in Nodes,
             /\ st'[n] = "closing" /\ verdict'[n] = "granted"
                    => st[n] = "closing" /\ verdict[n] = "granted"
             /\ st'[n] = "scheduled" /\ Graph[n].approval
                    => st[n] = "scheduled" \/ (st[n] = "closing" /\ verdict[n] = "granted")
      PROVE  /\ st'[n] = "closing" /\ verdict'[n] = "granted" => Vouched(Hash(n))'
             /\ st'[n] = "scheduled" /\ Graph[n].approval => Vouched(Hash(n))'
  BY <1>2, <1>3 DEF ApprovalInv, GrantIsVouched, Inactive
<1>4. ASSUME NEW n \in Nodes, Decide(n) PROVE GrantIsVouched'
  <2>1. ASSUME NEW m \in Nodes \ {n} PROVE st'[m] = st[m] /\ verdict'[m] = verdict[m]
    BY <1>4 DEF Decide, Goto
  <2>2. st'[n] # "scheduled"
    BY <1>4 DEF Decide, Goto, Ready
  <2>3. ASSUME st'[n] = "closing", verdict'[n] = "granted" PROVE Vouched(Hash(n))'
    <3>1. st[n] = "woken" /\ decision # Nothing /\ decision.hash = Hash(n) /\ decision.approved
      BY <1>4, <2>3 DEF Decide, Ready
    <3>2. Vouched(Hash(n))
      BY <3>1 DEF ApprovalInv, DecisionIsVouched
    <3> QED BY <1>2, <3>1, <3>2 DEF Inactive
  <2> QED BY <1>3, <2>1, <2>2, <2>3 DEF GrantIsVouched
<1>5. CASE UNCHANGED vars \/ External
  <2>1. UNCHANGED <<st, verdict>>
    BY <1>5 DEF External, Pause, Resume, DeadlinePasses, Cancel, See, Query, Signal,
       SignalRefused,
       JournalApproval, vars, workflow
  <2> QED BY <1>3, <2>1 DEF GrantIsVouched
<1>6. CASE CheckConditions
  BY <1>3, <1>6 DEF CheckConditions, GrantIsVouched
<1>7. ASSUME NEW n \in Nodes, NEW to, st' = [st EXCEPT ![n] = to],
             to \notin {"closing", "scheduled"},
             \A m \in Nodes \ {n} : verdict'[m] = verdict[m]
      PROVE  GrantIsVouched'
  BY <1>3, <1>7 DEF GrantIsVouched
<1>8. CASE UNCHANGED <<st, verdict>>
  BY <1>3, <1>8 DEF GrantIsVouched
<1>9. ASSUME NEW n \in Nodes, Enter(n) \/ Suspend(n) PROVE GrantIsVouched'
  <2>1. UNCHANGED verdict
    BY <1>9 DEF Enter, Suspend, Fails
  <2>2. UNCHANGED st \/ \E to \in {"gated", "go", "waiting"} : st' = [st EXCEPT ![n] = to]
    BY <1>9 DEF Enter, Suspend, Fails, Goto
  <2> QED BY <1>7, <1>8, <2>1, <2>2
<1>10. ASSUME NEW n \in Nodes, NEW S, NEW at, Start(n, S, at) PROVE GrantIsVouched'
  BY <1>3, <1>10 DEF Start, GrantIsVouched
<1>11. ASSUME NEW n \in Nodes, Descend(n) \/ Advance(n) \/ WorkEnds(n) PROVE GrantIsVouched'
  <2>1. CASE UNCHANGED <<st, verdict>>
    BY <1>8, <2>1
  <2>2. CASE UNCHANGED verdict /\ st' = [st EXCEPT ![n] = "done"]
    <3>1. st' = [st EXCEPT ![n] = "done"] /\ \A m \in Nodes \ {n} : verdict'[m] = verdict[m]
      BY <2>2
    <3> QED BY <1>7, <3>1
  <2>3. \/ UNCHANGED <<st, verdict>>
        \/ UNCHANGED verdict /\ st' = [st EXCEPT ![n] = "done"]
        \/ \E S, at : Start(n, S, at)
    BY <1>11 DEF Descend, Advance, WorkEnds, Finish, Fails, Goto
  <2> QED BY <1>10, <2>1, <2>2, <2>3
<1>12. ASSUME NEW n \in Nodes, Schedule(n), ~Graph[n].approval PROVE GrantIsVouched'
  BY <1>3, <1>12 DEF Schedule, Goto, GrantIsVouched
<1>13. ASSUME NEW n \in Nodes, BeginWork(n) \/ PolicyAnswer(n) PROVE GrantIsVouched'
  <2>1. CASE Fails
    BY <1>8, <2>1 DEF Fails
  <2>2. CASE AwaitApproval(n)
    <3>1. st' = [st EXCEPT ![n] = "recording"] /\ \A m \in Nodes \ {n} : verdict'[m] = verdict[m]
      BY <2>2 DEF AwaitApproval, Goto
    <3> QED BY <1>7, <3>1
  <2>3. CASE Schedule(n) /\ ~Graph[n].approval
    BY <1>12, <2>3
  <2>4. CASE Goto(n, "policy") /\ UNCHANGED verdict
    <3>1. st' = [st EXCEPT ![n] = "policy"] /\ \A m \in Nodes \ {n} : verdict'[m] = verdict[m]
      BY <2>4 DEF Goto
    <3> QED BY <1>7, <3>1
  <2> QED BY <1>13, <2>1, <2>2, <2>3, <2>4 DEF BeginWork, PolicyAnswer
<1>14. ASSUME NEW n \in Nodes, Close(n) PROVE GrantIsVouched'
  BY <1>3, <1>8, <1>14 DEF Close, Awakens, Schedule, Fails, Goto, GrantIsVouched
<1>15. ASSUME NEW n \in Nodes, Expire(n) PROVE GrantIsVouched'
  BY <1>3, <1>15 DEF Expire, Awakens, Goto, GrantIsVouched
<1> QED BY <1>4, <1>5, <1>6, <1>9, <1>11, <1>13, <1>14, <1>15 DEF Next, Internal,
   Activity, Over

\* Every decision and every grant goes back to an approval that an approver sent.
LEMMA ApprovalsGoBack == Spec => []ApprovalInv
<1>1. Init => ApprovalInv
  BY DEF Init, ApprovalInv, RequestsAreTyped, PendingIsTyped, DecisionIsVouched,
     GrantIsVouched, NoRequest, Hashes
<1>2. IInv /\ ApprovalInv /\ [Next]_vars => ApprovalInv'
  BY RequestsNext, DecisionNext, GrantNext DEF ApprovalInv
<1> QED BY <1>1, <1>2, Invariance, PTL DEF Spec

\* "approval gates must never be quietly skippable" (graph.py): for every graph and
\* any number of approvers, work that requires approval runs only after an
\* approver sent an approval of exactly these parameters, whatever the decisions
\* that overtook each other, expired or were taken by another waiter.
THEOREM GatesAreNotSkipped == Spec => []ApprovedBeforeScheduled
<1>1. ApprovalInv => ApprovedBeforeScheduled
  BY DEF ApprovalInv, GrantIsVouched, ApprovedBeforeScheduled, Vouched
<1> QED BY <1>1, ApprovalsGoBack, PTL

-----------------------------------------------------------------------------
(* Budgets. *)

\* The tools to be approved, and the activities.
GatedTools == {n \in Nodes : Kind(n) = "tool_call" /\ Graph[n].approval}
ActivityNodes == {n \in Nodes : Kind(n) = "activity"}

\* The calls that have passed the check of their budget and are not counted yet.
AskedTools == {n \in GatedTools : st[n] \in {"recording", "waiting", "woken", "closing"}}
OpenActivities ==
    {n \in ActivityNodes : st[n] \in {"policy", "recording", "waiting", "woken", "closing"}}

\* A call that passed its check leaves room for itself, and takes it later.
ToolsLeaveRoom == consumed.tools + Cardinality(AskedTools) <= MaxToolCalls + Cardinality(GatedTools)
ActivitiesLeaveRoom ==
    ActivityNodes # {} =>
        consumed.activities + Cardinality(OpenActivities)
            <= MaxActivityCalls + Cardinality(ActivityNodes) - 1
\* Both budgets.
BudgetInv == ToolsLeaveRoom /\ ActivitiesLeaveRoom

\* They are finitely many, and never more than the nodes of their kind.
CallsAreCounted ==
    /\ IsFiniteSet(AskedTools) /\ IsFiniteSet(OpenActivities)
    /\ Cardinality(AskedTools) \in Nat /\ Cardinality(OpenActivities) \in Nat
    /\ Cardinality(AskedTools) <= Cardinality(GatedTools)
    /\ Cardinality(OpenActivities) <= Cardinality(ActivityNodes)

\* The graph is finite.
LEMMA NodesAreCounted ==
  /\ IsFiniteSet(GatedTools) /\ IsFiniteSet(ActivityNodes)
  /\ Cardinality(GatedTools) \in Nat /\ Cardinality(ActivityNodes) \in Nat
  /\ ActivityNodes # {} => Cardinality(ActivityNodes) >= 1
<1>1. GatedTools \subseteq Nodes /\ ActivityNodes \subseteq Nodes
  BY DEF GatedTools, ActivityNodes
<1>2. IsFiniteSet(GatedTools) /\ IsFiniteSet(ActivityNodes)
  BY <1>1, NodesAssumption, FS_Subset
<1>3. ActivityNodes # {} => Cardinality(ActivityNodes) # 0
  BY <1>2, FS_EmptySet
<1>4. Cardinality(GatedTools) \in Nat /\ Cardinality(ActivityNodes) \in Nat
  BY <1>2, FS_CardinalityType
<1> QED BY <1>2, <1>3, <1>4

\* In this state,
LEMMA CallsCounted == CallsAreCounted
<1>1. AskedTools \subseteq GatedTools /\ OpenActivities \subseteq ActivityNodes
  BY DEF AskedTools, OpenActivities
<1>2. IsFiniteSet(AskedTools) /\ IsFiniteSet(OpenActivities)
      /\ Cardinality(AskedTools) <= Cardinality(GatedTools)
      /\ Cardinality(OpenActivities) <= Cardinality(ActivityNodes)
  BY <1>1, NodesAreCounted, FS_Subset
<1> QED BY <1>2, FS_CardinalityType DEF CallsAreCounted

\* and in the next.
LEMMA CallsCountedNext == CallsAreCounted'
  BY CallsCounted, PTL

\* Fewer calls are open.
LEMMA FewerOpen ==
  /\ AskedTools' \subseteq AskedTools => Cardinality(AskedTools') <= Cardinality(AskedTools)
  /\ OpenActivities' \subseteq OpenActivities
         => Cardinality(OpenActivities') <= Cardinality(OpenActivities)
  BY CallsCounted, FS_Subset DEF CallsAreCounted

\* A call that is counted is open no more.
LEMMA OneLess ==
  ASSUME IInv, NEW n \in Nodes, st' = [st EXCEPT ![n] = "scheduled"]
  PROVE  /\ n \in AskedTools => Cardinality(AskedTools') = Cardinality(AskedTools) - 1
         /\ n \in OpenActivities => Cardinality(OpenActivities') = Cardinality(OpenActivities) - 1
         /\ AskedTools' \subseteq AskedTools /\ OpenActivities' \subseteq OpenActivities
<1>1. AskedTools' = AskedTools \ {n} /\ OpenActivities' = OpenActivities \ {n}
  BY DEF IInv, TypeOK, AskedTools, OpenActivities, GatedTools, ActivityNodes
<1>2. n \in AskedTools => Cardinality(AskedTools \ {n}) = Cardinality(AskedTools) - 1
  BY CallsCounted, FS_RemoveElement DEF CallsAreCounted
<1>3. n \in OpenActivities => Cardinality(OpenActivities \ {n}) = Cardinality(OpenActivities) - 1
  BY CallsCounted, FS_RemoveElement DEF CallsAreCounted
<1> QED BY <1>1, <1>2, <1>3

\* What a step leaves of the budgets, when it counts nothing and opens nothing.
LEMMA NothingOpened ==
  ASSUME IInv, BudgetInv,
         consumed'.tools = consumed.tools, consumed'.activities = consumed.activities,
         AskedTools' \subseteq AskedTools, OpenActivities' \subseteq OpenActivities
  PROVE  BudgetInv'
<1>1. consumed.tools \in Nat /\ consumed.activities \in Nat
  BY DEF IInv, TypeOK
<1>2. MaxToolCalls \in Nat /\ MaxActivityCalls \in Nat
  BY BudgetAssumption
<1> QED BY <1>1, <1>2, FewerOpen, CallsCounted, CallsCountedNext, NodesAreCounted
        DEF BudgetInv, ToolsLeaveRoom, ActivitiesLeaveRoom, CallsAreCounted

\* A call is counted when it is scheduled: in the step of its check, or after it
\* has been open.
LEMMA ScheduleKeepsBudgets ==
  ASSUME IInv, BudgetInv, NEW n \in Nodes, Schedule(n), Kind(n) \in Work,
         \/ st[n] \in {"policy", "closing"}
         \/ st[n] = "go" /\ Kind(n) = "tool_call" /\ InBudget(n)
  PROVE  BudgetInv'
<1>1. consumed \in [tools : Nat, activities : Nat, depth : Nat]
  BY DEF IInv, TypeOK
<1>2. MaxToolCalls \in Nat /\ MaxActivityCalls \in Nat
  BY BudgetAssumption
<1>3. /\ AskedTools' \subseteq AskedTools /\ OpenActivities' \subseteq OpenActivities
      /\ Cardinality(AskedTools') <= Cardinality(AskedTools)
      /\ Cardinality(OpenActivities') <= Cardinality(OpenActivities)
  BY OneLess, FewerOpen DEF Schedule, Goto
<1>4. CASE Kind(n) = "tool_call"
  <2>1. consumed'.tools = consumed.tools + 1 /\ consumed'.activities = consumed.activities
    BY <1>1, <1>4 DEF Schedule
  <2>2. ActivitiesLeaveRoom'
    BY <1>1, <1>2, <1>3, <2>1, CallsCounted, CallsCountedNext, NodesAreCounted
       DEF BudgetInv, ActivitiesLeaveRoom, CallsAreCounted
  <2>3. CASE st[n] = "go" /\ InBudget(n)
    <3>1. consumed.tools + 1 <= MaxToolCalls
      BY <1>4, <2>3 DEF InBudget
    <3>2. ToolsLeaveRoom'
      BY <1>1, <1>2, <2>1, <3>1, CallsCountedNext, NodesAreCounted
         DEF ToolsLeaveRoom, CallsAreCounted
    <3> QED BY <2>2, <3>2 DEF BudgetInv
  <2>4. CASE st[n] \in {"policy", "closing"}
    <3>1. n \in AskedTools
      BY <1>4, <2>4 DEF IInv, Stations, AskedTools, GatedTools
    <3>2. Cardinality(AskedTools') = Cardinality(AskedTools) - 1
      BY <3>1, OneLess DEF Schedule, Goto
    <3>3. ToolsLeaveRoom'
      BY <1>1, <1>2, <2>1, <3>2, CallsCounted, NodesAreCounted
         DEF BudgetInv, ToolsLeaveRoom, CallsAreCounted
    <3> QED BY <2>2, <3>3 DEF BudgetInv
  <2> QED BY <1>4, <2>3, <2>4
<1>5. CASE Kind(n) = "activity"
  <2>1. consumed'.tools = consumed.tools /\ consumed'.activities = consumed.activities + 1
    BY <1>1, <1>5 DEF Schedule
  <2>2. ToolsLeaveRoom'
    BY <1>1, <1>2, <1>3, <2>1, CallsCounted, CallsCountedNext, NodesAreCounted
       DEF BudgetInv, ToolsLeaveRoom, CallsAreCounted
  <2>3. n \in OpenActivities
    BY <1>5 DEF OpenActivities, ActivityNodes
  <2>4. Cardinality(OpenActivities') = Cardinality(OpenActivities) - 1
    BY <2>3, OneLess DEF Schedule, Goto
  <2>5. ActivitiesLeaveRoom'
    BY <1>1, <1>2, <2>1, <2>4, CallsCounted, NodesAreCounted
       DEF BudgetInv, ActivitiesLeaveRoom, CallsAreCounted
  <2> QED BY <2>2, <2>5 DEF BudgetInv
<1> QED BY <1>4, <1>5 DEF Work

\* A call that passes its check: one more is open, and at most all of them are.
LEMMA CheckKeepsBudgets ==
  ASSUME IInv, BudgetInv, NEW n \in Nodes, NEW to, st' = [st EXCEPT ![n] = to],
         consumed' = consumed, Kind(n) \in Work, InBudget(n)
  PROVE  BudgetInv'
<1>1. consumed \in [tools : Nat, activities : Nat, depth : Nat]
  BY DEF IInv, TypeOK
<1>2. MaxToolCalls \in Nat /\ MaxActivityCalls \in Nat
  BY BudgetAssumption
<1>3. CASE Kind(n) = "tool_call"
  <2>1. consumed.tools + 1 <= MaxToolCalls
    BY <1>3 DEF InBudget
  <2>2. ToolsLeaveRoom'
    BY <1>1, <1>2, <2>1, CallsCountedNext, NodesAreCounted DEF ToolsLeaveRoom,
       CallsAreCounted
  <2>3. OpenActivities' = OpenActivities
    BY <1>3 DEF OpenActivities, ActivityNodes, IInv, TypeOK
  <2>4. ActivitiesLeaveRoom'
    BY <2>3 DEF BudgetInv, ActivitiesLeaveRoom
  <2> QED BY <2>2, <2>4 DEF BudgetInv
<1>4. CASE Kind(n) = "activity"
  <2>1. consumed.activities + 1 <= MaxActivityCalls
    BY <1>4 DEF InBudget
  <2>2. ActivitiesLeaveRoom'
    BY <1>1, <1>2, <2>1, CallsCountedNext, NodesAreCounted DEF ActivitiesLeaveRoom,
       CallsAreCounted
  <2>3. AskedTools' = AskedTools
    BY <1>4 DEF AskedTools, GatedTools, IInv, TypeOK
  <2>4. ToolsLeaveRoom'
    BY <2>3 DEF BudgetInv, ToolsLeaveRoom
  <2> QED BY <2>2, <2>4 DEF BudgetInv
<1> QED BY <1>3, <1>4 DEF Work

\* Each step leaves room for the calls that are open.
LEMMA BudgetNext ==
  ASSUME IInv, BudgetInv, [Next]_vars
  PROVE  BudgetInv'
<1>0. consumed \in [tools : Nat, activities : Nat, depth : Nat] /\ st \in [Nodes -> States]
  BY DEF IInv, TypeOK
<1>1. ASSUME consumed' = consumed,
             \A m \in Nodes : \/ st'[m] = st[m]
                              \/ st'[m] \in {"enter", "gated", "go", "children", "done"}
                              \/ /\ st[m] \in {"recording", "waiting", "woken"}
                                 /\ st'[m] \in {"waiting", "woken", "closing"}
      PROVE  BudgetInv'
  <2>1. AskedTools' \subseteq AskedTools /\ OpenActivities' \subseteq OpenActivities
    BY <1>1 DEF AskedTools, OpenActivities, GatedTools, ActivityNodes
  <2> QED BY <1>1, <2>1, NothingOpened
<1>2. CASE UNCHANGED <<st, consumed>>
  BY <1>1, <1>2
<1>3. CASE External \/ UNCHANGED vars
  BY <1>2, <1>3 DEF External, Pause, Resume, DeadlinePasses, Cancel, See, Query, Signal,
     SignalRefused, JournalApproval, vars, workflow
<1>4. CASE CheckConditions
  BY <1>0, <1>1, <1>4 DEF CheckConditions
<1>5. ASSUME NEW n \in Nodes, NEW S, NEW at, Start(n, S, at) PROVE BudgetInv'
  BY <1>1, <1>5 DEF Start
<1>6. ASSUME NEW n \in Nodes, Enter(n) PROVE BudgetInv'
  <2>1. consumed'.tools = consumed.tools /\ consumed'.activities = consumed.activities
    BY <1>0, <1>6 DEF Enter, Fails
  <2>2. st' = st \/ \E to \in {"gated", "go"} : st' = [st EXCEPT ![n] = to]
    BY <1>6 DEF Enter, Fails, Goto
  <2>3. AskedTools' \subseteq AskedTools /\ OpenActivities' \subseteq OpenActivities
    BY <1>0, <2>2 DEF AskedTools, OpenActivities, GatedTools, ActivityNodes
  <2> QED BY <2>1, <2>3, NothingOpened
<1>7. CASE Fails
  BY <1>2, <1>7 DEF Fails
<1>8. ASSUME NEW n \in Nodes, NEW result, Finish(n, result) PROVE BudgetInv'
  BY <1>0, <1>1, <1>8 DEF Finish, Goto
<1>9. ASSUME NEW n \in Nodes, Descend(n) \/ Advance(n) PROVE BudgetInv'
  BY <1>5, <1>8, <1>9 DEF Descend, Advance
<1>10. ASSUME NEW n \in Nodes, Decide(n) \/ Suspend(n) \/ Expire(n) PROVE BudgetInv'
  <2>1. consumed' = consumed
    BY <1>10 DEF Decide, Suspend, Expire
  <2>2. \/ st' = st
        \/ /\ st[n] \in {"recording", "waiting", "woken"}
           /\ \E to \in {"waiting", "closing"} : st' = [st EXCEPT ![n] = to]
    BY <1>10 DEF Decide, Suspend, Expire, Goto, Ready, Awakens
  <2> QED BY <1>0, <1>1, <2>1, <2>2
<1>11. ASSUME NEW n \in Nodes, BeginWork(n) PROVE BudgetInv'
  <2>1. CASE InBudget(n) /\ Kind(n) = "tool_call" /\ AwaitApproval(n)
    BY <2>1, CheckKeepsBudgets DEF AwaitApproval, Goto, Work
  <2>2. CASE InBudget(n) /\ Kind(n) = "tool_call" /\ Schedule(n)
    BY <1>11, <2>2, ScheduleKeepsBudgets DEF BeginWork, Ready
  <2>3. CASE InBudget(n) /\ Kind(n) = "activity" /\ Goto(n, "policy") /\ consumed' = consumed
    BY <2>3, CheckKeepsBudgets DEF Goto, Work
  <2> QED BY <1>7, <1>11, <2>1, <2>2, <2>3 DEF BeginWork
<1>12. ASSUME NEW n \in Nodes, PolicyAnswer(n) PROVE BudgetInv'
  <2>1. Kind(n) \in Work /\ st[n] = "policy" /\ Kind(n) = "activity"
    BY <1>12 DEF PolicyAnswer, Awakens, IInv, Stations, Work
  <2>2. CASE AwaitApproval(n)
    <3>1. st' = [st EXCEPT ![n] = "recording"] /\ consumed' = consumed
      BY <2>2 DEF AwaitApproval, Goto
    <3>2. AskedTools' \subseteq AskedTools /\ OpenActivities' \subseteq OpenActivities
      BY <1>0, <2>1, <3>1 DEF AskedTools, OpenActivities, GatedTools, ActivityNodes
    <3> QED BY <3>1, <3>2, NothingOpened
  <2>3. CASE Schedule(n)
    BY <2>1, <2>3, ScheduleKeepsBudgets
  <2> QED BY <1>7, <1>12, <2>2, <2>3 DEF PolicyAnswer
<1>13. ASSUME NEW n \in Nodes, Close(n) PROVE BudgetInv'
  <2>1. Kind(n) \in Work /\ st[n] = "closing"
    BY <1>13 DEF Close, Awakens, IInv, Stations
  <2> QED BY <1>7, <1>13, <2>1, ScheduleKeepsBudgets DEF Close
<1>14. ASSUME NEW n \in Nodes, WorkEnds(n) PROVE BudgetInv'
  BY <1>7, <1>8, <1>14 DEF WorkEnds
<1> QED BY <1>3, <1>4, <1>6, <1>9, <1>10, <1>11, <1>12, <1>13, <1>14
        DEF Next, Internal, Activity, Over

\* Each budget is checked before an await and counted after it; for every graph
\* it is crossed by no more than the calls that can be in between.
THEOREM BudgetsAreCrossedByFew == Spec => []OvershootIsBounded
<1>1. Init => BudgetInv
  <2> SUFFICES ASSUME Init PROVE BudgetInv
    OBVIOUS
  <2>1. consumed.tools = 0 /\ consumed.activities = 0
    BY DEF Init
  <2>2. AskedTools = {} /\ OpenActivities = {}
    BY DEF Init, AskedTools, OpenActivities, GatedTools, ActivityNodes
  <2>3. Cardinality(AskedTools) = 0 /\ Cardinality(OpenActivities) = 0
    BY <2>2, FS_EmptySet
  <2> QED BY <2>1, <2>3, NodesAreCounted, BudgetAssumption
          DEF BudgetInv, ToolsLeaveRoom, ActivitiesLeaveRoom
<1>2. IInv /\ BudgetInv /\ [Next]_vars => BudgetInv'
  BY BudgetNext
<1>3. IInv /\ BudgetInv => OvershootIsBounded
  <2> SUFFICES ASSUME IInv, BudgetInv PROVE OvershootIsBounded
    OBVIOUS
  <2>1. consumed.tools \in Nat /\ consumed.activities \in Nat
    BY DEF IInv, TypeOK
  <2>2. /\ consumed.tools <= MaxToolCalls + Cardinality(GatedTools)
        /\ ActivityNodes # {} =>
               consumed.activities <= MaxActivityCalls + Cardinality(ActivityNodes) - 1
    BY <2>1, CallsCounted, NodesAreCounted, BudgetAssumption
       DEF BudgetInv, ToolsLeaveRoom, ActivitiesLeaveRoom, CallsAreCounted
  <2> QED BY <2>2 DEF OvershootIsBounded, GatedTools, ActivityNodes
<1> QED BY <1>1, <1>2, <1>3, Invariance, PTL DEF Spec

-----------------------------------------------------------------------------
(* Graphs that run nothing side by side. *)

\* A node that is neither over nor waiting for its children.
AtWork(n) == st[n] \notin {"idle", "done", "children"}

\* One node at a time is at work.
Alone == \A n, m \in Nodes : AtWork(n) /\ AtWork(m) => n = m

\* A node that runs is the root, or some node's child.
Rooted == \A n \in Nodes : n # Root /\ ~Inactive(n) => \E l \in Nodes : n \in Children(l)

\* Only children are started.
LEMMA RootedNext ==
  ASSUME IInv, Rooted, [Next]_vars
  PROVE  Rooted'
<1> USE DEF IInv, TypeOK
<1>1. CASE Quiet
  BY <1>1 DEF Quiet, Rooted, Inactive
<1>2. CASE CheckConditions
  BY <1>2 DEF CheckConditions, Rooted, Inactive
<1>3. ASSUME NEW n \in Nodes, NEW S \in SUBSET Nodes, NEW at \in Nat, Starts(n, S, at)
      PROVE  Rooted'
  BY <1>3 DEF Starts, Start, Rooted, Inactive
<1>4. ASSUME NEW n \in Nodes, NEW to \in States, Moves(n, to)
      PROVE  Rooted'
  BY <1>4 DEF Moves, Rooted, Inactive
<1> QED BY <1>1, <1>2, <1>3, <1>4, StepKinds

\* In such a graph a node awaits one child at most.
LEMMA AwaitsOne ==
  ASSUME InLine, NEW n \in Nodes, NEW c \in Awaited(n), NEW d \in Awaited(n)
  PROVE  c = d
  BY DEF InLine, Awaited

\* The nodes below the root that run have each a parent that awaits it and no other:
\* they are no more than the nodes that wait for children, so that one at most of
\* all that run does not.
LEMMA OneAtWork ==
  ASSUME InLine, IInv, Rooted
  PROVE  Alone
<1> SUFFICES ASSUME NEW n \in Nodes, NEW m \in Nodes, AtWork(n), AtWork(m), n # m
             PROVE  FALSE
  BY DEF Alone
<1> DEFINE Waits == {x \in Nodes : st[x] = "children"}
           Below == {x \in Nodes \ {Root} : ~Inactive(x)}
           Parent(x) == CHOOSE l \in Nodes : x \in Children(l)
           f == [x \in Below |-> Parent(x)]
<1>1. ASSUME NEW x \in Below
      PROVE  Parent(x) \in Waits /\ x \in Awaited(Parent(x))
  <2>1. Parent(x) \in Nodes /\ x \in Children(Parent(x))
    BY DEF Rooted
  <2> QED BY <2>1 DEF IInv, Structured, Inactive
<1>2. ASSUME NEW x \in Below, NEW y \in Below, Parent(x) = Parent(y)
      PROVE  x = y
  BY <1>1, <1>2, AwaitsOne
<1>3. IsFiniteSet(Nodes) /\ IsFiniteSet(Waits) /\ IsFiniteSet(Below)
  BY NodesAssumption, FS_Subset
<1>4. Cardinality(Below) <= Cardinality(Waits)
  <2> HIDE DEF Waits, Below, Parent
  <2>1. f \in Injection(Below, Waits)
    BY <1>1, <1>2 DEF Injection, IsInjective
  <2> QED BY <1>3, <2>1, FS_Injection
<1>5. Cardinality(Waits \cup {n}) = Cardinality(Waits) + 1
      /\ IsFiniteSet(Waits \cup {n})
  BY <1>3, FS_AddElement DEF AtWork
<1>6. Cardinality(Waits \cup {n} \cup {m}) = Cardinality(Waits) + 2
      /\ IsFiniteSet(Waits \cup {n} \cup {m})
  <2>1. m \notin Waits \cup {n}
    BY DEF AtWork
  <2>2. Cardinality(Waits) \in Nat
    BY <1>3, FS_CardinalityType
  <2> QED BY <1>5, <2>1, <2>2, FS_AddElement
<1>7. Waits \cup {n} \cup {m} \subseteq Below \cup {Root}
  BY DEF AtWork, Inactive
<1>8. Cardinality(Below \cup {Root}) = Cardinality(Below) + 1 /\ IsFiniteSet(Below \cup {Root})
  BY <1>3, FS_AddElement
<1>9. Cardinality(Waits \cup {n} \cup {m}) <= Cardinality(Below \cup {Root})
  BY <1>7, <1>8, FS_Subset
<1>10. Cardinality(Waits) \in Nat /\ Cardinality(Below) \in Nat
  BY <1>3, FS_CardinalityType
<1> HIDE DEF Waits, Below
<1> QED BY <1>4, <1>6, <1>8, <1>9, <1>10

\* Whoever asks is the one at work, and its approval is pending until it ends.
LEMMA PendingNext ==
  ASSUME IInv, PendingIsTyped, Alone, SlotIsAwaited, [Next]_vars
  PROVE  SlotIsAwaited'
<1> USE DEF IInv, TypeOK
<1>1. CASE /\ pending' = pending
           /\ run' = "running" => run = "running"
           /\ \A n \in Nodes : AwaitsDecision(n)' <=> AwaitsDecision(n)
  BY <1>1 DEF SlotIsAwaited, PendingIsTyped, AwaitsDecision
<1>2. ASSUME NEW n \in Nodes, AtWork(n), st' = [st EXCEPT ![n] = "closing"], pending' = Nothing
      PROVE  SlotIsAwaited'
  BY <1>2, ZenonT(40) DEF SlotIsAwaited, AwaitsDecision, Alone, AtWork
<1>3. ASSUME NEW n \in Nodes, AtWork(n), AwaitApproval(n)
      PROVE  SlotIsAwaited'
  <2>1. pending' \in [id : Nat, node : Nodes, hash : Nodes \X Nat] /\ pending'.node = n
    <3>1. asked' \in Nat /\ asked' = asked + 1 /\ Hash(n) \in Nodes \X Nat
      BY <1>3, CountersNext, HashType DEF AwaitApproval
    <3> QED BY <1>3, <3>1 DEF AwaitApproval
  <2>2. pending' # Nothing
    BY <2>1, NothingAssumption
  <2>3. st' = [st EXCEPT ![n] = "recording"]
    BY <1>3 DEF AwaitApproval, Goto
  <2>4. \A m \in Nodes : AwaitsDecision(m)' => m = n
    BY <1>3, <2>3 DEF AwaitsDecision, Alone, AtWork
  <2> QED BY <2>1, <2>2, <2>3, <2>4 DEF SlotIsAwaited, AwaitsDecision
<1>4. CASE External \/ UNCHANGED vars
  BY <1>1, <1>4 DEF External, Pause, Resume, DeadlinePasses, Cancel, See, Query, Signal,
     SignalRefused, JournalApproval, workflow, vars, AwaitsDecision
<1>5. CASE CheckConditions
  BY <1>1, <1>5 DEF CheckConditions, AwaitsDecision
<1>6. CASE run' # "running"
  BY <1>6 DEF SlotIsAwaited
<1>7. ASSUME NEW n \in Nodes, NEW to, st' = [st EXCEPT ![n] = to], ~AwaitsDecision(n),
             to \notin {"recording", "waiting", "woken"}, pending' = pending,
             run = "running"
      PROVE  SlotIsAwaited'
  BY <1>1, <1>7 DEF AwaitsDecision
<1>8. ASSUME NEW n \in Nodes, Enter(n) PROVE SlotIsAwaited'
  <2>1. CASE UNCHANGED run
    <3>1. \E to \in {"gated", "go"} : st' = [st EXCEPT ![n] = to]
      BY <1>8, <2>1 DEF Enter, Fails, Goto, Ready
    <3> QED BY <1>7, <1>8, <3>1 DEF Enter, Fails, Ready, AwaitsDecision
  <2> QED BY <1>6, <1>8, <2>1 DEF Enter, Fails
<1>9. ASSUME NEW n \in Nodes, Schedule(n), ~AwaitsDecision(n), run = "running"
      PROVE  SlotIsAwaited'
  BY <1>7, <1>9 DEF Schedule, Goto
<1>10. ASSUME NEW n \in Nodes, BeginWork(n) PROVE SlotIsAwaited'
  <2>1. st[n] = "go" /\ run = "running"
    BY <1>10 DEF BeginWork, Ready
  <2>2. CASE Goto(n, "policy") /\ UNCHANGED pending
    BY <1>7, <2>1, <2>2 DEF Goto, AwaitsDecision
  <2> QED BY <1>3, <1>6, <1>9, <1>10, <2>1, <2>2 DEF BeginWork, Fails, AwaitsDecision, AtWork
<1>11. ASSUME NEW n \in Nodes, PolicyAnswer(n) \/ Close(n) PROVE SlotIsAwaited'
  <2>1. st[n] \in {"policy", "closing"} /\ run = "running"
    BY <1>11 DEF PolicyAnswer, Close, Awakens, Settled
  <2> QED BY <1>3, <1>6, <1>9, <1>11, <2>1
          DEF PolicyAnswer, Close, Fails, AwaitsDecision, AtWork
<1>12. ASSUME NEW n \in Nodes, Suspend(n) PROVE SlotIsAwaited'
  <2>1. st[n] = "recording" /\ st' = [st EXCEPT ![n] = "waiting"] /\ UNCHANGED <<pending, run>>
    BY <1>12 DEF Suspend, Awakens, Goto
  <2> QED BY <1>1, <2>1 DEF AwaitsDecision
<1>13. ASSUME NEW n \in Nodes, Decide(n) \/ Expire(n) PROVE SlotIsAwaited'
  <2>1. AtWork(n)
    BY <1>13 DEF Decide, Expire, Ready, Awakens, AtWork
  <2> QED BY <1>2, <1>6, <1>13, <2>1 DEF Decide, Expire, Goto
<1>14. ASSUME NEW n \in Nodes, WorkEnds(n) PROVE SlotIsAwaited'
  <2>1. st[n] = "scheduled" /\ run = "running"
    BY <1>14 DEF WorkEnds, Awakens, Settled
  <2>2. CASE Fails
    BY <1>6, <2>2 DEF Fails
  <2>3. CASE \E result \in Results(n) : Finish(n, result)
    BY <1>7, <2>1, <2>3 DEF Finish, Goto, AwaitsDecision
  <2> QED BY <1>14, <2>2, <2>3 DEF WorkEnds
<1>15. ASSUME NEW n \in Nodes, Descend(n) \/ Advance(n) PROVE SlotIsAwaited'
  <2>1. pending' = pending /\ run = "running"
    BY <1>15 DEF Descend, Advance, Start, Finish, Ready
  <2>2. ASSUME NEW S \in SUBSET Nodes, NEW at \in Nat, Starts(n, S, at)
        PROVE  \A x \in Nodes : AwaitsDecision(x)' <=> AwaitsDecision(x)
    BY <2>2 DEF Starts, Start, Inactive, AwaitsDecision
  <2>3. CASE Moves(n, "done") /\ Advance(n)
    BY <1>7, <2>1, <2>3 DEF Moves, Advance, Joined, AwaitsDecision
  <2>4. \/ \E S \in SUBSET Nodes, at \in Nat : Starts(n, S, at)
        \/ Moves(n, "done") /\ Advance(n)
    BY <1>15, DescendStarts, AdvanceMoves
  <2> QED BY <1>1, <2>1, <2>2, <2>3, <2>4
<1> QED BY <1>4, <1>5, <1>8, <1>10, <1>11, <1>12, <1>13, <1>14, <1>15
        DEF Next, Internal, Activity, Over

\* A decision that woke a node stays until that node takes it.
LEMMA DecisionStays ==
  ASSUME IInv, Alone, DecisionIsThere, [Next]_vars
  PROVE  DecisionIsThere'
<1> USE DEF IInv, TypeOK
<1>1. CASE /\ decision' = decision
           /\ \A n \in Nodes : st'[n] = "woken" => st[n] = "woken"
  BY <1>1 DEF DecisionIsThere
<1>2. ASSUME NEW n \in Nodes, AtWork(n), st'[n] # "woken",
             \A m \in Nodes \ {n} : st'[m] = st[m]
      PROVE  DecisionIsThere'
  <2>1. ASSUME NEW m \in Nodes, st'[m] = "woken" PROVE FALSE
    BY <1>2, <2>1 DEF Alone, AtWork
  <2> QED BY <2>1 DEF DecisionIsThere
<1>3. CASE CheckConditions
  BY <1>3 DEF CheckConditions, DecisionIsThere
<1>4. ASSUME NEW p \in Approvers, Signal(p) PROVE DecisionIsThere'
  BY <1>4 DEF Signal, Settled, DecisionIsThere
<1>5. CASE UNCHANGED vars \/ (External /\ ~\E p \in Approvers : Signal(p))
  BY <1>1, <1>5 DEF External, Pause, Resume, DeadlinePasses, Cancel, See, Query,
     SignalRefused, JournalApproval, vars, workflow
<1>6. ASSUME NEW n \in Nodes, Enter(n) \/ Descend(n) \/ Advance(n) PROVE DecisionIsThere'
  BY <1>1, <1>6, ZenonT(40) DEF Enter, Descend, Advance, Fails, Start, Finish, Goto
<1>7. ASSUME NEW n \in Nodes, BeginWork(n) PROVE DecisionIsThere'
  <2>1. AtWork(n)
    BY <1>7 DEF BeginWork, Ready, AtWork
  <2> QED BY <1>1, <1>2, <1>7, <2>1 DEF BeginWork, Fails, Schedule, AwaitApproval, Goto
<1>8. ASSUME NEW n \in Nodes, PolicyAnswer(n) PROVE DecisionIsThere'
  <2>1. AtWork(n)
    BY <1>8 DEF PolicyAnswer, Awakens, AtWork
  <2> QED BY <1>1, <1>2, <1>8, <2>1 DEF PolicyAnswer, Fails, Schedule, AwaitApproval, Goto
<1>9. ASSUME NEW n \in Nodes, Suspend(n) \/ Expire(n) \/ Close(n) \/ WorkEnds(n)
      PROVE  DecisionIsThere'
  BY <1>1, <1>9 DEF Suspend, Expire, Close, WorkEnds, Fails, Schedule, Finish, Goto
<1>10. ASSUME NEW n \in Nodes, Decide(n) PROVE DecisionIsThere'
  <2>1. AtWork(n)
    BY <1>10 DEF Decide, Ready, AtWork
  <2> QED BY <1>1, <1>2, <1>10, <2>1 DEF Decide, Goto
<1> QED BY <1>3, <1>4, <1>5, <1>6, <1>7, <1>8, <1>9, <1>10
        DEF Next, Internal, External, Activity, Over

\* A node that was let through its budget still has room when it is counted.
RoomIsKept ==
    /\ ToolBudgetHolds /\ ActivityBudgetHolds
    /\ \A n \in Nodes :
           /\ Kind(n) = "tool_call" /\ st[n] \in {"recording", "waiting", "woken", "closing"}
                  => consumed.tools + 1 <= MaxToolCalls
           /\ Kind(n) = "activity"
              /\ st[n] \in {"policy", "recording", "waiting", "woken", "closing"}
                  => consumed.activities + 1 <= MaxActivityCalls

\* Nobody else is at work between the check of a budget and its count.
LEMMA RoomNext ==
  ASSUME IInv, Alone, RoomIsKept, [Next]_vars
  PROVE  RoomIsKept'
<1> DEFINE Asked == {"recording", "waiting", "woken", "closing"}
<1> USE DEF IInv, TypeOK, RoomIsKept, ToolBudgetHolds, ActivityBudgetHolds
<1>1. CASE /\ consumed'.tools = consumed.tools /\ consumed'.activities = consumed.activities
           /\ \A n \in Nodes : /\ st'[n] \in Asked => st[n] \in Asked
                               /\ st'[n] = "policy" => st[n] = "policy"
  BY <1>1
<1>2. ASSUME NEW n \in Nodes, AtWork(n), InBudget(n), Kind(n) \in Work,
             UNCHANGED consumed, \A m \in Nodes \ {n} : st'[m] = st[m]
      PROVE  RoomIsKept'
  <2>1. \A m \in Nodes \ {n} : st'[m] \notin Asked \cup {"policy"}
    BY <1>2 DEF Alone, AtWork
  <2> QED BY <1>2, <2>1 DEF InBudget, Work
<1>3. ASSUME NEW n \in Nodes, AtWork(n), InBudget(n), Schedule(n)
      PROVE  RoomIsKept'
  <2>1. \A m \in Nodes : st'[m] \notin Asked \cup {"policy"}
    BY <1>3 DEF Schedule, Goto, Alone, AtWork
  <2>2. consumed'.tools <= MaxToolCalls /\ consumed'.activities <= MaxActivityCalls
    BY <1>3 DEF Schedule, InBudget
  <2> QED BY <2>1, <2>2
<1>4. CASE External \/ UNCHANGED vars
  BY <1>1, <1>4 DEF External, Pause, Resume, DeadlinePasses, Cancel, See, Query, Signal,
     SignalRefused, JournalApproval, workflow, vars
<1>5. CASE CheckConditions
  BY <1>1, <1>5 DEF CheckConditions
<1>6. ASSUME NEW n \in Nodes, Enter(n) PROVE RoomIsKept'
  BY <1>1, <1>6 DEF Enter, Fails, Goto
<1>7. ASSUME NEW n \in Nodes, Descend(n) \/ Advance(n) PROVE RoomIsKept'
  <2>1. ASSUME NEW S, NEW at, Start(n, S, at) PROVE RoomIsKept'
    BY <1>1, <2>1 DEF Start
  <2>2. ASSUME NEW result, Finish(n, result) PROVE RoomIsKept'
    BY <1>1, <2>2 DEF Finish, Goto
  <2> QED BY <1>7, <2>1, <2>2 DEF Descend, Advance
<1>8. ASSUME NEW n \in Nodes, BeginWork(n) PROVE RoomIsKept'
  <2>1. AtWork(n) /\ Kind(n) \in Work
    BY <1>8 DEF BeginWork, Ready, AtWork
  <2>2. CASE Fails
    BY <1>1, <2>2 DEF Fails
  <2>3. CASE InBudget(n) /\ (AwaitApproval(n) \/ (Goto(n, "policy") /\ UNCHANGED consumed))
    BY <1>2, <2>1, <2>3 DEF AwaitApproval, Goto
  <2> QED BY <1>3, <1>8, <2>1, <2>2, <2>3 DEF BeginWork
<1>9. ASSUME NEW n \in Nodes, Kind(n) \in Work, st[n] = "policy" \/ st[n] = "closing"
      PROVE  InBudget(n)
  BY <1>9 DEF Stations, InBudget, Work
<1>10. ASSUME NEW n \in Nodes, PolicyAnswer(n) \/ Close(n) PROVE RoomIsKept'
  <2>1. AtWork(n) /\ Kind(n) \in Work /\ InBudget(n)
    BY <1>9, <1>10 DEF PolicyAnswer, Close, Awakens, AtWork, Stations, Work
  <2>2. CASE Fails
    BY <1>1, <2>2 DEF Fails
  <2>3. CASE AwaitApproval(n)
    BY <1>2, <2>1, <2>3 DEF AwaitApproval, Goto
  <2> QED BY <1>3, <1>10, <2>1, <2>2, <2>3 DEF PolicyAnswer, Close
<1>11. ASSUME NEW n \in Nodes, Suspend(n) \/ Decide(n) \/ Expire(n) PROVE RoomIsKept'
  BY <1>1, <1>11 DEF Suspend, Decide, Expire, Goto, Ready, Awakens
<1>12. ASSUME NEW n \in Nodes, WorkEnds(n) PROVE RoomIsKept'
  BY <1>1, <1>12 DEF WorkEnds, Finish, Fails, Goto
<1> QED BY <1>4, <1>5, <1>6, <1>7, <1>8, <1>10, <1>11, <1>12
        DEF Next, Internal, Activity, Over

\* At the start only the root runs.
LEMMA InLineInit ==
  ASSUME Init
  PROVE  Rooted /\ SlotIsAwaited /\ DecisionIsThere /\ RoomIsKept
<1>1. \A n \in Nodes : st[n] \in {"enter", "idle"} /\ (n # Root => st[n] = "idle")
  BY DEF Init
<1>2. pending = Nothing /\ consumed.tools = 0 /\ consumed.activities = 0
  BY DEF Init
<1> QED BY <1>1, <1>2, BudgetAssumption
        DEF Rooted, Inactive, SlotIsAwaited, AwaitsDecision, DecisionIsThere, RoomIsKept,
            ToolBudgetHolds, ActivityBudgetHolds

\* One node at a time is at work in a graph that starts no two children at once,
\* whatever its nesting, its loops and the order of the events.
THEOREM OneNodeAtATime == InLine => (Spec => []Alone)
<1> SUFFICES ASSUME InLine PROVE Spec => []Alone
  OBVIOUS
<1>1. Init => Rooted
  BY InLineInit
<1>2. IInv /\ Rooted /\ [Next]_vars => Rooted'
  BY RootedNext
<1>3. IInv /\ Rooted => Alone
  BY OneAtWork
<1> QED BY <1>1, <1>2, <1>3, Invariance, PTL DEF Spec

\* The one slot of a run (_pending_approval) is enough for such a graph: what is
\* pending is what a node waits for, and who waits is pending.
THEOREM OneSlotIsEnough == Spec => []PendingIsAwaited
<1>1. CASE InLine
  <2>1. Init => SlotIsAwaited
    BY InLineInit
  <2>2. IInv /\ ApprovalInv /\ Alone /\ SlotIsAwaited /\ [Next]_vars => SlotIsAwaited'
    BY PendingNext DEF ApprovalInv
  <2>3. Spec => []Alone
    BY <1>1, OneNodeAtATime
  <2>4. SlotIsAwaited => PendingIsAwaited
    BY DEF PendingIsAwaited
  <2> QED BY <2>1, <2>2, <2>3, <2>4, Invariance, ApprovalsGoBack, PTL DEF Spec
<1>2. CASE ~InLine
  <2>1. PendingIsAwaited
    BY <1>2 DEF PendingIsAwaited
  <2> QED BY <2>1, PTL
<1> QED BY <1>1, <1>2

\* "wait_condition only returns once this is set" (graph_run.py:250) is so in such a
\* graph: nobody takes the decision before the node it woke.
THEOREM WokenNodesFindADecision == InLine => (Spec => []DecisionIsThere)
<1> SUFFICES ASSUME InLine PROVE Spec => []DecisionIsThere
  OBVIOUS
<1>1. Init => DecisionIsThere
  BY InLineInit
<1>2. IInv /\ Alone /\ DecisionIsThere /\ [Next]_vars => DecisionIsThere'
  BY DecisionStays
<1>3. Spec => []Alone
  BY OneNodeAtATime
<1> QED BY <1>1, <1>2, <1>3, Invariance, PTL DEF Spec

\* "this guarantees the executed count never exceeds max_tool_calls" (graph.py:265)
\* is so in such a graph, and so is the limit of the activities, although each
\* budget is read before an await and counted after it.
THEOREM BudgetsHoldInLine == InLine => (Spec => [](ToolBudgetHolds /\ ActivityBudgetHolds))
<1> SUFFICES ASSUME InLine PROVE Spec => [](ToolBudgetHolds /\ ActivityBudgetHolds)
  OBVIOUS
<1>1. Init => RoomIsKept
  BY InLineInit
<1>2. IInv /\ Alone /\ RoomIsKept /\ [Next]_vars => RoomIsKept'
  BY RoomNext
<1>3. RoomIsKept => ToolBudgetHolds /\ ActivityBudgetHolds
  BY DEF RoomIsKept
<1>4. Spec => []Alone
  BY OneNodeAtATime
<1> QED BY <1>1, <1>2, <1>3, <1>4, Invariance, PTL DEF Spec
=============================================================================
