---------------------------- MODULE Delegations ----------------------------
(***************************************************************************)
(* Governed delegation to remote agents (go/internal/api/                  *)
(* a2a_egress_handlers.go, go/internal/a2a/egress.go, taskstate.go,        *)
(* go/internal/store/a2a_delegations.go, remote_agents.go): a proxied call *)
(* is authorized, admitted against the width of its run under an advisory  *)
(* lock, forwarded, and its row is closed, or only observed, by what the   *)
(* remote answered.  The remote agents are external: a task works until it *)
(* pauses for a person or ends, whoever is listening.  A remote agent      *)
(* chooses the ids of its own tasks and answers for them truthfully; two   *)
(* remote agents may choose the same id.                                   *)
(***************************************************************************)
EXTENDS PolicyEngine

CONSTANTS
    Calls,           \* concurrent requests to the proxy
    Runs, NoRun,     \* a request may name no run
    Remotes,         \* remote agents
    TaskIds,         \* what a remote agent may call a task
    Dirs,            \* the policy directories a gateway may be started on, in a sequence
    Requests,        \* what may be asked: [tenant, agent, run, remote, method, names],
                     \* where names says whether it names a task
    NoAgent,         \* a request may carry no identity
    RemoteStates,    \* the states their tasks go through
    MaxInFlight,     \* MaxInFlightPerRun; 0 is unlimited
    MaxRequests,     \* bound on the requests, all together
    MaxFaults        \* bound on failed statements, broken connections and crashes

None == 0

ASSUME WidthAssumption == MaxInFlight \in Nat
ASSUME RequestsAssumption == \A q \in Requests : q.run \in Runs \cup {NoRun}
ASSUME DirsAssumption ==
    /\ None \notin DOMAIN Dirs
    /\ \A n \in DOMAIN Dirs : \A t \in DOMAIN Dirs[n] : DOMAIN Dirs[n][t] \subseteq Nat
ASSUME NamesAssumption == NoRun \notin Runs /\ None \notin Calls
ASSUME TaskIdsAssumption == TaskIds \subseteq Nat \ {None}

Tasks == Remotes \X TaskIds   \* a task is known by its remote agent and its id

VARIABLES
    policies,   \* the number of the directory the gateway has loaded; None when it is down
    rows,       \* a2a_delegations, in the order of its ids
    declared,   \* remote_agents
    tasks,      \* task -> what the remote agent is doing: "none" before it exists
    begun,      \* [row, task]: what a remote agent did for the call that opened a row
    calls,
    lock,       \* run -> the call that holds its advisory lock
    requests, faults

vars == <<policies, rows, declared, tasks, begun, calls, lock, requests, faults>>

-----------------------------------------------------------------------------
(* ClassifyState and RelayResponse. *)

\* "exotic" stands for a state this build has not heard of.
TerminalStates == {"completed", "failed", "canceled", "rejected"}
PausedForHuman == {"input-required", "auth-required"}
KnownStates == TerminalStates \cup PausedForHuman \cup {"submitted", "working", "unknown"}

\* Mutant of Terminal: whatever is not known to be open has ended.
TerminalByDefault(state) == state \notin {"submitted", "working"}
Terminal(state) == state \in TerminalStates
Recognised(state) == state \in KnownStates
EffectiveState(state) == IF Terminal(state) \/ Recognised(state) THEN state ELSE "working"

\* An answer is [kind, task, state]: a task with its state, a message, which is
\* the whole answer, a JSON-RPC error or an unreadable body, or no answer.
Answer(kind, task, state) == [kind |-> kind, task |-> task, state |-> state]
Finished(answer) == answer.kind = "message" \/ (answer.kind = "task" /\ Terminal(answer.state))
\* What the caller reads.
Relayed(answer) == IF answer.kind = "task" THEN EffectiveState(answer.state) ELSE answer.kind

StartsWork(method) == method \in {"message/send", "message/stream"}

-----------------------------------------------------------------------------
(* The table. *)

\* task_state and terminal follow from the answer; no statement reads them back,
\* nor remote_agent_id.
Row(run, open) == [run |-> run, task |-> None, open |-> open, stale |-> FALSE]

\* Mutant of Counts: a row counts however old it is.
CountsStale(row, run) == row.run = run /\ row.open
Counts(row, run) == row.run = run /\ row.open /\ ~row.stale
InFlight(run) == Cardinality({i \in DOMAIN rows : Counts(rows[i], run)})

\* COALESCE keeps the task id that is there when the answer names none.
Observed(row, task) == [row EXCEPT !.task = IF task # None THEN task ELSE @]

Observe(id, task) == [rows EXCEPT ![id] = Observed(@, task)]
CloseRow(id, task) == [rows EXCEPT ![id] = [Observed(@, task) EXCEPT !.open = FALSE]]
\* Whichever remote agent the row is about.
CloseByTaskID(run, task) ==
    [i \in DOMAIN rows |->
        IF rows[i].task = task /\ rows[i].run = run THEN [rows[i] EXCEPT !.open = FALSE] ELSE rows[i]]
RecordDenial(run) == Append(rows, Row(run, FALSE))

-----------------------------------------------------------------------------
NoRequest == [run |-> NoRun, method |-> "none"]
IdleCall == [pc |-> "idle", asked |-> NoRequest, task |-> None, row |-> None,
             answer |-> Answer("none", None, "none")]

Init ==
    /\ policies = None /\ rows = <<>> /\ declared = {}
    /\ tasks = [t \in Tasks |-> "none"] /\ begun = {}
    /\ calls = [c \in Calls |-> IdleCall]
    /\ lock = [r \in Runs |-> None]
    /\ requests = 0 /\ faults = 0

Goes(c, next) == calls' = [calls EXCEPT ![c] = next]
Arrives(c) == policies # None /\ calls[c].pc = "idle" /\ requests < MaxRequests /\ requests' = requests + 1

\* The gateway starts: it loads its policy directory, whole, or it does not run.
Start(n) ==
    /\ policies = None /\ LoadSetAccepts(Dirs[n])
    /\ policies' = n
    /\ UNCHANGED <<rows, declared, tasks, begun, calls, lock, requests, faults>>

\* POST /a2a/remote-agents, an upsert.
DeclareRemote(id) ==
    /\ policies # None /\ id \notin declared
    /\ declared' = declared \cup {id}
    /\ UNCHANGED <<policies, rows, tasks, begun, calls, lock, requests, faults>>

\* EngineFor: a tenant without a bundle has no engine.
Engines == [n \in DOMAIN Dirs |-> [t \in DOMAIN Dirs[n] |-> LoadEngine(Dirs[n][t])]]
HasEngine(tenant) == tenant \in DOMAIN Dirs[policies]
Permitted(q) == IsAllowedToDelegate(Engines[policies][q.tenant], q.agent, q.remote)

Known(q) == q.agent # NoAgent /\ q.remote \in declared
\* No identity, an undeclared destination or a policy that says no: refused, and
\* recorded as far as the table can be written.
Refuse(c, q) ==
    /\ Arrives(c) /\ (Known(q) => HasEngine(q.tenant) /\ ~Permitted(q))
    /\ \/ rows' = RecordDenial(q.run) /\ UNCHANGED faults
       \/ faults < MaxFaults /\ faults' = faults + 1 /\ UNCHANGED rows
    /\ UNCHANGED <<policies, declared, tasks, begun, calls, lock>>

\* A tenant nobody wrote a bundle for delegates nowhere, and no row says so.
RefuseUnserved(c, q) ==
    /\ Arrives(c) /\ Known(q) /\ ~HasEngine(q.tenant)
    /\ UNCHANGED <<policies, rows, declared, tasks, begun, calls, lock, faults>>

\* An authorized request: one that starts work has to be admitted first.
Authorize(c, q, task) ==
    /\ Arrives(c) /\ Known(q) /\ HasEngine(q.tenant) /\ Permitted(q)
    /\ task \in IF q.names THEN {t \in TaskIds : tasks[<<q.remote, t>>] # "none"} ELSE {None}
    /\ Goes(c, [IdleCall EXCEPT !.asked = q, !.task = task,
                !.pc = IF ~StartsWork(q.method) THEN "forward"
                       ELSE IF MaxInFlight = 0 \/ q.run = NoRun THEN "insert" ELSE "lock"])
    /\ UNCHANGED <<policies, rows, declared, tasks, begun, lock, faults>>

-----------------------------------------------------------------------------
(* Open: the count and the insert under the run's advisory lock. *)

Limited(c) == MaxInFlight > 0 /\ calls[c].asked.run # NoRun

\* Mutant of TakesLock: nobody waits.
TakesNoLock(c) == TRUE
TakesLock(c) == lock[calls[c].asked.run] = None
OpenCounts(c) ==
    /\ calls[c].pc = "lock" /\ TakesLock(c) /\ InFlight(calls[c].asked.run) < MaxInFlight
    /\ Goes(c, [calls[c] EXCEPT !.pc = "insert"])
    /\ lock' = [lock EXCEPT ![calls[c].asked.run] = c]
    /\ UNCHANGED <<policies, rows, declared, tasks, begun, requests, faults>>

\* No room: rolled back, and refused as any other request.
DenyFanOut(c) ==
    /\ calls[c].pc = "lock" /\ TakesLock(c) /\ InFlight(calls[c].asked.run) >= MaxInFlight
    /\ \/ rows' = RecordDenial(calls[c].asked.run) /\ UNCHANGED faults
       \/ faults < MaxFaults /\ faults' = faults + 1 /\ UNCHANGED rows
    /\ Goes(c, IdleCall)
    /\ UNCHANGED <<policies, declared, tasks, begun, lock, requests>>

Unlocked(c) == IF Limited(c) THEN [lock EXCEPT ![calls[c].asked.run] = None] ELSE lock
InsertsRow(c) ==
    /\ calls[c].pc = "insert"
    /\ rows' = Append(rows, Row(calls[c].asked.run, TRUE))
    /\ lock' = Unlocked(c)
OpenInserts(c) ==
    /\ InsertsRow(c)
    /\ Goes(c, [calls[c] EXCEPT !.pc = "forward", !.row = Len(rows) + 1])
    /\ UNCHANGED <<policies, declared, tasks, begun, requests, faults>>

\* The commit lands and its acknowledgement does not: the row stays open, and the
\* call ends without having been forwarded.
OpenUnacknowledged(c) ==
    /\ InsertsRow(c) /\ faults < MaxFaults /\ faults' = faults + 1
    /\ Goes(c, IdleCall)
    /\ UNCHANGED <<policies, declared, tasks, begun, requests>>

\* Begin, the lock, the count, the insert or the commit fails: rolled back.
OpenFails(c) ==
    /\ calls[c].pc \in {"lock", "insert"} /\ faults < MaxFaults
    /\ faults' = faults + 1
    /\ lock' = IF calls[c].pc = "insert" THEN Unlocked(c) ELSE lock
    /\ Goes(c, IdleCall)
    /\ UNCHANGED <<policies, rows, declared, tasks, begun, requests>>

-----------------------------------------------------------------------------
(* Forwarding. *)

\* A new task has an id that is new to its remote agent; of the ids that nobody has
\* used yet the first stands for all.
Unused(id) == \A r \in Remotes : tasks[<<r, id>>] = "none"
IsNewTask(t) == tasks[t] = "none" /\ (Unused(t[2]) => \A id \in TaskIds : id < t[2] => ~Unused(id))

\* The task a call is about: the one it names, or one that it starts.
TaskOf(c) ==
    {t \in Tasks : /\ t[1] = calls[c].asked.remote
                   /\ IF calls[c].task # None THEN t[2] = calls[c].task ELSE IsNewTask(t)}

\* A task that ended stays as it is; another one may be anywhere.
StateAfter(state) == IF state \in TerminalStates THEN {state} ELSE RemoteStates

Answers(c, answer) ==
    Goes(c, [calls[c] EXCEPT !.pc = "record", !.answer = answer])

\* The remote agent takes the message: it starts or goes on with the task.
RemoteWorks(c) ==
    /\ calls[c].pc = "forward" /\ StartsWork(calls[c].asked.method)
    /\ \E t \in TaskOf(c) : \E state \in StateAfter(tasks[t]) :
        /\ tasks' = [tasks EXCEPT ![t] = state]
        /\ begun' = begun \cup {[row |-> calls[c].row, task |-> t]}
        /\ \/ Answers(c, Answer("task", t[2], state)) /\ UNCHANGED faults
           \* The connection breaks, or the 30 seconds are over: nobody hears of it.
           \/ /\ faults < MaxFaults /\ faults' = faults + 1
              /\ \/ Answers(c, Answer("none", None, "none"))
                 \* It broke because the caller is gone, and Close shares its context.
                 \/ Goes(c, IdleCall)
    /\ UNCHANGED <<policies, rows, declared, lock, requests>>

\* No credential for it, or the remote agent cannot be reached.
ForwardFails(c) ==
    /\ calls[c].pc = "forward" /\ faults < MaxFaults /\ faults' = faults + 1
    /\ Answers(c, Answer("none", None, "none"))
    /\ UNCHANGED <<policies, rows, declared, tasks, begun, lock, requests>>

\* It answers at once with a message, or refuses with an error.
RemoteReplies(c) ==
    /\ calls[c].pc = "forward"
    /\ \E kind \in {"message", "error"} :
        /\ kind = "message" => StartsWork(calls[c].asked.method) /\ calls[c].task = None
        /\ Answers(c, Answer(kind, None, "none"))
    /\ UNCHANGED <<policies, rows, declared, tasks, begun, lock, requests, faults>>

\* A poll finds out how far the task has come.
RemoteTells(c) ==
    /\ calls[c].pc = "forward" /\ ~StartsWork(calls[c].asked.method) /\ calls[c].task # None
    /\ \E t \in TaskOf(c) : \E state \in StateAfter(tasks[t]) :
        /\ tasks' = [tasks EXCEPT ![t] = state]
        /\ Answers(c, Answer("task", t[2], state))
    /\ UNCHANGED <<policies, rows, declared, begun, lock, requests, faults>>

-----------------------------------------------------------------------------
(* What the answer does to the table. *)

\* A transport failure closes the row, an end closes it, anything else is
\* observed, and the end of a polled task closes the rows of that task.
Recorded(c) ==
    LET answer == calls[c].answer
        mine == calls[c].row
    IN  CASE mine # None /\ answer.kind = "none" -> CloseRow(mine, None)
          [] mine # None /\ Finished(answer) -> CloseRow(mine, answer.task)
          [] mine # None /\ answer.kind # "none" /\ ~Finished(answer) -> Observe(mine, answer.task)
          [] mine = None /\ Finished(answer) /\ answer.task # None ->
                CloseByTaskID(calls[c].asked.run, answer.task)
          [] OTHER -> rows

\* A statement that fails is logged, and that is all.
Record(c) ==
    /\ calls[c].pc = "record"
    /\ \/ rows' = Recorded(c) /\ UNCHANGED faults
       \/ faults < MaxFaults /\ faults' = faults + 1 /\ UNCHANGED rows
    /\ Goes(c, IdleCall)
    /\ UNCHANGED <<policies, declared, tasks, begun, lock, requests>>

-----------------------------------------------------------------------------
(* Faults and time. *)

\* The gateway dies: its transactions are rolled back and its rows stay open.
Crash ==
    /\ policies # None /\ faults < MaxFaults
    /\ policies' = None /\ faults' = faults + 1
    /\ calls' = [c \in Calls |-> IdleCall]
    /\ lock' = [r \in Runs |-> None]
    /\ UNCHANGED <<rows, declared, tasks, begun, requests>>

\* StaleAfter goes by, for the oldest row first; for a closed one, and for one of no
\* run, it means nothing.
Waiting(i) == rows[i].open /\ rows[i].run # NoRun /\ ~rows[i].stale
GoStale ==
    /\ \E i \in DOMAIN rows :
        /\ Waiting(i) /\ \A j \in 1..(i - 1) : ~Waiting(j)
        /\ rows' = [rows EXCEPT ![i].stale = TRUE]
    /\ UNCHANGED <<policies, declared, tasks, begun, calls, lock, requests, faults>>

-----------------------------------------------------------------------------
Request(c) ==
    \E q \in Requests : Refuse(c, q) \/ RefuseUnserved(c, q) \/ \E task \in TaskIds \cup {None} : Authorize(c, q, task)
Step(c) ==
    \/ OpenCounts(c) \/ DenyFanOut(c) \/ OpenInserts(c) \/ OpenUnacknowledged(c) \/ OpenFails(c)
    \/ RemoteWorks(c) \/ RemoteReplies(c) \/ RemoteTells(c) \/ ForwardFails(c) \/ Record(c)
Next ==
    \/ \E c \in Calls : Request(c) \/ Step(c)
    \/ \E id \in Remotes : DeclareRemote(id)
    \/ \E n \in DOMAIN Dirs : Start(n)
    \/ GoStale \/ Crash

\* Time passes.
Spec == Init /\ [][Next]_vars /\ WF_vars(GoStale)

-----------------------------------------------------------------------------
(* Properties. *)

\* The type invariant.
TypeOK ==
    /\ policies \in DOMAIN Dirs \cup {None}
    /\ \A i \in DOMAIN rows : rows[i].open \in BOOLEAN /\ rows[i].stale \in BOOLEAN
    /\ \A r \in Runs : lock[r] \in Calls \cup {None}
    /\ requests \in 0..MaxRequests /\ faults \in 0..MaxFaults

\* However many requests arrive together, on however many replicas, a run has at
\* most MaxInFlight delegations that are open and not stale.
WidthIsBounded == MaxInFlight > 0 => \A r \in Runs : InFlight(r) <= MaxInFlight

\* Width is given back early in two ways only.  Of a delegation that started or
\* joined a task, the row is closed when that task has ended, or when nobody heard
\* of it (a transport failure, after which the row names no task), or when a task
\* of the same id has ended at another remote agent; never for a task that works,
\* waits for a person or is in a state nobody knows.
Over(t) == tasks[t] \in TerminalStates
FreedOnlyWhenOver ==
    \A b \in begun : ~rows[b.row].open =>
        \/ Over(b.task)
        \/ rows[b.row].task = None
        \/ \E r \in Remotes \ {b.task[1]} : Over(<<r, b.task[2]>>)

\* A caller reads an end only of a task that has ended at the remote agent it asked,
\* and whatever that one invents, the state a caller reads is one it knows.
RelayedIsSo ==
    \A c \in Calls : calls[c].pc = "record" /\ calls[c].answer.kind = "task" =>
        LET said == Relayed(calls[c].answer)
        IN  /\ said \in KnownStates
            /\ said \in TerminalStates => Over(<<calls[c].asked.remote, calls[c].answer.task>>)

\* Observe's comment (a2a_delegations.go:167): "`completed_at` here means "the remote
\* task finished"".  It is not so of the two cases that FreedOnlyWhenOver names.
CompletedMeansFinished ==
    \A b \in begun : ~rows[b.row].open => Over(b.task)

\* What has been let past the policy had a permit in its own tenant's file, no
\* forbid in it, and no permit that asks for a person first, whatever the entries
\* say of themselves and however many there are.
ForwardedIsApproved ==
    \A c \in Calls : calls[c].pc # "idle" =>
        LET q == calls[c].asked
            file == Dirs[policies][q.tenant]
            Covers(i, effect) ==
                \E n \in DOMAIN file[i].source :
                    /\ file[i].source[n].effect = effect
                    /\ <<q.agent, "RemoteAgent", q.remote>> \in file[i].source[n].matches
        IN  /\ q.tenant \in DOMAIN Dirs[policies]
            /\ \E i \in DOMAIN file : Covers(i, "permit")
            /\ \A i \in DOMAIN file :
                ~Covers(i, "forbid") /\ (Covers(i, "permit") => file[i].disposition # "require_approval")

\* A gateway that died, a write that failed or an answer that named no task does
\* not spend the width of a run for good.
WidthIsRegained ==
    \A r \in Runs : (InFlight(r) >= MaxInFlight) ~> (InFlight(r) < MaxInFlight)

\* The other half of that comment: the row counts until then, and no longer.  With
\* nothing under way, a task whose end the proxy has relayed holds no width.
FinishedIsFreed ==
    \A b, d \in begun :
        /\ b.task = d.task /\ rows[b.row].run = rows[d.row].run /\ ~rows[b.row].open
        /\ (\A c \in Calls : calls[c].pc = "idle") /\ faults = 0
        => ~rows[d.row].open
=============================================================================
