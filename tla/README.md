# A verification project for the Aeon agent harness

TLA+ models of the parts of Aeon that make an agent run durable, governed and accounted for: the
Tool Gateway's deduplicated executions and the activity that calls it, the run journal and a loop
that resumes from it, the graph workflow with its approvals, the Model Gateway with its ledger and
its stream, the registry with its circuit breaker, kill switch and leases, delegation to remote
agents, and long-term memory. TLC checks them on small instances; TLAPS proves almost all of the safety
properties for every instance, and that the Tool Gateway implements what it promises.

Paths are relative to the repository (`src/`). `PROJECT.json` maps each definition to its lines.

## 1. The system

### 1.1 Parts, state, operations

| Part | State it keeps | Operations | Modelled in |
|---|---|---|---|
| Tool Gateway (`go/internal/api/tool_gateway_handlers.go`, `toolexec/executor.go`) | none of its own: a request's locals | `/execute`, `/check-policy`, `/check-activity-policy` | `ToolGateway` |
| Dedupe table (`store/tool_executions.go`) | one row per (tenant, key): state, args, result, failed attempts | Claim, Complete, Release | `ToolExecutions` |
| Tool activity (`python/aeon_worker/activities/tool_activities.py`) | Temporal's attempts of a step | execute_tool under a retry policy | `ToolStep` |
| Run journal (`store/checkpointer.go`, `checkpoint/checkpoint.go`) | `run_checkpoints` rows, per-run advisory lock | Append, Load; Completed, Attempted, NextSeq, Durability | `Checkpointer` |
| Agent loop (outside the repository) | what it has done since it last loaded | journal intent, call, journal result, resume | `JournalledRun` |
| Graph interpreter (`python/aeon_worker/graph.py`) | context, budgets consumed, step sequence, one coroutine per node | eight node kinds | `GraphRun` |
| Graph run workflow (`workflows/graph_run.py`) | paused, pending approval, approval decision | pause, resume, approve, reject, await approval | `GraphRun` |
| Run controller (`runcontroller/controller.go`, `api/run_controller_handlers.go`) | none: Temporal holds the run | start, cancel, pause, resume, status, approve, reject | `GraphRun`; the start's check in `AgentLifecycle` |
| Policy engine (`policy/`) | one Cedar engine per tenant, loaded at start | load a directory; decide: allow, require_approval, deny_step, terminate_run | `PolicyEngine` |
| Model Gateway (`modelgateway/`, `api/model_gateway_handlers.go`, `api/openai_compatible_*.go`) | the bundle; quality scores | `/decide`, chat, streamed chat, `/quality-scores` | `ModelPolicy`, `ModelGateway` |
| Providers (`providers/`) | none | decide, stream | `Adapters`, `StreamAdapter` |
| FinOps (`finops/`, `store/finops_ledger.go`) | `model_gateway_costs` rows | record, spend of a run, ceiling, reconcile | `FinOpsLedger` |
| Registries (`store/agent_registry.go`, `store/tool_registry.go`) | agents with lifecycle and quarantine, tools | create, transition, quarantine, unquarantine | `AgentLifecycle` |
| Circuit breaker (`circuitbreaker/`) | in memory: a window of outcomes and a verdict per version | record outcome, reset | `CircuitBreaker` |
| Secret broker (`secrets/`, `secretref/`) | in memory: leases | issue, resolve, revoke, revoke an owner's | `SecretBroker` |
| A2A egress (`api/a2a_egress_handlers.go`, `a2a/`, `store/a2a_delegations.go`) | rows of delegations, per-run advisory lock, declared remote agents | declare, proxy a call | `Delegations` |
| Authentication and tenancy (`auth/`, `api/run_tenant.go`) | the callers, loaded at start | authenticate, effective tenant | `Tenancy` |
| Memory (`store/memory_*.go`, `api/memory_handlers.go`) | memory rows | write, quarantine, validate, promote, reject, revoke, supersede, use, prune, repair | `Memory` |
| MCP and A2A servers, tools, sandbox, SDK adapters, context library, evals, tracing, CLI | little or none | translation, formatting, reading | no |

### 1.2 How they interact

A workflow (`graph.py`) schedules `execute_tool_activity`; Temporal delivers attempts of it; each
attempt posts to the Tool Gateway with a key derived from (run, node, step sequence, arguments).
The gateway asks the policy, journals a denial in the run's journal when the request names its run,
claims the key in Postgres, runs the tool, writes an audit row and completes or releases the key.
Callers of the run controller signal the workflow; for an approval the controller first *queries*
what is pending and then signals. A loop across the durability seam journals intent and result
through the checkpoint routes and asks the journal after a crash what is still open.

Model calls go through the Model Gateway: profile from the bundle, ceiling from the ledger,
candidates one after the other through the providers, rows in the ledger. Reported outcomes feed the
breaker, whose verdict, like the kill switch, is a quarantine in the registry; the start of a run
reads it. The kill switch can take back the leases a version holds, where a broker is attached to it;
the control plane attaches none. A delegation asks the policy
engine, is admitted against the width of its run, takes a lease for the remote agent's credential,
and its row follows the remote task. Every request is served for a tenant that comes from its
caller's token, or from a header where the operator lets a service act for others.

### 1.3 What is hard, and what makes each part correct

* **Tool Gateway.** Requests with one key interleave statement by statement, on several gateways;
  Complete and Release are unconditional UPDATEs; a statement may be applied although it reports an
  error; the process may die anywhere. Correct: one executor per key at a time, one result per key
  for every caller, a confirmed effect never again, every effect accounted for.
* **Activity.** A timed-out attempt goes on at the gateway beside its retry. Correct: the result
  handed to the workflow is that of an execution that happened, and the step ends.
* **Journal.** `MAX(seq) + 1` under READ COMMITTED, lost commits, loads between appends. Correct:
  dense positions, append-only, what is acknowledged is durable, a loaded state is a prefix.
* **Resuming loop.** Crashes between intent, effect and result, appends that land after the resume,
  a gateway that writes in the loop's name. Correct: an effect is never taken for a new step, a
  skipped step did conclude.
* **Graph run.** Branches that await between a check and its use, one approval slot, decisions that
  come late or twice, pause, cancellation, deadline and TTL in any order. Correct: nothing runs
  unapproved, budgets are crossed by no more than what was between check and count, a pause lets only
  what is past the gate go on, and a run ends or is held by somebody outside the platform.
* **Model Gateway.** The ceiling is read before a call and charged after it; a cascade throws away
  answers that were paid for; a replay costs nothing; a stream breaks after its first chunk. Correct:
  a bounded overshoot, every answer recorded, a ledger the platform's accounts agree with, restricted
  data inside, one model's words in one stream.
* **Stream adapter.** Starts and ends are inferred from deltas. Correct: phases open and close
  properly wherever the stream is cut, and no fragment of a tool call's arguments is lost.
* **Registry, breaker, leases.** Reads and writes are separate statements; the registry is a table,
  the breaker is memory of the control plane, the leases are memory of the tool gateway, and the run
  controller is a third process; the registry is keyed by tenant, the breaker is not. Correct: no
  release without its gate, a verdict that reaches the registry, credentials that end with the call they
  were leased for, late starts bounded by what was under way.
* **Delegations.** Requests that arrive together, answers that get lost, gateways that die with rows
  open, states this build has not heard of, task ids that two agents both chose. Correct: the width holds,
  comes back in the end, comes back early only where the proxy has lost sight of the task, and nothing is
  forwarded past the policy.
* **Memory.** Every operation reads a status and then writes by id alone. Correct: what is active was
  validated and promoted for its tenant, a revocation sticks once its races are over, tenants are
  kept apart.

`PROJECT.json` lists these as hazards, each at its line with the properties that watch it.

## 2. The modules

| Module | Models | Role |
|---|---|---|
| `ToolExecutions` | one row of the table, one operator per SQL statement | used by `ToolGateway` |
| `ToolGateway` | every request, from authentication to its answer | extends `ToolExecutions` |
| `IdempotentExecution` | what the gateway promises for a key, with no table and no handlers | abstract specification; `ToolGateway` implements it |
| `ToolStep` | Temporal and the activity around the gateway | composes with `ToolGateway` |
| `Checkpointer` | transactions of Append, Load, RunState | |
| `JournalledRun` | loop, gateway denials and journal | composes with `Checkpointer` |
| `GraphRun` | workflow, interpreter, controller, approvers | |
| `ModelPolicy` | bundle, restricted pool, order, prices, throttling | operators |
| `Adapters` | what the five providers' adapters make of an answer | operators; extends `ModelPolicy` |
| `FinOpsLedger` | rows, spend, ceiling, reconciliation | operators; extends `ModelPolicy` |
| `ModelGateway` | concurrent calls through the three doors | composes `FinOpsLedger` and `Adapters` |
| `StreamAdapter` | the OpenAI-compatible stream, chunk by chunk | |
| `CircuitBreaker`, `SecretBroker` | window and verdict; leases | operators |
| `AgentLifecycle` | registries, kill switch, starts, leases in use | composes the two |
| `PolicyEngine` | loading of bundles, decision and disposition | operators |
| `Delegations` | the egress proxy, its table and the remote tasks | composes with `PolicyEngine` |
| `Tenancy` | caller directories, authentication, effective tenant | operators |
| `Memory` | memory rows and every operation on them | composes with `Tenancy` |
| `ToolGatewayProofs` | theorems about `ToolGateway`, its refinement and `ToolStep` | extends `ToolStep` |
| `JournalledRunProofs` | theorems about the journal, and about a run on it | extends `JournalledRun` |
| `GraphRunProofs`, `ModelGatewayProofs`, `StreamAdapterProofs`, `AgentLifecycleProofs`, `DelegationsProofs`, `MemoryProofs` | theorems | each extends its component |
| `MC...` | constants, graphs, bundles and symmetry sets for TLC | |

### 2.1 Correspondence

**ToolGateway.** `pc[c]` is the next statement of request `c`: `insert`, `select`, `reclaim` are the
three statements of `Claim`; `run`, `record` the executor; `settle` Complete or Release; `journal`,
`refusal` the two writes of a denial; `replay` the audit row of a served result. `Arrive` is all of
the front door, because nothing in it changes shared state. A result is identified with the call
that produced it, so that "the same result" is distinguishable. `effects[k]` is a history variable:
how often the tool's effect landed; a tool that fails may have had its effect. The faults are
`ClaimFails`, `CompleteFails`, `ReleaseFails` (the statement applied or not) and `Crash`.

**ToolStep.** `Attempt` is a delivery: key and arguments are the same each time, since the step
sequence is assigned in the workflow and kept by its replay. `Receive` maps answers as
`_execute_through_gateway` does; `TimesOut` leaves the request running. A refusal at the front door
is a 403 (final) or another status (retried), so both are possible.

**Checkpointer.** `pc[a]` is the next statement of append `a`'s transaction, `tuple[a]` the row it
found or has inserted and not committed. `Insert` computes the position in its snapshot, the committed
rows, and `Index` enters the row so computed: it waits for an open transaction with a clashing entry and
fails on a committed one, as Postgres does under READ COMMITTED. That this never happens is the lock's
doing (`NoAppendConflicts`; with the lock skipped TLC finds the failure). The lock hashes the run id alone:
`LockOf` is a parameter, and the theorems hold for every hash. `view` is the last loaded state,
with the rows it was computed from as history.

**JournalledRun.** The loop is external; `CallDenied` is `journalDenial`, whose entry has the
request's step id and no sub-run. `Reload` is a gateway that restarts with another bundle.

**GraphRun.** Workflow code runs alone between awaits, so a step of a node is the code between two
awaits: `enter` and `go` are ready to run, `gated`, `policy`, `recording`, `waiting`, `closing`,
`scheduled`, `children` are awaits. `Settled` says that all ready code has run, which is when
Temporal's next events are applied. `CheckConditions` wakes *every* waiter whose condition holds, as
the SDK's event loop does. `run = "stuck"` is a workflow task that fails and is retried for ever. A
node of a loop's body is started afresh in each iteration; the body itself runs under `id[i]`. A
child that has run stays `done` until its loop starts it again.
`request[p]` is one HTTP request of an approver: seen, queried, signalled, journalled. `ApprovalTTL` says
whether the workflow was started with one: the Run Controller passes none (`controller.go:78`), so that an
approval nobody decides is waited for without limit.

**ModelGateway.** `ArriveDecide` and `ArriveChat` are what happens before the first candidate:
profile, ceiling, restricted pool, order. Then a call is `trying` the head of `todo`: `Skip`
(degraded or unregistered), `Fails`, `AnswerGetsLost`, `Answers` (served, or discarded as empty), or
`StreamBegins` followed by `StreamEnds` or `StreamBreaks`. `RecordRow` is one INSERT, on the
request's context, and may fail. The sort by priority is not stable, so equals come in every order.
`platform` is external: what each provider did, with the generation a replay repeats, so that the
ledger can be held against it. A model is a provider with a model name; an adapter is chosen by the
provider, and what it reports is a set of possible accounts of the tokens really consumed
(`Accounts`: a usage record or timings in which either part of the prompt may be absent), read by that
adapter's own rules (`UsageOf`). `Nil` is Go's nil pointer, never zero.
A request at a provider is named by the call, the model and the attempt; the rows a call still has to
write are a sequence of sets, where the empty set stands for an attempt that owes none.

**StreamAdapter.** `phases` is `streamPhases`. A chunk is read (`ReadChunk`) and its parts, reasoning,
text and tool call fragments in the order of the code, are handled one at a time (`HandlePart`; `todo`
holds those left). A fragment may carry a name without arguments. `yield` may fail at every event, and
the stream may be cut between any two chunks.

**AgentLifecycle.** A request is a process; each statement, and each call of the breaker or the
broker (which hold a mutex), is a step. Control plane, tool gateway and run controller restart apart,
each losing its own memory and the requests it was answering. `gated`, `unsettled`, `runs` and a lease's
`late` are history: which agents a gate let pass, which verdicts could not be written, starts let through
since the quarantine, leases given after it.

**Delegations.** `policies` is the directory loaded at start. `OpenCounts` and `OpenInserts` are
`Open` under the advisory lock; `OpenUnacknowledged` is a commit that lands and is reported as failed,
`OpenFails` one that does not land, `DenyFanOut` a refusal whose row may or may not be written. A task is a
remote agent with an id of its choice, and ids of two agents may coincide. `RemoteWorks`, `RemoteReplies`,
`RemoteTells` are the external remote agents, whose tasks move whether or not an answer arrives;
`ForwardFails` is the transport failure or timeout, which closes the row. `Record` is Close, Observe or
CloseByTaskID. `begun` is history: which row a task was started or joined under, also where the proxy
never learned it. `GoStale` is the passage of `StaleAfter`, oldest row first.

**Memory.** `write` is the UPDATE of a transition whose read and rule are done; `heir`, `usage`,
`repair` the second statements of Supersede, RecordUsage and RepairIfTampered; `prune` the loop over
one listing. An heir may be the id of no record, which the foreign key refuses (`SupersedeRefused`).
Scores are counted in halves (a failure costs 0.5), ages in half-lives. `by`, `passed`, `seen` and `severed`
(the records that a Supersede retired and then failed to give an heir) are history.

## 3. What is checked

| Run | Instance | Distinct states | Properties |
|---|---|---|---|
| `tool_gateway` | 3 calls, 1 key and calls without key, 2 argument documents, all faults | 563 000 | `KeyHeldOnce`, `EffectsCounted`, `AnswersAgree`, `ServedOwnArguments`, `AuditIsConsistent`, `ConfirmedNotRepeated`, refinement `KeepsPromise` |
| `tool_step` | 3 attempts, all faults | 317 000 | `SucceededLanded`, `KeySettles`, `StepEnds` |
| `journal` | 3 appends, 2 runs on one lock, 2 sub-runs, 2 payloads, loads, all faults | 308 000 | `NoAppendConflicts`, `SeqIsDense`, `AcknowledgedIsDurable`, `LoadedIsPrefix` |
| `journalled_run` | a root and a delegation with one step id, 3 appends, crashes, policy changes | 285 000 | `EffectIsNeverForgotten`, `SkippedOnlyIfConcluded`, `ResultMeansEffect` |
| `graph_run` | a graph of twelve nodes with every kind and three branches, budgets of one tool and one activity, a TTL, 1 approver | 91 000 | `OvershootIsBounded`, `PausedRunDrains` |
| `graph_approvals` | a loop with two approvals per iteration, no TTL (as shipped), 2 approvers | 19 000 | `ApprovedBeforeScheduled`, `PendingIsAwaited`, `RunEndsOrIsHeld` |
| `model_gateway` | 2 calls at a time, 5 profiles, 4 models, seven requests, 1 fault | 1 647 000 | `OvershootIsBounded`, `EveryAnswerIsRecorded`, `ReconcileFindsOnlyGaps`, `RestrictedStaysInside`, `NeverSpliced` |
| `streaming` | streams of 4 chunks, 8 kinds of chunk, 2 tool calls, cuts anywhere | 31 000 | `LifecycleIsWellFormed`, `LastEndIsComplete` |
| `agent_lifecycle` | 2 processes, 2 tenants with one version, a window of 2, no broker attached (as shipped), 5 requests, 1 fault | 644 000 | `OnlyGatedIsReleased`, `TripIsApplied`, `LateStartsAreInFlight` |
| `delegations` | 2 calls at a time, width 1, 2 remote agents with 2 task ids, 3 policy directories, 3 requests, 1 fault | 662 000 | `WidthIsBounded`, `FreedOnlyWhenOver`, `ForwardedIsApproved`, `WidthIsRegained` |
| `memory` | 2 processes, 2 records, 2 tenants, 4 caller directories, 6 requests, 1 fault | 246 000 | `ActiveIsEarned`, `WrittenForItsTenant`, `SupersededNamesItsHeir`, `RevokedIsFinalWhenQuiet` |

In a sentence each, what those show that do not speak for themselves:

* `NoAppendConflicts`: the position an append computed is free when it reaches the index.
  `SkippedOnlyIfConcluded`: a step that a loop is over with has landed or was refused, unless the gateway
  refused a step of the same id in another sub-run; that exception is the code's (section 4).
* `OvershootIsBounded` (graph): branches side by side cross a budget, by one call for each gated tool and
  one for each activity but the first, and no more; in the run they do cross both. `PausedRunDrains`: from
  pause to resume nothing gets past the gate, neither a node that was waiting there when resume and a new
  pause came together, nor the next child of a loop or a sequence, which must pass a gate of its own; what
  is past it makes its one call. `PendingIsAwaited`: where nothing runs side by side, what an approver is
  shown is what a node waits for. `RunEndsOrIsHeld`: a run ends, or comes to rest waiting for resume,
  for a decision nobody has sent, or for another team's worker; no decision that was sent is lost on it.

* `OvershootIsBounded` (ledger): calls admitted together overshoot together, by less than one dearest
  call for each concurrent request, and no more. It is about runs that were charged for a call and have a
  ceiling in dollars that could be read; a dearest call is every candidate of a request answering its
  dearest usage. `EveryAnswerIsRecorded`: whatever came back to a call
  has its row when the call is answered, what was thrown away included. `ReconcileFindsOnlyGaps`: held
  against the providers' own accounts, the ledger lacks what nobody reported and never contradicts.
  `RestrictedStaysInside`, `NeverSpliced`: neither failures nor a long cascade widen the pool or put two
  models' words into one stream.
* `LifecycleIsWellFormed`, `LastEndIsComplete`: a consumer that only reads events always knows what is
  open, and the last end of a call has all of its arguments although fragments interleave.
* `TripIsApplied`: a tripped breaker is never alone; it is why Unquarantine clears the registry before
  it resets the breaker. `OnlyGatedIsReleased`: the race of two transitions may move a version backward (section 4), and still
  never releases one that no gate let pass. `LateStartsAreInFlight`: what starts after a quarantine is
  at most what was past the check.
* `WidthIsBounded` with several gateways; `FreedOnlyWhenOver`: the width of a task that goes on is given
  back in two ways only, after a transport failure, when the proxy knows of no task, and by the end of a
  task of the same id at another agent (section 4), and never because of what the task's own agent says;
  `WidthIsRegained`: rows that nobody closes stop counting; `ForwardedIsApproved`: the strictest
  of several determining policies wins, checked against the files and not against the engine's sets.
* `ActiveIsEarned`, `WrittenForItsTenant`: gates and tenants hold in every interleaving;
  `RevokedIsFinalWhenQuiet`: only a request that read the record before a revocation can undo it;
  `SupersededNamesItsHeir`: a record superseded by nothing is between the two statements of its Supersede,
  or is one of those whose own second statement failed (`severed`); no fault elsewhere makes one.

`MCModelGateway` also evaluates the assumption `AccountsAdd`: for every provider and every account it
may give of up to two tokens each way, the adapter hands on no more than the prompt, and the whole of it,
cached part included, or nothing, unless an OpenAI-compatible server left one part of it out
(`UsageIsTheWhole`, `MissesAPart`); the theorem `AdaptersReportTheWhole` says it for every number of tokens.
The assumption `APartIsHandedOn` is that the exception does occur (section 4, `NeverAPart`).

**Bounds.** Three calls are what the Tool Gateway's races need: one that failed, one that re-claims,
one that competes with it; a fourth adds no new pair of statements, and the theorems cover every
number. One key suffices because rows share nothing; calls without a key are in the same run. Three
appends give a duplicate, a divergence and a third party between them; in `journalled_run` they are an
intent, a denial and a result, of two sub-runs that share a step id. Two iterations and two
approvers give a decision left over from an earlier approval. `MaximumAttempts` is 3 for the code's 5.
In the newer models two requests are under way at a time, because every race of that code is between
the two statements of one request and those of another; `MaxArrivals` and `MaxRequests` bound how many
arrive altogether: two calls whose spend adds to a past one, five requests for report, report, trip,
lift and start, six for the whole pipeline of one record and a rival, three for a delegation, its
rival at another agent and a poll; two task ids at two agents give ids that coincide and ids that do not. `MaxFaults` is one: a failed statement, a lost answer or a crash anywhere.
`MaxMemories` is two (a record and its heir), `MaxAge` one half-life, `MaxChunks` four: open, switch,
switch back, end. `WindowSize` and `MinSamples` are two, so that a window slides within five requests.
Symmetry is used for safety only, where calls, processes, arguments, appends, runs, sub-runs and
payloads are interchangeable.

**Deadlock** is switched off where all requests may have been served and nothing is left to happen.

**Fairness.** `ToolStep`: Temporal delivers what it scheduled and enforces its timeouts, and a live
gateway goes on with its requests; nothing is assumed about faults, and an answer need never reach
its attempt. `GraphRun`: the worker goes on with ready code and checks its conditions; the activities of
Aeon's own worker end (policy, wait records, tools), because each has a timeout and a bounded number of
attempts; a TTL runs out where there is one. The last two, and the check of conditions, are strong fairness
because other events may disable the step again and again while the worker takes them. Nothing is assumed
of operators (a paused run need not be resumed), of approvers, of cancellation and the deadline, nor of
another team's worker: an activity node runs on a queue of its own choice, which may have no worker, and
has no schedule-to-start timeout. `RunEndsOrIsHeld` names these as what may hold a run. `Delegations`: time passes (`GoStale`), and nothing else: no request need go on and no remote
agent need answer for the width to come back.

Every property of a passing run has a mutant in `PROJECT.json`: a plausible bug of a modelled
definition under which TLC finds the property violated on the same instance. The modules define a few
properties that no run lists: each module's `TypeOK`; `CompletedIsFinal`, `LockIsHeld`,
`AppendOnly`, `RepeatedOnlyAfterError`, `ConfirmedStepNotRepeated`, `ReportedPerStep`, `Structured`,
`LeasesEndWithTheirCall` and `RelayedIsSo`, which are proved.

## 4. Where code and text disagree

One run expects a violation. `diverged_key` (`InFlightIsHeld`): *"another caller holds this
idempotency key and has not finished"* (`store/tool_executions.go:20`). No fault is needed: an
execution fails and releases its key; a call with other arguments re-claims it, because `Claim`
compares arguments and re-claims anyway; the handler answers 409 for the diverged arguments and
returns. The row is `in_flight` and nobody executes.

The others are reproduced by hand. Where a configuration is named it contains the property; for the
rest, put the property in place of the properties of the module's configuration (and leave out
`SYMMETRY`).

| Property | Configuration | What TLC finds, against which sentence |
|---|---|---|
| `SkippedByItsOwnRecord` | `MCJournalledRunDelegation` | a sub-run's denied step is journalled as the root's: *"a resume would skip work that never ran"* (`checkpoint/checkpoint.go:63`) |
| `DecisionIsThere` | `MCGraphRunDecision` | two waiters, one decision: *"wait_condition only returns once this is set"* (`graph_run.py:250`) |
| `ToolBudgetHolds` | `MCGraphRunTools` | read before the approval, counted after it: *"this guarantees the executed count never exceeds max_tool_calls"* (`graph.py:265`) |
| `OvershootIsOneCall` | of `MCModelGateway` | two calls admitted together: *"the overshoot is bounded by one call's cost"* (`model_gateway_handlers.go:558`) |
| `ChargedOnce` | of `MCModelGateway` | a discarded or streamed replay is charged: *"recording them again inflates the ledger"* (`model_gateway_handlers.go:203`) |
| `EveryAnswerIsRecorded` without `ServedByReplay` | of `MCModelGateway` | a call that a replay serves forgets the attempts it paid for before (`model_gateway_handlers.go:264`, against 311) |
| `ThrottledMeansAll` | of `MCModelGateway` | a skipped candidate is not counted: *"EVERY candidate"* (`model_gateway_handlers.go:384`) |
| `HeaderIsCorrected` | of `MCModelGateway` | `X-Aeon-Streamed: false` stays when the next candidate streams: *"the last StreamStart before that write is the one the client sees"* (`modelgateway/streaming.go:51`) |
| `TruncatedReachesCaller` | of `MCModelGateway` | `max_tokens` and `MAX_TOKENS` are not `length`: *"a truncated response is informative, so it must reach the caller"* (`modelgateway/gateway.go:307`) |
| `NeverAPart` | a constant formula: `APartIsHandedOn` of `MCModelGateway` is its negation | `prompt_n` without `cache_n`, or the reverse, is handed on as the whole prompt (`openai_compatible.go:209`, `streaming.go:369`): *"would invent a number smaller than the truth and hand it over as the whole figure"* (`anthropic.go:211`) |
| `ParsedOnce` | of `MCStreamAdapter` | interleaved fragments end a call more than once: *"One parse per call"* (`providers/streaming.go:43`) |
| `MovesForward` | of `MCAgentLifecycle` | two racing transitions: *"moving backward ... returns ErrInvalidTransition"* (`store/agent_registry.go:142`) |
| `KillSwitchCutsLeases` | of `MCAgentLifecycle` | the control plane attaches no broker (`cmd/aeon-controlplane/main.go:94`), and with `BrokerAttached = TRUE` a failed trailing read or a restart still comes before the revocation (`circuit_breaker_handlers.go:147`): *"covers a credential handed to a remote agent"* (`a2a_egress_handlers.go:30`) |
| `CompletedMeansFinished` | of `MCDelegations` | a transport failure closes the row of a task that works (`a2a_egress_handlers.go:219`), and so does the end of a namesake at another agent, because CloseByTaskID does not compare the agent (`a2a_delegations.go:217`): *"`completed_at` here means "the remote task finished""* (`a2a_delegations.go:167`) |
| `FinishedIsFreed` | of `MCDelegations` | a second message to one task opens a second row, and its end closes one of them (`a2a_delegations.go:203`) |
| `RevokedStaysRevoked` | `MCMemoryRevoked` | a promotion that read before a revocation writes after it: *"moving backward ... is rejected"* (`memory_pipeline.go:11`) |
| `EveryUseCounts` | of `MCMemory` | of two uses reported at once one is lost: *"every time a memory is actually used"* (`memory_forgetting.go:22`) |
| `NoSilentPruning` | of `MCMemory` | a Prune that fails half way returns no list: *"no silent pruning"* (`memory_forgetting.go:99`) |

Six more are kept for reference; TLC finds each violated (the first with the constants of
`MCToolGateway.cfg`, the others with the configuration named), and each is a weaker disagreement or a
choice the code may well mean:

* `UnprotectedRunsAgain` of `ToolGateway`: the 200 that warns *"a retry with this key would
  execute again"* leaves the key in flight, so that a retry is refused instead.
* `MCJournalledRunReload` (`DeniedMeansNoEffect`): the policy is asked before the key is looked up; a
  retry of a call whose effect happened, after the bundle changed, is journalled as denied.
* `MCGraphRunActivities` (`ActivityBudgetHolds`): as for tools, with the policy call in between.
* `MCGraphRunDeadline` (`NoWorkPastDeadline`): the deadline is read at the head of a node only.
* `MCGraphRunCancel` (`CancelEndsRun`): a cancellation that meets the write of a wait record is
  caught by `except Exception` there and the run goes on.
* `MCGraphRunApproval` (`DecidedOnItsOwn`): the approval id of a decision is never compared, so that
  a decision about the previous iteration's approval can settle the next one's.

Two observations without a sentence against them. A Supersede whose second statement fails, or that names
the id of no record, leaves a record superseded by nothing, and a retry is refused, because the record is no
longer ACTIVE (`memory_forgetting.go:78`). And the breaker and the leases are keyed by name and version
alone while the registry is keyed by tenant as well, so two tenants that register one version share
its window, its verdict and its leases. `AgentLifecycle` models it so.

## 5. What is proved

Every theorem holds for arbitrary sets of calls, keys, runs, graphs, bundles and so on. The shape is the
usual one: an invariant, `Init => Inv`, preservation by each action, and the properties from it. What is
not inductive as it stands, and why, is the content of each proof; the names below are the conjuncts that
had to be added.

**ToolGatewayProofs.** `KeyHeldOnce` is not inductive alone: a request between two statements of
`Claim` acts on what it has read. `IInv` adds that a request past the front door has a key where it
needs one (`Located`), that a key without a row has had no effect (`AbsentIsNew`), that who is about
to run has not run (`NotRunYet`), that who is about to replay holds what the row still says
(`ReplayIsCurrent`), that open requests are unanswered (`Unanswered`), and that an answer with a
result means a row that is completed with that result, or is in flight with no holder
(`AnsweredIsSettled`). The last is the heart: an `unprotected` answer leaves the key in flight for
good, which is why even unconditional UPDATEs never touch a completed row. From it:
`OneExecutorPerKey`, `EffectsAreCounted`, `OneResultPerKey`, `CompletedRowsAreFinal`,
`ConfirmedWritesAreNotRepeated`, `TypeCorrect`. `ServedByArguments` adds that a row keeps the arguments it
was inserted with and its holder has the same (`ArgumentsKept`), `AuditTrailIsConsistent` that a request
is in the log once it is past the one statement that writes there (`AuditTrail`).
`GatewayKeepsPromise` is the refinement of `IdempotentExecution`: a claim that wins is its `Take`, a
settled execution `Finish` or `GiveBack`, a replay `Serve`, and every other step, faults included, a
stutter. The mapping sends an in-flight row whose caller was answered `unprotected` to the phase `lost`;
`AnsweredIsSettled` makes that caller the only one.
For `ToolStep`, `StepUsesTheGateway` shows that Temporal's attempts only drive the gateway, so that its
theorems hold in the composition. `SucceededStepsLanded`, `ConfirmedStepsAreNotRepeated` and
`RepeatsWereAnnounced` follow from what each attempt knows of the answer it took (`Attempts`) and from
every result standing for an effect (`Backed`).

**JournalledRunProofs.** For the journal: the lock makes what a transaction has read current until it ends
(`ReadIsCurrent`): no row with its key is there when it found none, the row it found is still there,
and what it inserted is at the next position. A row computed in a snapshot is still
at the next position when it reaches the index, because nobody else of its run is past the lock. With
`SeqIsDense` and the fact that a non-empty set of a run's rows has a last position (`HasLast`), it meets no clash, a commit keeps the positions
dense, and a loaded view stays a prefix because later rows come after it (`ViewIsOld`). From it:
`AppendsAreSerialised`, `AppendsDoNotConflict`, `PositionsAreDense`, `AcknowledgedRowsAreDurable`,
`LoadedStatesArePrefixes`, `JournalIsAppendOnly`, `TypeCorrect`.
For a run: it is a use of the journal (`RunUsesTheJournal`), so all of the above holds
in it. `RunInv` adds that every entry, under way or committed, says what has happened (`TellsTheTruth`),
and that a loop past an intent has it in the journal (`KnowsWhere`, from the durability of what was
acknowledged). From it `EffectsAreNotForgotten`, `ResultsMeanEffects` and `SkippedStepsAreConcluded`.
`LoneRunsSkipTheirOwn` and `CrashesAreTold` have the hypothesis `SubRuns = {Root}`, a run that delegates
nothing: with sub-runs they are false, because a denial is filed under the root (section 4).

**GraphRunProofs.** `Structured`: a node is at work only while its parent awaits it; it needs the stations
each kind of node can be at (`Stations`) and that a document's nodes have one parent. `PausedRunsOnlyDrain`
goes through every step that moves a node, its parent's and the wakers' included. For `GatesAreNotSkipped`, every decision and every grant goes back to an
approval that was sent (`ApprovalInv`), and the loop around a waiting node does not move, so that what was
approved is what is done (`HashStays`). For `BudgetsAreCrossedByFew`, the calls between check and count are
counted together with what is consumed (`ToolsLeaveRoom`, `ActivitiesLeaveRoom`).
Four theorems have the hypothesis `InLine`: no node starts two children at once. Then the running nodes
below the root have each a parent that awaits it and no other, so they are no more than the nodes that wait
for children, and of all that run one at most is at work (`OneNodeAtATime`; a count, so no induction over
the graph is needed). From it `OneSlotIsEnough`, `WokenNodesFindADecision` and `BudgetsHoldInLine`: the
sentences of section 4 about `DecisionIsThere`, `ToolBudgetHolds` and `ActivityBudgetHolds` are right for
such graphs, and the disagreement is exactly about branches side by side.

**ModelGatewayProofs.** The invariant is a predicate of one call, the providers' records and the ledger
(`CallTrue`): its candidates left are as much inside as those tried (`Inside`), what was sent is one
model's (`Single`), each attempt is a request at a provider and reports that request's usage or less
(`Accounted`), what is owed is in the ledger or among the rows left to write (`Owed`), and its next
request has a number nobody used (`Numbered`). Calls that do not move keep it because records and ledger
only grow (`CallTrueGrows`). From it `StreamsAreNotSpliced`, `RestrictedDataStaysInside`,
`AnswersAreRecorded`, `ReconciliationFindsOnlyGaps`, `TypeCorrect`. `AdaptersReportTheWhole` is about the
adapters alone, case by case over the shapes of an answer.
`OvershootStaysBounded` needs what a run spends, a sum over its rows. A sum of naturals over a finite set is
shown to be the cardinality of the area under it (`SumOf`), which the library's theorems on finite sets
reach without induction over data; `FoldIsSum` identifies it with the fold of `MapThenSumSet`. `CostInv`
bounds, for a run, what is recorded together with what its calls under way can still be charged
(`Pending`): for a call its discarded answers and the dearest answer of each candidate left, then the
rows it has yet to write (`Bill`), never more than `DearestCall`. A call that is admitted found the run
below its ceiling; every later step moves cost from `Pending` to the ledger or drops it. With one call at a time the
bound is the one the comment claims (`SerialOvershootIsOneCall`).

**StreamAdapterProofs.** The flags of `streamPhases` agree with what the events handed over say is open, in
the middle of a chunk too (`Tracks`), so that each event is emitted where it fits (`AllPlaced`); the
arguments gathered for a call are as many as the fragments shown, and a call that is not open was last
ended with all of them (`Counts`). A cut leaves a prefix, which is well formed as well. From it
`StreamsAreWellFormed`, `NoFragmentIsLost`, `TypeCorrect`.

**AgentLifecycleProofs.** `GatesAreNotWalkedAround`: who is about to write has read a row the gate had let
pass (`GatedBeforeWritten`), and `gated` never shrinks. `VerdictsReachTheRegistry`: a breaker opens together
with the request that will write the quarantine, and Unquarantine clears the registry first.
`CredentialsEndWithTheirCall`: every lease with an owner is that of a delegation still under way; it holds
with and without a broker at the kill switch, and where none is attached it is all that ends a quarantined
version's credentials. `LateStartsAreBounded` counts what has started together with what is past the check
(`StartsBounded`). `SerialTransitionsMoveForward` is about behaviours in which no two transitions of one
agent overlap (`NoOverlap`): then `MovesForward` of section 4 holds, with every other race still allowed.

**DelegationsProofs.** `OnlyTheEndFreesWidth` (`FreedOnlyWhenOver` with its two exceptions, and `RelayedIsSo`):
a call has the row it opened to itself until it records (`OwnsItsRow`), a row that names a task is one under
which a task of that id was begun (`BegunByItsRow`), what an answer says of a task is so at the agent that
was asked (`TellsTheTruth`), ends are final. `WidthHolds`: who is
about to insert holds the run's lock and has found room (`FoundRoom`), and no step but an insert takes width
(`WidthIsOnlyInserted`). `OnlyApprovedIsForwarded`: a call that is served was permitted by the directory
still loaded (`PolicyInv`); of a bundle that loads, no policy has replaced another (`NothingIsLost`, from
the refusal of repeated ids), and the strictest of the declared dispositions exists and wins
(`StrictestIs`).

**MemoryProofs.** A record has been through the gates of its status (`PassedItsGates`) although the write
is by id alone, because the request about to write was judged by a status whose gates the record had
passed, and gates passed stay passed (`JudgedByItsGates`). From it `ActiveRecordsAreEarned`,
`RecordsAreWrittenForTheirTenant`, `SupersededRecordsNameTheirHeir` (with `OnlyPruneLoops`: only a Prune goes on to another record) and
`RevocationIsFinalWhenQuiet`. With one request at a time what was read is still so when it is written
(`ReadIsCurrent`), and `RevokedStaysRevoked` and `EveryUseCounts` of section 4 hold
(`SerialRevocationIsFinal`, `SerialUsesCount`).

**Assumptions.** Only the `ASSUME`s of the modules, which TLC evaluates on every run. They say that null
values are no values (`NoKey`, `NoResult`, `NoOwner`, `Nobody`, `None`, `NoRun`, `Nothing`); that bounds, widths,
budgets, scores and token counts are numbers; that requests, past rows and bundles have the fields the code decodes
(`BundleAssumption`: profiles as `bundle.go` declares them, priorities not negative as the schema has it;
`DirsAssumption`: bundles are lists); that `LockOf` maps runs to numbers, with any collisions; that a graph is a
finite nested document (`GraphAssumption`, `NodesAssumption`); that processes are finitely many where they
are counted (`ProcsAssumption`); that null is no task id (`TaskIdsAssumption`); that calls, requests, usages and past rows are finitely many and budgets
are integers where spend is added up (`FiniteAssumption`, `BudgetsAssumption`).

**Only model-checked.** Liveness (`KeySettles`, `StepEnds`, `RunEndsOrIsHeld`, `WidthIsRegained`): the prover has no
fairness or ENABLED. Every invariant and action property that a passing run checks is stated by a theorem.
That a property of section 4 fails is TLC's to show. The listing of Prune is a filtered sequence, and what a
filter keeps is induction over data: the theorems about memory hold for whatever it lists. No module
declares a RECURSIVE operator.

## 6. What is not modelled

Formatting, tracing, HTTP and JSON; token parsing and hashing; Cedar's evaluation (which requests a
policy matches is data, and the Tool Gateway's verdict is any of the four); malformed graphs, which
raise `GraphError` at their node; the values of results (a condition matches or does not); the
`local-ledger` mode of the activity, which executes nothing; workflow histories older than the wait
records; the tools themselves; embeddings and model lists of the providers; the sanitising of a
conversation; manifests and their schema; agent cards and hop counts beyond their refusal; routes that
only read (summaries, listings, searches, traces), among them the retrieval and ranking of memories.
Parts left out, with the reason, are in `PROJECT.json`.

## 7. Plan

1. *Done:* gateway, activity, journal, loop, graph run; proofs for the gateway and the journal.
2. *Done:* model gateway with ledger, adapters and stream; registry, breaker, broker; delegations with
   the policy engine; memory with tenancy.
3. *Done:* proofs of every safety property a passing run checks; the refinement of `IdempotentExecution`;
   the compositions `ToolStep` and `JournalledRun` over what they use; for the disagreements of section 4
   that come from concurrency, the condition under which the sentence is right. Still worth proving: the
   budgets of `GraphRun` with a bound that counts only the nodes that can be at work together; the memory
   theorems with requests serialised per record instead of altogether.
4. Candidates for later modules: the context budgeter and compaction as operators against a reference,
   and the A2A server's executor over the run controller.

## 8. Running it

    tlc -workers 2 -config MCToolGateway.cfg MCToolGateway
    tlapm ToolGatewayProofs.tla

Each run takes about two minutes or less on two cores; each proof module about three minutes or less.
