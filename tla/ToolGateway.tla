---------------------------- MODULE ToolGateway ----------------------------
(***************************************************************************)
(* The Tool Gateway's POST /execute (go/internal/api/                      *)
(* tool_gateway_handlers.go) with the executor it calls                    *)
(* (go/internal/toolexec/executor.go), one step per statement that another *)
(* request, a database failure or a crash of the process can come between. *)
(*                                                                         *)
(* A call is one HTTP request.  Requests run concurrently, on one gateway  *)
(* or on several: they share only the tool_executions rows, the audit log  *)
(* of invocations and the run journals.  A key stands for the pair         *)
(* (tenant, idempotency key) that is the table's primary key.              *)
(***************************************************************************)
EXTENDS ToolExecutions, FiniteSets

CONSTANTS
    Calls,     \* the requests that reach the gateway
    Keys,      \* (tenant, idempotency key) pairs
    NoKey      \* a request without an idempotency key

ASSUME NoKeyAssumption == NoKey \notin Keys
\* The result of a tool is identified with the call that produced it.
ASSUME ResultsAssumption == Results = Calls

VARIABLES
    row,       \* row[k]: the tool_executions row of key k
    pc,        \* pc[c]: where the handler of call c stands
    req,       \* req[c]: what the request asked for
    claim,     \* claim[c]: the ClaimResult the handler holds
    outcome,   \* outcome[c]: how the tool ended when c ran it
    resp,      \* resp[c]: the answer
    log,       \* the invocations recorded, as <<call, outcome>> pairs
    journal,   \* the calls whose denial is in the run's journal
    effects    \* effects[k]: how many times key k's effect has landed

vars == <<row, pc, req, claim, outcome, resp, log, journal, effects>>

\* What the policy said of a request.  "refused" stands for the refusals that
\* come before the policy is asked: no caller, an agent the caller may not act
\* as, a tenant it may not name, a tenant without a bundle.
Dispositions == {"allow", "require_approval", "deny_step", "terminate_run", "refused"}

NoRequest == [key |-> NoKey, args |-> NoArgs, disposition |-> "refused"]
Requests == [key : Keys \cup {NoKey}, args : Args \cup {NoArgs}, disposition : Dispositions]

NoClaim == [diverged |-> FALSE, completed |-> NoResult]
Claims == [diverged : BOOLEAN, completed : Results \cup {NoResult}]

\* "ok" and "replayed" carry a result; "unprotected" is the 200 with a warning.
\* "unreleased" reads like "tool_error" to the caller: the handler has logged that
\* the key could not be released.
ResponseKinds == {"none", "ok", "replayed", "unprotected", "diverged", "in_flight",
                  "store_error", "tool_error", "unreleased", "denied", "refused"}
Responses == [kind : ResponseKinds, result : Results \cup {NoResult}]
NoResponse == [kind |-> "none", result |-> NoResult]

Locations == {"idle", "insert", "select", "reclaim", "run", "record", "settle",
              "replay", "journal", "refusal", "done", "dead"}

Init ==
    /\ row = [k \in Keys |-> AbsentRow]
    /\ pc = [c \in Calls |-> "idle"]
    /\ req = [c \in Calls |-> NoRequest]
    /\ claim = [c \in Calls |-> NoClaim]
    /\ outcome = [c \in Calls |-> "none"]
    /\ resp = [c \in Calls |-> NoResponse]
    /\ log = {}
    /\ journal = {}
    /\ effects = [k \in Keys |-> 0]

-----------------------------------------------------------------------------
Goto(c, from, to) ==
    /\ pc[c] = from
    /\ pc' = [pc EXCEPT ![c] = to]

Answer(c, kind, v) == resp' = [resp EXCEPT ![c] = [kind |-> kind, result |-> v]]

SetRow(c, r) == row' = [row EXCEPT ![req[c].key] = r]

RowOf(c) == row[req[c].key]

-----------------------------------------------------------------------------
(* The front door: authentication, tenant, policy. *)

\* dispositionOutcome: a step waiting for approval is not denied, so nothing
\* is journalled for it.
IsDenial(d) == d \in {"deny_step", "terminate_run"}

\* Mutant of Arrive: a step that waits for approval goes ahead.
ArriveUnapproved(c, k, a, d, inRun) ==
    /\ req' = [req EXCEPT ![c] = [key |-> k, args |-> a, disposition |-> d]]
    /\ Goto(c, "idle", IF k = NoKey THEN "run" ELSE "insert")
    /\ d \in {"allow", "require_approval"}
    /\ UNCHANGED <<row, claim, outcome, resp, log, journal, effects>>

\* Only a request that names its run and step has a journal to be denied in.
Arrive(c, k, a, d, inRun) ==
    /\ req' = [req EXCEPT ![c] = [key |-> k, args |-> a, disposition |-> d]]
    /\ \/ /\ d = "refused"
          /\ Goto(c, "idle", "done")
          /\ Answer(c, "refused", NoResult)
       \/ /\ d = "allow"
          /\ Goto(c, "idle", IF k = NoKey THEN "run" ELSE "insert")
          /\ UNCHANGED resp
       \/ /\ d \notin {"allow", "refused"}
          /\ Goto(c, "idle", IF IsDenial(d) /\ inRun THEN "journal" ELSE "refusal")
          /\ UNCHANGED resp
    /\ UNCHANGED <<row, claim, outcome, log, journal, effects>>

\* journalDenial never fails the request: landed or not, the refusal goes on.
JournalDenial(c) ==
    /\ Goto(c, "journal", "refusal")
    /\ journal' \in {journal, journal \cup {c}}
    /\ UNCHANGED <<row, req, claim, outcome, resp, log, effects>>

RecordRefusal(c) ==
    /\ Goto(c, "refusal", "done")
    /\ log' \in {log, log \cup {<<c, "denied">>}}
    /\ Answer(c, "denied", NoResult)
    /\ UNCHANGED <<row, req, claim, outcome, journal, effects>>

-----------------------------------------------------------------------------
(* executeDeduplicated: Claim, one statement at a time. *)

ClaimInsert(c) ==
    /\ \/ /\ Goto(c, "insert", "run")
          /\ Inserts(RowOf(c))
          /\ SetRow(c, Inserted(RowOf(c), req[c].args))
       \/ /\ Goto(c, "insert", "select")
          /\ ~Inserts(RowOf(c))
          /\ UNCHANGED row
    /\ UNCHANGED <<req, claim, outcome, resp, log, journal, effects>>

\* The handler looks at ArgsDiverged before it looks at the error or at the claim.
Conflict(c, diverged) == Answer(c, IF diverged THEN "diverged" ELSE "in_flight", NoResult)

ClaimSelect(c) ==
    LET r == RowOf(c)
        diverged == ~SameArgs(r, req[c].args)
    IN  /\ pc[c] = "select"
        /\ claim' = [claim EXCEPT ![c] = [diverged |-> diverged, completed |-> r.result]]
        /\ \/ /\ r.state = "completed" /\ ~diverged
              /\ Goto(c, "select", "replay")
              /\ UNCHANGED resp
           \/ /\ r.state = "released"
              /\ Goto(c, "select", "reclaim")
              /\ UNCHANGED resp
           \/ /\ r.state = "in_flight" \/ (r.state = "completed" /\ diverged)
              /\ Goto(c, "select", "done")
              /\ Conflict(c, diverged)
        /\ UNCHANGED <<row, req, outcome, log, journal, effects>>

\* A call whose arguments diverge re-claims the row like any other, and is then
\* answered 409 with the row in flight.
ClaimReclaim(c) ==
    /\ pc[c] = "reclaim"
    /\ IF Reclaims(RowOf(c)) THEN SetRow(c, Reclaimed(RowOf(c))) ELSE UNCHANGED row
    /\ \/ /\ Reclaims(RowOf(c)) /\ ~claim[c].diverged
          /\ Goto(c, "reclaim", "run")
          /\ UNCHANGED resp
       \/ /\ ~Reclaims(RowOf(c)) \/ claim[c].diverged
          /\ Goto(c, "reclaim", "done")
          /\ Conflict(c, claim[c].diverged)
    /\ UNCHANGED <<req, claim, outcome, log, journal, effects>>

Replay(c) ==
    /\ Goto(c, "replay", "done")
    /\ log' \in {log, log \cup {<<c, "replayed">>}}
    /\ Answer(c, "replayed", claim[c].completed)
    /\ UNCHANGED <<row, req, claim, outcome, journal, effects>>

-----------------------------------------------------------------------------
(* Executor.Execute, and what the handler does with its outcome. *)

Lands(c) ==
    IF req[c].key = NoKey THEN UNCHANGED effects
    ELSE effects' = [effects EXCEPT ![req[c].key] = @ + 1]

RunTool(c) ==
    /\ \/ /\ outcome' = [outcome EXCEPT ![c] = "ok"]
          /\ Lands(c)
          /\ Goto(c, "run", "record")
       \/ \* The tool failed, after its effect landed or before.
          /\ outcome' = [outcome EXCEPT ![c] = "error"]
          /\ Lands(c) \/ UNCHANGED effects
          /\ Goto(c, "run", "record")
       \/ \* Unknown tool: nothing ran and nothing is recorded.
          /\ outcome' = [outcome EXCEPT ![c] = "error"]
          /\ UNCHANGED effects
          /\ Goto(c, "run", "settle")
    /\ UNCHANGED <<row, req, claim, resp, log, journal>>

RecordInvocation(c) ==
    /\ Goto(c, "record", "settle")
    /\ log' \in {log, log \cup {<<c, outcome[c]>>}}
    /\ UNCHANGED <<row, req, claim, outcome, resp, journal, effects>>

\* Without a key there is nothing to settle: the answer is the tool's.
AnswerUnkeyed(c) ==
    /\ req[c].key = NoKey
    /\ Goto(c, "settle", "done")
    /\ IF outcome[c] = "ok" THEN Answer(c, "ok", c) ELSE Answer(c, "tool_error", NoResult)
    /\ UNCHANGED <<row, req, claim, outcome, log, journal, effects>>

Complete(c) ==
    /\ req[c].key # NoKey
    /\ outcome[c] = "ok"
    /\ Goto(c, "settle", "done")
    /\ SetRow(c, Completed(RowOf(c), c))
    /\ Answer(c, "ok", c)
    /\ UNCHANGED <<req, claim, outcome, log, journal, effects>>

\* Mutant of Release: a failed execution leaves its row alone.
ReleaseForgotten(c) ==
    /\ req[c].key # NoKey
    /\ outcome[c] = "error"
    /\ Goto(c, "settle", "done")
    /\ Answer(c, "tool_error", NoResult)
    /\ UNCHANGED <<row, req, claim, outcome, log, journal, effects>>

Release(c) ==
    /\ req[c].key # NoKey
    /\ outcome[c] = "error"
    /\ Goto(c, "settle", "done")
    /\ SetRow(c, Released(RowOf(c)))
    /\ Answer(c, "tool_error", NoResult)
    /\ UNCHANGED <<req, claim, outcome, log, journal, effects>>

-----------------------------------------------------------------------------
(* Faults.  A statement that reports an error was applied or was not: the  *)
(* request's context is cancelled when its client hangs up, and a lost     *)
(* connection hides the acknowledgement.                                   *)

\* Claim reports an error: the handler answers 500 and executes nothing.
ClaimFails(c) ==
    /\ pc[c] \in {"insert", "select", "reclaim"}
    /\ pc' = [pc EXCEPT ![c] = "done"]
    /\ \/ UNCHANGED row
       \/ /\ pc[c] = "insert" /\ Inserts(RowOf(c))
          /\ SetRow(c, Inserted(RowOf(c), req[c].args))
       \/ /\ pc[c] = "reclaim" /\ Reclaims(RowOf(c))
          /\ SetRow(c, Reclaimed(RowOf(c)))
    /\ Answer(c, "store_error", NoResult)
    /\ UNCHANGED <<req, claim, outcome, log, journal, effects>>

\* Mutant of CompleteFails: the key is released when the result cannot be recorded.
CompleteFailsReleasing(c) ==
    /\ req[c].key # NoKey
    /\ outcome[c] = "ok"
    /\ Goto(c, "settle", "done")
    /\ SetRow(c, Released(RowOf(c)))
    /\ Answer(c, "unprotected", c)
    /\ UNCHANGED <<req, claim, outcome, log, journal, effects>>

\* The result goes out with a warning that it is not recorded.
CompleteFails(c) ==
    /\ req[c].key # NoKey
    /\ outcome[c] = "ok"
    /\ Goto(c, "settle", "done")
    /\ UNCHANGED row \/ SetRow(c, Completed(RowOf(c), c))
    /\ Answer(c, "unprotected", c)
    /\ UNCHANGED <<req, claim, outcome, log, journal, effects>>

\* The failure to release is logged; the answer is the tool's error.
ReleaseFails(c) ==
    /\ req[c].key # NoKey
    /\ outcome[c] = "error"
    /\ Goto(c, "settle", "done")
    /\ UNCHANGED row \/ SetRow(c, Released(RowOf(c)))
    /\ Answer(c, "unreleased", NoResult)
    /\ UNCHANGED <<req, claim, outcome, log, journal, effects>>

\* The process serving c dies, in any of its steps.
Crash(c) ==
    /\ pc[c] \notin {"idle", "done", "dead"}
    /\ pc' = [pc EXCEPT ![c] = "dead"]
    /\ UNCHANGED <<row, req, claim, outcome, resp, log, journal, effects>>

-----------------------------------------------------------------------------
Arrival(c) ==
    \E k \in Keys \cup {NoKey}, a \in Args, d \in Dispositions, inRun \in BOOLEAN :
        Arrive(c, k, a, d, inRun)

Step(c) ==
    \/ JournalDenial(c) \/ RecordRefusal(c)
    \/ ClaimInsert(c) \/ ClaimSelect(c) \/ ClaimReclaim(c) \/ Replay(c)
    \/ RunTool(c) \/ RecordInvocation(c) \/ AnswerUnkeyed(c)
    \/ Complete(c) \/ Release(c)

Fault(c) == ClaimFails(c) \/ CompleteFails(c) \/ ReleaseFails(c) \/ Crash(c)

\* Every request is over: the model has no more calls to make.
Finished == (\A c \in Calls : pc[c] \in {"done", "dead"}) /\ UNCHANGED vars

Next == (\E c \in Calls : Arrival(c) \/ Step(c) \/ Fault(c)) \/ Finished

Spec == Init /\ [][Next]_vars

\* No database failure and no crash; the handlers of arrived requests go on.
ReliableNext == (\E c \in Calls : Arrival(c) \/ Step(c)) \/ Finished
ReliableSpec == Init /\ [][ReliableNext]_vars /\ \A c \in Calls : WF_vars(Step(c))
-----------------------------------------------------------------------------
(* Properties. *)

\* The key is c's: its handler is between winning the claim and settling it.
Holds(c, k) == pc[c] \in {"run", "record", "settle"} /\ req[c].key = k

GaveResult(c) == resp[c].kind \in {"ok", "replayed", "unprotected"}

\* Type correctness of the gateway's state.
TypeOK ==
    /\ row \in [Keys -> Row]
    /\ pc \in [Calls -> Locations]
    /\ req \in [Calls -> Requests]
    /\ claim \in [Calls -> Claims]
    /\ outcome \in [Calls -> {"none", "ok", "error"}]
    /\ resp \in [Calls -> Responses]
    /\ log \subseteq Calls \X {"ok", "error", "replayed", "denied"}
    /\ journal \subseteq Calls
    /\ effects \in [Keys -> Nat]

\* A key is held by one call at a time, and only while its row says in_flight:
\* the conditional INSERT and the conditional UPDATE of Claim admit one winner
\* although Complete and Release check nothing.
KeyHeldOnce ==
    \A k \in Keys, c \in Calls :
        Holds(c, k) => /\ row[k].state = "in_flight"
                       /\ \A d \in Calls : Holds(d, k) => d = c

\* Complete and Release are unconditional UPDATEs; still no step ever changes a
\* row once it is completed, so a recorded result is never lost or replaced.
CompletedIsFinal ==
    [][\A k \in Keys : row[k].state = "completed" => row'[k] = row[k]]_vars

\* failed_attempts accounts for every effect beyond the one the row stands for:
\* the next claimant that reads it is never told less than what happened.
EffectsCounted ==
    \A k \in Keys :
        effects[k] <= row[k].failed
                      + (IF row[k].state \in {"in_flight", "completed"} THEN 1 ELSE 0)

\* All callers that were given a result for one key were given the same one,
\* the caller warned that its result is not recorded included.
AnswersAgree ==
    \A c, d \in Calls :
        /\ GaveResult(c) /\ GaveResult(d)
        /\ req[c].key = req[d].key
        /\ req[c].key # NoKey
        => resp[c].result = resp[d].result

\* docs/adr/0001: a run "does not repeat an already-confirmed write".  Once any
\* caller of a key has been given a result, no step lands its effect again.
ConfirmedNotRepeated ==
    [][\A c \in Calls : GaveResult(c) /\ req[c].key # NoKey
            => effects'[req[c].key] = effects[req[c].key]]_vars

\* A result is served only to a call with the arguments that produced it
\* (ArgsDiverged: "it would return one call's result to another").
ServedOwnArguments ==
    \A c \in Calls : GaveResult(c) => req[resp[c].result].args = req[c].args

\* The audit log never contradicts the run: one row per call at most, "denied"
\* only for a call the policy refused, and that call never ran the tool.
AuditIsConsistent ==
    /\ \A e, f \in log : e[1] = f[1] => e = f
    /\ \A e \in log : e[2] = "denied" <=> req[e[1]].disposition # "allow"
    /\ \A c \in Calls : outcome[c] # "none" => req[c].disposition = "allow"

\* "ErrExecutionInFlight means another caller holds this idempotency key and
\* has not finished": a row in flight has a call that holds it.
InFlightIsHeld ==
    \A k \in Keys : row[k].state = "in_flight" => \E c \in Calls : Holds(c, k)

\* "executed, but the result could not be recorded: a retry with this key would
\* execute again": the next claim of the key is admitted.
UnprotectedRunsAgain ==
    \A c \in Calls : resp[c].kind = "unprotected" => Inserts(RowOf(c)) \/ Reclaims(RowOf(c))
-----------------------------------------------------------------------------
(* Refinement.  A key is lost once an execution of it succeeded and its    *)
(* Complete was not applied.                                               *)

LostOn(k) ==
    {c \in Calls : req[c].key = k /\ resp[c].kind = "unprotected" /\ row[k].state = "in_flight"}

AbstractPhase ==
    [k \in Keys |-> CASE row[k].state \in {"absent", "released"} -> "free"
                      [] row[k].state = "completed" -> "done"
                      [] row[k].state = "in_flight" /\ LostOn(k) # {} -> "lost"
                      [] OTHER -> "taken"]

AbstractValue ==
    [k \in Keys |-> IF row[k].state = "completed" THEN row[k].result
                    ELSE IF LostOn(k) # {} THEN CHOOSE c \in LostOn(k) : TRUE ELSE NoResult]

AbstractAnswer ==
    [k \in Keys |-> {resp[c].result : c \in {d \in Calls : req[d].key = k /\ GaveResult(d)}}]

Promise == INSTANCE IdempotentExecution
    WITH phase <- AbstractPhase, value <- AbstractValue, answer <- AbstractAnswer

\* The gateway implements the promise: each of its steps, the failed
\* statements and the crashes included, is a step of IdempotentExecution on
\* the rows and the answers, or leaves them alone.
KeepsPromise == Promise!Spec
=============================================================================
