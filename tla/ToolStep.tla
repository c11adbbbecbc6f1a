------------------------------ MODULE ToolStep ------------------------------
(***************************************************************************)
(* A tool step of a run, end to end: the workflow schedules                *)
(* execute_tool_activity (python/aeon_worker/graph.py), Temporal delivers  *)
(* its attempts, each attempt posts to the Tool Gateway and maps the       *)
(* answer onto Temporal's retry semantics (python/aeon_worker/activities/  *)
(* tool_activities.py).  An attempt that times out does not stop: its      *)
(* request goes on at the gateway, next to the attempts that follow it.    *)
(***************************************************************************)
EXTENDS ToolGateway

CONSTANTS
    StepKey,        \* the key derived from (run_id, node_id, step_seq, args)
    StepArgs,       \* the arguments of the step
    MaximumAttempts \* RetryPolicy(maximum_attempts=5) in the code

ASSUME StepAssumption == StepKey \in Keys /\ StepArgs \in Args
ASSUME AttemptsAssumption == MaximumAttempts \in Nat \ {0}

VARIABLES
    step,      \* "scheduled", "attempting", "succeeded" or "failed"
    attempts,  \* how many attempts have been delivered
    current,   \* the call of the attempt Temporal is waiting for
    result     \* the result the workflow was handed

worker == <<step, attempts, current, result>>
stepVars == <<vars, worker>>

StepInit ==
    /\ Init
    /\ step = "scheduled"
    /\ attempts = 0
    /\ current = NoResult
    /\ result = NoResult

\* Delivers an attempt: execute_tool derives the same key from the same inputs.
\* The request names no run and no step, so a denial of it is not journalled.
Attempt(c) ==
    /\ step = "scheduled"
    /\ step' = "attempting"
    /\ attempts' = attempts + 1
    /\ current' = c
    /\ \E d \in Dispositions : Arrive(c, StepKey, StepArgs, d, FALSE)
    /\ UNCHANGED result

\* Mutant of Retry: the step keeps waiting for the attempt that failed.
RetryNever ==
    /\ current' = NoResult
    /\ UNCHANGED <<step, attempts, result>>

\* A retryable failure of an attempt: Temporal delivers another one, or gives up.
Retry ==
    /\ step' = IF attempts < MaximumAttempts THEN "scheduled" ELSE "failed"
    /\ current' = NoResult
    /\ UNCHANGED <<attempts, result>>

\* Mutant of Succeeds: the 409 of an execution in flight counts as done.
SucceedsInFlight(c) ==
    /\ resp[c].kind \in {"ok", "replayed", "unprotected", "in_flight"}
    /\ step' = "succeeded"
    /\ result' = resp[c].result
    /\ current' = NoResult
    /\ UNCHANGED attempts

Succeeds(c) ==
    /\ resp[c].kind \in {"ok", "replayed", "unprotected"}
    /\ step' = "succeeded"
    /\ result' = resp[c].result
    /\ current' = NoResult
    /\ UNCHANGED attempts

\* 403, and 409 without retryable:true, are raised non-retryable.
Refused(c) ==
    /\ resp[c].kind \in {"denied", "refused", "diverged"}
    /\ step' = "failed"
    /\ current' = NoResult
    /\ UNCHANGED <<attempts, result>>

\* A 409 in flight, any other status (a 400 or 401 at the front door included)
\* and a connection that died are retried.
Retryable(c) ==
    \/ pc[c] = "done" /\ resp[c].kind \in {"in_flight", "store_error", "tool_error", "unreleased",
                                         "refused"}
    \/ pc[c] = "dead"

\* The answer reaches the attempt that is waiting for it; a late one is dropped.
Receive(c) ==
    /\ step = "attempting" /\ current = c
    /\ \/ pc[c] = "done" /\ (Succeeds(c) \/ Refused(c))
       \/ Retryable(c) /\ Retry
    /\ UNCHANGED vars

\* start_to_close_timeout, or the worker process dying: the request goes on.
TimesOut ==
    /\ step = "attempting"
    /\ Retry
    /\ UNCHANGED vars

StepDone ==
    /\ step \in {"succeeded", "failed"}
    /\ \A c \in Calls : pc[c] \in {"idle", "done", "dead"}
    /\ UNCHANGED stepVars

StepNext ==
    \/ \E c \in Calls : Attempt(c) \/ Receive(c)
    \/ \E c \in Calls : (Step(c) \/ Fault(c)) /\ UNCHANGED worker
    \/ TimesOut
    \/ StepDone

\* Temporal delivers what it scheduled and enforces its timeouts, and a live
\* gateway goes on with its requests.  Nothing says that a request ends before
\* its attempt times out.
StepSpec ==
    /\ StepInit /\ [][StepNext]_stepVars
    /\ WF_stepVars(\E c \in Calls : Attempt(c))
    /\ WF_stepVars(TimesOut)
    /\ \A c \in Calls : WF_stepVars(Step(c) /\ UNCHANGED worker)

-----------------------------------------------------------------------------
(* Properties. *)

\* A step that succeeded has its effect: whatever the attempts went through, the
\* workflow is never handed a result without an execution behind it.
SucceededLanded == step = "succeeded" => effects[StepKey] >= 1 /\ outcome[result] = "ok"

\* Spec section 9 (docs/adr/0001): an already-confirmed write is not repeated,
\* also not by the attempts that timed out and are still running.
ConfirmedStepNotRepeated ==
    [][step = "succeeded" => effects'[StepKey] = effects[StepKey]]_stepVars

\* An effect that landed more than once was announced: some attempt of it ended
\* in a tool error.
RepeatedOnlyAfterError ==
    effects[StepKey] >= 2 => \E c \in Calls : outcome[c] = "error"

\* A key does not stay in flight: every execution is completed or released, unless
\* its process died or the store failed in one of its statements.
KeySettles ==
    row[StepKey].state = "in_flight"
    ~> \/ row[StepKey].state # "in_flight"
       \/ \E c \in Calls : \/ pc[c] = "dead"
                          \/ resp[c].kind \in {"store_error", "unprotected", "unreleased"}

\* Every step ends, whatever fails.
StepEnds == <>(step \in {"succeeded", "failed"})
=============================================================================
