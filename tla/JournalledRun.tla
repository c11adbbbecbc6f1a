--------------------------- MODULE JournalledRun ---------------------------
(***************************************************************************)
(* A run whose loop resumes from the journal: the agent loop on the far    *)
(* side of the durability seam, the Tool Gateway that answers its calls    *)
(* and records a refusal as a completed step, and the journal between      *)
(* them (module Checkpointer).                                             *)
(*                                                                         *)
(* The loop is not part of the repository.  It is modelled from what the   *)
(* seam is written for (go/internal/checkpoint/checkpoint.go): a caller    *)
(* under at-least-once execution that journals intent, calls the tool,     *)
(* journals the result, and after a crash asks the journal what is open.   *)
(***************************************************************************)
EXTENDS Checkpointer

CONSTANTS
    Run,          \* the run
    Root,         \* the sub_run_id '' of the root run
    PolicyReload  \* TRUE: a gateway may restart with another policy bundle

ASSUME RunAssumption == Run \in Runs /\ Root \in SubRuns
ASSUME PayloadsAssumption == Payloads = {"intent", "result", "denied"}

VARIABLES
    loop,      \* loop[s]: where the loop stands with step s
    using,     \* using[s]: the append the loop, or the gateway for it, waits for
    landed,    \* the steps whose effect has happened
    refused,   \* the steps a policy has refused
    policy     \* policy[s]: what the gateway's bundle says of step s

runVars == <<vars, loop, using, landed, refused, policy>>

\* Every sub-run numbers its own steps: a step is its sub-run and its step id.
RunSteps == SubRuns \X Steps

EntryFor(sub, step, phase, payload) ==
    [run |-> Run, sub |-> sub, step |-> step, phase |-> phase, payload |-> payload]

RunInit ==
    /\ Init
    /\ loop = [s \in RunSteps |-> "down"]
    /\ using = [s \in RunSteps |-> Nobody]
    /\ landed = {}
    /\ refused = {}
    /\ policy \in [RunSteps -> {"allow", "deny"}]

Moves(s, from, to) ==
    /\ loop[s] = from
    /\ loop' = [loop EXCEPT ![s] = to]

-----------------------------------------------------------------------------
(* The loop. *)

\* Completed: skip.  Attempted: the effect may have happened, so the same call
\* is repeated under its idempotency key.  Neither: the step begins.
Resume(s) ==
    LET records == {r \in RowsOf(table, Run) : r.sub = s[1]}
    IN  /\ \/ Moves(s, "down", "over") /\ StepCompleted(records, s[1], s[2])
           \/ Moves(s, "down", "call") /\ StepAttempted(records, s[1], s[2])
           \/ /\ Moves(s, "down", "intent")
              /\ ~StepCompleted(records, s[1], s[2]) /\ ~StepAttempted(records, s[1], s[2])
        /\ UNCHANGED <<vars, using, landed, refused, policy>>

\* The loop journals an entry of its own sub-run and waits for the answer.
Journal(s, from, to, phase, payload) ==
    \E a \in Appends :
        /\ Moves(s, from, to)
        /\ Begin(a, EntryFor(s[1], s[2], phase, payload))
        /\ using' = [using EXCEPT ![s] = a]
        /\ UNCHANGED <<landed, refused, policy>>

JournalIntent(s) == Journal(s, "intent", "intent_sent", "attempted", "intent")
JournalResult(s) == Journal(s, "result", "result_sent", "completed", "result")
\* The gateway said that its own record of the refusal is missing.
JournalRefusal(s) == Journal(s, "unrecorded", "result_sent", "completed", "denied")

\* A duplicate is a success like any other; an error is tried again.
Acknowledged(s, from, ok, error) ==
    /\ loop[s] = from
    /\ \/ answer[using[s]].kind = "ok" /\ Moves(s, from, ok)
       \/ answer[using[s]].kind \in {"conflict", "error"} /\ Moves(s, from, error)
    /\ UNCHANGED <<vars, using, landed, refused, policy>>

IntentAnswered(s) == Acknowledged(s, "intent_sent", "call", "down")
ResultAnswered(s) == Acknowledged(s, "result_sent", "over", "down")

\* The loop's process dies.  What it asked for goes on without it.
LoopCrash(s) ==
    /\ loop[s] \notin {"down", "over"}
    /\ loop' = [loop EXCEPT ![s] = "down"]
    /\ UNCHANGED <<vars, using, landed, refused, policy>>

-----------------------------------------------------------------------------
(* The gateway. *)

\* The idempotency key makes the effect land once, however often it is called.
CallAllowed(s) ==
    /\ policy[s] = "allow"
    /\ Moves(s, "call", "result")
    /\ landed' = landed \cup {s}
    /\ UNCHANGED <<vars, using, refused, policy>>

\* Mutant of CallDenied: the record has no outcome, so that it reads as a result.
CallDeniedWithoutOutcome(s) ==
    /\ policy[s] = "deny"
    /\ Moves(s, "call", "denied")
    /\ refused' = refused \cup {s}
    /\ \E a \in Appends :
           /\ Begin(a, EntryFor(Root, s[2], "completed", "result"))
           /\ using' = [using EXCEPT ![s] = a]
    /\ UNCHANGED <<landed, policy>>

\* journalDenial: the request carries a run id and a step id and no sub-run, so
\* the entry is the root run's.  The policy is asked before the idempotency key
\* is looked up.
CallDenied(s) ==
    /\ policy[s] = "deny"
    /\ Moves(s, "call", "denied")
    /\ refused' = refused \cup {s}
    /\ \E a \in Appends :
           /\ Begin(a, EntryFor(Root, s[2], "completed", "denied"))
           /\ using' = [using EXCEPT ![s] = a]
    /\ UNCHANGED <<landed, policy>>

\* The 403 says whether the refusal is journalled.
DenialAnswered(s) == Acknowledged(s, "denied", "over", "unrecorded")

Reload(s) ==
    /\ PolicyReload
    /\ policy' = [policy EXCEPT ![s] = IF @ = "allow" THEN "deny" ELSE "allow"]
    /\ UNCHANGED <<vars, loop, using, landed, refused>>

-----------------------------------------------------------------------------
LoopStep(s) ==
    \/ Resume(s) \/ JournalIntent(s) \/ IntentAnswered(s)
    \/ CallAllowed(s) \/ CallDenied(s) \/ DenialAnswered(s)
    \/ JournalResult(s) \/ JournalRefusal(s) \/ ResultAnswered(s)

\* The loop is through, or the instance has no more appends to make.
RunDone ==
    /\ \A s \in RunSteps : loop[s] \in {"over", "intent", "call", "result", "unrecorded"}
    /\ \A a \in Appends : pc[a] \in {"idle", "done"}
    /\ (\E a \in Appends : pc[a] = "idle") => \A s \in RunSteps : loop[s] = "over"
    /\ UNCHANGED runVars

RunNext ==
    \/ \E s \in RunSteps : LoopStep(s) \/ LoopCrash(s) \/ Reload(s)
    \/ \E a \in Appends : (Step(a) \/ Fail(a)) /\ UNCHANGED <<loop, using, landed, refused, policy>>
    \/ RunDone

RunSpec == RunInit /\ [][RunNext]_runVars

-----------------------------------------------------------------------------
(* Properties. *)

Recorded(s, phase, payload) ==
    \E r \in table : r.run = Run /\ r.sub = s[1] /\ r.step = s[2] /\ r.phase = phase
                     /\ r.payload = payload

\* "a crash during an effect is distinguishable from a crash before it": whatever
\* dies, a step whose effect happened is one the journal reports as attempted or
\* completed, and the loop never takes it for a new one.
EffectIsNeverForgotten ==
    \A s \in landed : /\ Recorded(s, "attempted", "intent")
                      /\ loop[s] \notin {"intent", "intent_sent"}

\* A step the loop is through with, because it finished it or because the journal
\* says that it is completed, did have its effect or was refused.  One record is in
\* another sub-run's name: journalDenial (tool_gateway_handlers.go:517) leaves the
\* sub-run out, so a step of the root also counts as refused when a delegation's step
\* of that id was.  Nothing else is taken for a conclusion, and no delegation skips a
\* step of its own on another one's record.
RefusedElsewhere(s) == s[1] = Root /\ \E t \in refused : t[2] = s[2]
SkippedOnlyIfConcluded ==
    \A s \in RunSteps : loop[s] = "over" => s \in landed \cup refused \/ RefusedElsewhere(s)

\* "a resume would skip work that never ran" (checkpoint.go:63) is what the sub-run's
\* id is there to prevent: a step that was skipped had its own conclusion.
SkippedByItsOwnRecord ==
    \A s \in RunSteps : loop[s] = "over" => s \in landed \cup refused

\* A step of the journal is completed with a result only if its effect happened.
ResultMeansEffect ==
    \A s \in RunSteps : Recorded(s, "completed", "result") => s \in landed

\* "for ANY step that crashed we can tell whether the effect may have landed": a loop
\* that journals every intent is reported so at every moment, with steps open, done or
\* refused, and after a crash of either side.
ReportedPerStep == DurabilityLevel(RowsOf(table, Run)) \in {"unknown", "per_step"}

\* "Denied reports whether this outcome means the effect did NOT happen."
DeniedMeansNoEffect ==
    \A s \in RunSteps : Recorded(s, "completed", "denied") => s \notin landed
=============================================================================
