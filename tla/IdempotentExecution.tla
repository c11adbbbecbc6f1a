------------------------ MODULE IdempotentExecution ------------------------
(***************************************************************************)
(* What the Tool Gateway promises a caller that sends an idempotency key,  *)
(* with no table, no statements and no handlers: a key is taken by one     *)
(* execution at a time, yields at most one result, and every answer that   *)
(* carries a result carries that one.  "lost" is the key whose execution   *)
(* succeeded and could not be recorded: nobody takes it again.             *)
(***************************************************************************)
EXTENDS Naturals

CONSTANTS Keys, Calls, NoResult

VARIABLES
    phase,     \* phase[k]: what has become of key k
    value,     \* value[k]: the one result of key k, once there is one
    answer     \* answer[k]: the results callers of key k have been given

promise == <<phase, value, answer>>

Init ==
    /\ phase = [k \in Keys |-> "free"]
    /\ value = [k \in Keys |-> NoResult]
    /\ answer = [k \in Keys |-> {}]

Take(k) ==
    /\ phase[k] = "free"
    /\ phase' = [phase EXCEPT ![k] = "taken"]
    /\ UNCHANGED <<value, answer>>

\* The execution failed: another one may follow.
GiveBack(k) ==
    /\ phase[k] = "taken"
    /\ phase' = [phase EXCEPT ![k] = "free"]
    /\ UNCHANGED <<value, answer>>

\* The execution of v succeeded, and is recorded or not; v's own caller may be
\* given the result in the same step.
Finish(k, v, p) ==
    /\ phase[k] = "taken"
    /\ phase' = [phase EXCEPT ![k] = p]
    /\ value' = [value EXCEPT ![k] = v]
    /\ answer' \in {answer, [answer EXCEPT ![k] = @ \cup {v}]}

Serve(k) ==
    /\ phase[k] = "done"
    /\ answer' = [answer EXCEPT ![k] = @ \cup {value[k]}]
    /\ UNCHANGED <<phase, value>>

Next ==
    \E k \in Keys :
        \/ Take(k) \/ GiveBack(k) \/ Serve(k)
        \/ \E v \in Calls, p \in {"done", "lost"} : Finish(k, v, p)

Spec == Init /\ [][Next]_promise
=============================================================================
