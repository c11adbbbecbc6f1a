--------------------------- MODULE ToolExecutions ---------------------------
(***************************************************************************)
(* The rows of the tool_executions table (go/internal/store/               *)
(* tool_executions.go): one row per (tenant, idempotency key), and what    *)
(* each SQL statement of Claim, Complete and Release does to one row.  A   *)
(* statement is atomic; the calls that issue several of them are not, and  *)
(* are the steps of module ToolGateway.                                    *)
(***************************************************************************)
EXTENDS Integers

CONSTANTS
    Args,      \* argument documents a call may carry
    Results,   \* results a tool may return
    NoArgs,    \* the args of a row that does not exist
    NoResult   \* SQL NULL in the result column

ASSUME NoArgsAssumption == NoArgs \notin Args
ASSUME NoResultAssumption == NoResult \notin Results

\* "absent" is the key that has no row; rows are never deleted.
RowStates == {"absent", "in_flight", "completed", "released"}

Row == [state : RowStates, args : Args \cup {NoArgs},
        result : Results \cup {NoResult}, failed : Nat]

AbsentRow == [state |-> "absent", args |-> NoArgs, result |-> NoResult, failed |-> 0]

-----------------------------------------------------------------------------
(* Claim's first statement: INSERT ... ON CONFLICT DO NOTHING. *)

\* Mutant of Inserts: ON CONFLICT DO UPDATE.
InsertsOrReplaces(r) == TRUE
Inserts(r) == r.state = "absent"
Inserted(r, a) == [state |-> "in_flight", args |-> a, result |-> NoResult, failed |-> 0]

(* Claim's second statement: SELECT ... args IS NOT DISTINCT FROM $2. *)
\* Mutant of SameArgs: the arguments are not compared.
SameArgsUnchecked(r, a) == TRUE
SameArgs(r, a) == r.args = a

(* Claim's third statement: UPDATE ... WHERE state = 'released'. *)
\* Mutant of Reclaims: the UPDATE has no WHERE state = 'released'.
ReclaimsWhatever(r) == TRUE
Reclaims(r) == r.state = "released"
Reclaimed(r) == [state |-> "in_flight", args |-> r.args, result |-> r.result, failed |-> r.failed]

(* Complete and Release: UPDATE by key alone, whatever state the row is in. *)
Completed(r, v) == [state |-> "completed", args |-> r.args, result |-> v, failed |-> r.failed]
\* Mutant of Released: the failed attempt is not counted.
ReleasedUncounted(r) ==
    [state |-> "released", args |-> r.args, result |-> NoResult, failed |-> r.failed]
Released(r) == [state |-> "released", args |-> r.args, result |-> NoResult, failed |-> r.failed + 1]
=============================================================================
