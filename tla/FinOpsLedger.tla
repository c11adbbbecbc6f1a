--------------------------- MODULE FinOpsLedger ---------------------------
(***************************************************************************)
(* The rows of model_gateway_costs (go/internal/store/finops_ledger.go),   *)
(* the sums the ceiling is compared with (go/internal/finops/ceiling.go,   *)
(* overBudget) and the comparison of the rows with the platform's own      *)
(* accounts (go/internal/finops/reconcile.go).                             *)
(*                                                                         *)
(* A ledger is a set of rows, for nothing here reads their order, and no   *)
(* two rows are about the same request at a provider: the field `of`,      *)
(* which is not in the table, names that request, so that what the ledger  *)
(* says can be compared with what happened.                                *)
(***************************************************************************)
EXTENDS ModelPolicy

NoId == <<>>   \* an empty request id
ZeroUsage == [prompt |-> 0, completion |-> 0]

Entry(run, model, usage, cost, id, replayOf, discarded, of) ==
    [run |-> run, model |-> model, usage |-> usage, cost |-> cost, id |-> id,
     replayOf |-> replayOf, discarded |-> discarded, of |-> of]

-----------------------------------------------------------------------------
(* SpendForRun: one SELECT over the rows of a run. *)

RowsOf(ledger, run) == {e \in ledger : e.run = run}
Tokens(e) == OrZero(e.usage.prompt) + OrZero(e.usage.completion)

SpendForRun(ledger, run) ==
    LET rows == RowsOf(ledger, run)
    IN  [cost |-> MapThenSumSet(LAMBDA e : OrZero(e.cost), rows),
         tokens |-> MapThenSumSet(Tokens, rows),
         \* ModelCalls + DiscardedCalls
         calls |-> Cardinality(rows)]

-----------------------------------------------------------------------------
(* Ceilings. *)

BudgetNames == {"costUsd", "tokens", "modelCalls"}

\* A budget that is not a non-negative number is reported and not enforced.
CeilingFromManifest(budgets) ==
    [b \in BudgetNames |-> IF b \in DOMAIN budgets /\ budgets[b] >= 0 THEN budgets[b] ELSE Nil]
Declared(ceiling) == \E b \in BudgetNames : ceiling[b] # Nil

Reaches(spent, limit) == limit # Nil /\ spent >= limit
\* Mutant of Exceeded: the ceiling is compared with > .
ExceededStrictly(ceiling, spend) ==
    \/ ceiling["costUsd"] # Nil /\ spend.cost > ceiling["costUsd"]
    \/ ceiling["tokens"] # Nil /\ spend.tokens > ceiling["tokens"]
    \/ ceiling["modelCalls"] # Nil /\ spend.calls > ceiling["modelCalls"]
Exceeded(ceiling, spend) ==
    \/ Reaches(spend.cost, ceiling["costUsd"])
    \/ Reaches(spend.tokens, ceiling["tokens"])
    \/ Reaches(spend.calls, ceiling["modelCalls"])

-----------------------------------------------------------------------------
(* Reconcile: what each row that names a provider request is found to      *)
(* disagree about.  `platform` maps the requests the providers answered to *)
(* what they did; a replay has no account of its own.                      *)

Divergences(row, platform) ==
    IF row.replayOf # NoId
    THEN IF row.cost = 0 THEN {} ELSE {"replay_billed"}
    ELSE IF platform[row.id].kind = "replayed" THEN {"missing"}
    ELSE LET there == platform[row.id]
             cost == CostUSD(there.model, there.usage)
         IN  {k \in {"model", "tokens_unmeasured", "tokens", "unpriced_here", "unpriced_there", "cost"} :
                CASE k = "model" -> row.model # there.model
                  [] k = "tokens_unmeasured" -> Nil \in {row.usage.prompt, row.usage.completion}
                  [] k = "tokens" -> Nil \notin {row.usage.prompt, row.usage.completion}
                                     /\ row.usage # there.usage
                  [] k = "unpriced_here" -> row.cost = Nil /\ cost # Nil
                  [] k = "unpriced_there" -> row.cost # Nil /\ cost = Nil
                  [] k = "cost" -> Nil \notin {row.cost, cost} /\ row.cost # cost}

\* RowsWithProviderRequestID selects the rows Reconcile is given.
Reconcile(ledger, platform) ==
    UNION {Divergences(e, platform) : e \in {r \in ledger : r.id # NoId}}
=============================================================================
