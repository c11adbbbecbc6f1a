--------------------------- MODULE CircuitBreaker ---------------------------
(***************************************************************************)
(* The decision of go/internal/circuitbreaker/breaker.go: from a rolling   *)
(* window of outcomes, whether a version trips.  A breaker is a function   *)
(* from agent versions to [window, tripped]; every operation of it holds   *)
(* the mutex, so it is one step of whoever calls it.                       *)
(***************************************************************************)
EXTENDS Integers, Sequences, FiniteSets, FiniteSetsExt, SequencesExt

CONSTANTS
    WindowSize, MinSamples,   \* outcomes kept, outcomes needed to judge
    MaxFailurePercent,        \* MaxFailureRate, in percent
    MaxAvgCost                \* MaxAvgCostUSD; 0 disables the cost anomaly

ASSUME ThresholdsAssumption ==
    /\ WindowSize \in Nat \ {0} /\ MinSamples \in Nat
    /\ MaxFailurePercent \in 0..100 /\ MaxAvgCost \in Nat

Unpriced == -1   \* Observation.CostUSD is nil: not known, which is not free

Closed == [window |-> <<>>, tripped |-> FALSE]

\* The oldest outcome is dropped first.
Pushed(window, obs) ==
    LET all == Append(window, obs)
    IN  IF Len(all) > WindowSize THEN Tail(all) ELSE all

Failures(window) == Cardinality({i \in DOMAIN window : ~window[i].success})
Priced(window) == {i \in DOMAIN window : window[i].cost # Unpriced}
TotalCost(window) == MapThenSumSet(LAMBDA i : window[i].cost, Priced(window))

FailsTooOften(window) == 100 * Failures(window) > MaxFailurePercent * Len(window)
CostsTooMuch(window) ==
    /\ MaxAvgCost > 0 /\ Priced(window) # {}
    /\ TotalCost(window) > MaxAvgCost * Cardinality(Priced(window))

Anomalous(window) ==
    Len(window) >= MinSamples /\ (FailsTooOften(window) \/ CostsTooMuch(window))

\* A tripped breaker counts nothing and stays tripped.
RecordOutcome(b, obs) ==
    IF b.tripped THEN b
    ELSE LET window == Pushed(b.window, obs) IN [window |-> window, tripped |-> Anomalous(window)]
=============================================================================
