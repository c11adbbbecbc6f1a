--------------------------- MODULE MCCheckpointer ---------------------------
(***************************************************************************)
(* Small instances of Checkpointer: two runs whose ids hash to one lock.   *)
(***************************************************************************)
EXTENDS Checkpointer, TLC

OneLock == [r \in Runs |-> 0]

Symmetry == Permutations(Appends) \cup Permutations(SubRuns) \cup Permutations(Runs)
            \cup Permutations(Payloads)
=============================================================================
