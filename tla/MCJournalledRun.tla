-------------------------- MODULE MCJournalledRun --------------------------
(***************************************************************************)
(* Small instances of JournalledRun.                                       *)
(***************************************************************************)
EXTENDS JournalledRun, TLC

OneLock == [r \in Runs |-> 0]

Symmetry == Permutations(Appends)
=============================================================================
