--------------------------- MODULE MCToolGateway ---------------------------
(***************************************************************************)
(* Small instances of ToolGateway: calls are interchangeable, and so are   *)
(* argument documents.                                                     *)
(***************************************************************************)
EXTENDS ToolGateway, TLC

Symmetry == Permutations(Calls) \cup Permutations(Args)
=============================================================================
