---------------------------- MODULE MCToolStep ----------------------------
(***************************************************************************)
(* One step with as many calls as Temporal may deliver attempts.           *)
(***************************************************************************)
EXTENDS ToolStep
=============================================================================
