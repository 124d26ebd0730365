-------------------------- MODULE MCToolExecutions --------------------------
(* ToolExecutions on a small instance.                                     *)
EXTENDS ToolExecutions

CONSTANTS k, c1, w1, u1
=============================================================================
