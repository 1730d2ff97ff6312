---------------------------- MODULE MCPaldronExec ----------------------------
(***************************************************************************)
(* PaldronExec for TLC: a leader with a descendant, and one file that the  *)
(* policy denies.                                                          *)
(***************************************************************************)
EXTENDS PaldronExec
==============================================================================
