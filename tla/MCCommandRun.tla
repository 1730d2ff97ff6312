---------------------------- MODULE MCCommandRun ----------------------------
(***************************************************************************)
(* CommandRun for TLC: the leader and its descendants as model values, two *)
(* of these so that one can leave the group and fork outside it.           *)
(***************************************************************************)
EXTENDS CommandRun
==============================================================================
