--------------------------- MODULE MCSeccompFilter ---------------------------
(***************************************************************************)
(* SeccompFilter for TLC: numbers below and above the x32 bit, lists with  *)
(* a number that is repeated and one that is an x32 number.                *)
(***************************************************************************)
EXTENDS SeccompFilter

MCBlocked == <<3, 1, 6, 3>>
MCNetworkCalls == <<2, 7, 1>>
==============================================================================
