----------------------------- MODULE MCGuardrails -----------------------------
(***************************************************************************)
(* Guardrails for TLC.                                                     *)
(***************************************************************************)
EXTENDS Guardrails, TLC

Symmetry == Permutations(Schemas)
==============================================================================
