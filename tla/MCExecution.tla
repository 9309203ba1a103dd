---------------------------- MODULE MCExecution -----------------------------
(***************************************************************************)
(* Small instances of Execution for TLC.                                   *)
(***************************************************************************)
EXTENDS Execution, TLC

Symmetry == Permutations(Operations) \cup Permutations(Payloads)
=============================================================================
