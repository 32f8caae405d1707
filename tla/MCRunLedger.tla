----------------------------- MODULE MCRunLedger -----------------------------
(***************************************************************************)
(* Small instances of RunLedger.                                           *)
(***************************************************************************)
EXTENDS RunLedger, TLC

Symmetry == Permutations(Tasks) \cup Permutations(Children)
=============================================================================
