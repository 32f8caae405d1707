----------------------------- MODULE MCDataPlane ------------------------------
(***************************************************************************)
(* Small instances of DataPlane.                                           *)
(***************************************************************************)
EXTENDS DataPlane, TLC
CONSTANTS r1, r2, r3, o1, o2, a1, a2
=============================================================================
