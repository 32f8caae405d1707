---------------------------- MODULE MCKernelSession ---------------------------
(***************************************************************************)
(* Small instances of KernelSession.                                       *)
(***************************************************************************)
EXTENDS KernelSession, TLC
CONSTANTS c1, c2, c3
=============================================================================
