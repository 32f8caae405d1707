-------------------------- MODULE MCKernelSupervisor --------------------------
(***************************************************************************)
(* Small instances of KernelSupervisor: the cells are interchangeable.     *)
(***************************************************************************)
EXTENDS KernelSupervisor, TLC
CONSTANTS c1, c2, c3
=============================================================================
