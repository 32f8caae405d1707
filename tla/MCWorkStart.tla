----------------------------- MODULE MCWorkStart ------------------------------
(***************************************************************************)
(* Small instances of WorkStart.                                           *)
(***************************************************************************)
EXTENDS WorkStart, TLC
CONSTANTS s1, s2, s3, t1, t2, w1
=============================================================================
