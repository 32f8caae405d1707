---------------------------- MODULE MCEffectLedger ----------------------------
(***************************************************************************)
(* Small instances of EffectLedger.                                        *)
(***************************************************************************)
EXTENDS EffectLedger, TLC
CONSTANTS o1, d1, d2
=============================================================================
