----------------------------- MODULE MCCellLease ------------------------------
(***************************************************************************)
(* A small instance of CellLease: the frame again resends the frame first  *)
(* with the same operation, conflict reuses its request id for another     *)
(* operation, other is a second request and stale claims the capability of *)
(* another cell.                                                           *)
(***************************************************************************)
EXTENDS CellLease, TLC
CONSTANTS first, again, conflict, other, stale, r1, r2, a1, a2

MCRequestOf == first :> r1 @@ again :> r1 @@ conflict :> r1 @@ other :> r2 @@ stale :> r2
MCArgumentsOf == first :> a1 @@ again :> a1 @@ conflict :> a2 @@ other :> a1 @@ stale :> a1
MCMismatched == {stale} \cap Frames
RequestsOfFrames == [f \in Frames |-> MCRequestOf[f]]
ArgumentsOfFrames == [f \in Frames |-> MCArgumentsOf[f]]
=============================================================================
