----------------------------- MODULE MCChildGate -----------------------------
(***************************************************************************)
(* Three tasks with a child each, and two children that no task asked for. *)
(***************************************************************************)
EXTENDS ChildGate, TLC
CONSTANTS t1, t2, t3, c1, c2, c3, s1, s2

MCTasks == {t1, t2, t3}
MCChildren == {c1, c2, c3, s1, s2}
MCNameOf == t1 :> c1 @@ t2 :> c2 @@ t3 :> c3
=============================================================================
