---------------------------- MODULE MCRollingDrain ----------------------------
(***************************************************************************)
(* Small instances of RollingDrain: each task's child carries its name.    *)
(***************************************************************************)
EXTENDS RollingDrain, TLC
CONSTANTS t1, t2, t3, c1, c2, c3, run1, run2

Names == t1 :> c1 @@ t2 :> c2 @@ t3 :> c3
MCNameOf == [t \in Tasks |-> Names[t]]

\* Every root may submit every task, or each has task ids of its own.
SharedTasks == [r \in Runs |-> Tasks]
OwnTasks == run1 :> {t1} @@ run2 :> {t2}

\* A task and its child, or a run with its only task, may be exchanged for another.
Exchanges(f) == {f, [x \in DOMAIN f |-> x]}
SwapTasks == Exchanges(t1 :> t2 @@ t2 :> t1 @@ c1 :> c2 @@ c2 :> c1)
SwapRuns == Exchanges(run1 :> run2 @@ run2 :> run1 @@ t1 :> t2 @@ t2 :> t1
                      @@ c1 :> c2 @@ c2 :> c1)
=============================================================================
