------------------------------ MODULE RunRecord ------------------------------
(***************************************************************************)
(* The durable record of one run and the pure functions the work service   *)
(* applies to it: every change of a record is one of these functions, run  *)
(* inside a serialized update of the storage domain.                       *)
(***************************************************************************)
EXTENDS AdmissionStates, Integers, Sequences, FiniteSets

CONSTANTS Tasks,       \* task ids the root may submit
          Children,    \* child session ids a task may reserve
          NoChild,     \* a task that was never admitted has reserved none
          Costs,       \* reservations a caller may ask for (the tool asks for 1)
          Ceiling,     \* the run's whole budget
          RootReserve  \* the part of it kept for the root's own calls

ASSUME CostAssumption == /\ Costs \subseteq Nat
                         /\ Ceiling \in Nat /\ RootReserve \in 0..Ceiling
ASSUME TaskAssumption == IsFiniteSet(Tasks) /\ NoChild \notin Children

Phases == {"open", "paused", "closing", "closed"}

\* A task that has no record yet.
Absent == [state |-> "absent", child |-> NoChild, attempt |-> 0, cost |-> 0]

TaskRecord == [state : States \cup {"absent"}, child : Children \cup {NoChild},
               attempt : Nat, cost : Nat]

Row == [task : Tasks, child : Children, cost : Costs]

Budget == [spent : Nat, reserved : Nat, unknownReserved : Nat, overage : Nat,
           rootSpent : Nat, halted : BOOLEAN]

Record == [phase : Phases, target : Nat, tasks : [Tasks -> TaskRecord],
           ready : Seq(Row), tombstones : SUBSET Tasks, budget : Budget]

InitialRecord(target) ==
  [phase |-> "open", target |-> target, tasks |-> [t \in Tasks |-> Absent],
   ready |-> <<>>, tombstones |-> {},
   budget |-> [spent |-> 0, reserved |-> 0, unknownReserved |-> 0, overage |-> 0,
               rootSpent |-> 0, halted |-> FALSE]]

Least(a, b) == IF a < b THEN a ELSE b
Most(a, b) == IF a < b THEN b ELSE a

------------------------------------------------------------------------------
(* Occupancy of the target. *)

Present(r, t) == r.tasks[t].state # "absent"
Held(r) == {t \in Tasks : HoldsSlot(r.tasks[t].state)}
HeldSlots(r) == Cardinality(Held(r))

------------------------------------------------------------------------------
(* The ready table: one row per task, oldest submission first. *)

HasRow(r, t) == \E i \in DOMAIN r.ready : r.ready[i].task = t
RowIndex(r, t) == CHOOSE i \in DOMAIN r.ready : r.ready[i].task = t

\* A task that already has a row keeps it, whatever the second submission asks. One of
\* another prompt is also refused (ReadyConflictError) before the leader is woken: it
\* changes nothing at all, a stuttering step.
WithRow(r, t, c, cost) ==
  IF HasRow(r, t) THEN r
  ELSE [r EXCEPT !.ready = Append(@, [task |-> t, child |-> c, cost |-> cost])]

WithoutRow(r, t) ==
  LET i == RowIndex(r, t)
  IN IF HasRow(r, t)
     THEN [r EXCEPT !.ready = SubSeq(@, 1, i - 1) \o SubSeq(@, i + 1, Len(@))]
     ELSE r

------------------------------------------------------------------------------
(* The budget. *)

ChildCeiling == Most(0, Ceiling - RootReserve)
ChildCommitted(b) == b.spent + b.reserved + b.unknownReserved

\* A charge is recorded in full; what exceeds the estimate covering it halts the run.
ApplySpend(b, releasing, covering, actual) ==
  LET released == Least(b.reserved, releasing)
      excess == Most(0, actual - covering)
  IN [b EXCEPT !.reserved = @ - released, !.spent = @ + actual,
               !.overage = @ + excess, !.halted = @ \/ excess > 0]

\* Usage that will never be reported stays committed under another name.
RetainAsUnknown(b, amount) ==
  LET moved == Least(b.reserved, amount)
  IN [b EXCEPT !.reserved = @ - moved, !.unknownReserved = @ + moved]

HoldUnknown(b, amount) == [b EXCEPT !.unknownReserved = @ + amount]

\* The root's calls are charged to its own reserve and halt the run beyond it.
SpendFromRoot(b, actual) ==
  LET available == Most(0, RootReserve - b.rootSpent)
  IN [b EXCEPT !.rootSpent = @ + actual, !.halted = @ \/ actual > available]

------------------------------------------------------------------------------
(* Admission and transitions. *)

\* Mutants of the refusal: the tombstone, the held slot, the last unit of the
\* budget or the last slot of the target is overlooked.
RefusalFrom(r, t, cost, held, overBudget, targetFull) ==
  IF r.phase # "open" THEN "run_not_open"
  ELSE IF r.budget.halted THEN "budget_overage_halt"
  ELSE IF held THEN "slots_held_by_unconfirmed"
  ELSE IF overBudget THEN "budget_blocked"
  ELSE IF targetFull THEN "target_full"
  ELSE "admit"
RefusalWithoutTombstones(r, t, cost) ==
  RefusalFrom(r, t, cost, HoldsSlot(r.tasks[t].state),
              ChildCommitted(r.budget) + cost > ChildCeiling, HeldSlots(r) >= r.target)
RefusalWithoutHeld(r, t, cost) ==
  RefusalFrom(r, t, cost, t \in r.tombstones,
              ChildCommitted(r.budget) + cost > ChildCeiling, HeldSlots(r) >= r.target)
RefusalPastCeiling(r, t, cost) ==
  RefusalFrom(r, t, cost, HoldsSlot(r.tasks[t].state) \/ t \in r.tombstones,
              ChildCommitted(r.budget) > ChildCeiling, HeldSlots(r) >= r.target)
RefusalPastTarget(r, t, cost) ==
  RefusalFrom(r, t, cost, HoldsSlot(r.tasks[t].state) \/ t \in r.tombstones,
              ChildCommitted(r.budget) + cost > ChildCeiling, HeldSlots(r) > r.target)

\* Why an admission of t at this cost is refused, first reason first; "admit" if
\* the record itself has no objection. (The refusal of a stale expectedRunRevision is left
\* out: no caller in the code passes a revision, the drain says why it does not, and a
\* refused admission changes nothing.)
Refusal(r, t, cost) ==
  IF r.phase # "open" THEN "run_not_open"
  ELSE IF r.budget.halted THEN "budget_overage_halt"
  ELSE IF HoldsSlot(r.tasks[t].state) \/ t \in r.tombstones THEN "slots_held_by_unconfirmed"
  ELSE IF ChildCommitted(r.budget) + cost > ChildCeiling THEN "budget_blocked"
  ELSE IF HeldSlots(r) >= r.target THEN "target_full"
  ELSE "admit"

Admitted(r, t, c, cost) ==
  [r EXCEPT !.tasks[t] = [state |-> "prepared", child |-> c, attempt |-> @.attempt + 1,
                          cost |-> cost],
            !.budget.reserved = @ + cost]

\* Releasing the reservation is a decision of its own; these are the states that
\* release it when the caller says nothing.
\* Mutant: a task nobody can account for gives its reservation back.
ReleasesUnknown(to) == to \in TerminalStates \cup {"unknown"}
ReleasesByDefault(to) == to \in TerminalStates

Transitioned(r, t, to, release, spent) ==
  LET cost == r.tasks[t].cost
      budget == IF spent = 0
                THEN [r.budget EXCEPT !.reserved = IF release THEN Most(0, @ - cost) ELSE @]
                ELSE ApplySpend(r.budget, IF release THEN cost ELSE 0, cost, spent)
  IN [r EXCEPT !.tasks[t].state = to, !.budget = budget,
               !.tombstones = IF to \in TerminalStates THEN @ \cup {t} ELSE @]
=============================================================================
