------------------------------ MODULE RunLedger ------------------------------
(***************************************************************************)
(* One run's durable record under every operation the work service offers  *)
(* on it. Each operation is one read-modify-write serialized by the        *)
(* storage domain, so each is one action, and any caller may call any of   *)
(* them at any time: the drain, the completion observer, the acceptance    *)
(* runner, the command surface and the root's tool are all such callers.   *)
(* The host-wide gate can only refuse an admission the record would allow. *)
(***************************************************************************)
EXTENDS RunRecord

CONSTANTS Targets,      \* targets a human may set
          Charges,      \* actual costs that may be reported
          Releases,     \* what recordSpend's callers ask of releaseReservation
          MaxAttempts,  \* bound on the admissions of one task
          MaxCharged    \* bound on each total of charged cost

ASSUME LedgerAssumption ==
  /\ Targets \subseteq Nat /\ Charges \subseteq Nat \ {0}
  /\ Releases \subseteq BOOLEAN
  /\ MaxAttempts \in Nat /\ MaxCharged \in Nat

VARIABLE rec  \* the durable record

vars == <<rec>>

\* The reservations asked for by a set of tasks, added up: one pair for each unit.
Units(r, S) == UNION {{t} \X (1..r.tasks[t].cost) : t \in S}
EstimateOf(S) == Cardinality(Units(rec, S))

Init == \E target \in Targets : rec = InitialRecord(target)

Affordable(b) == /\ b.spent <= MaxCharged /\ b.unknownReserved <= MaxCharged
                 /\ b.rootSpent <= MaxCharged /\ b.overage <= MaxCharged

------------------------------------------------------------------------------
(* The root's tool. *)

SubmitReady(t, c, cost) ==
  rec' = WithRow(rec, t, c, cost)

BeginClosing ==
  rec' = [rec EXCEPT !.phase = IF @ = "open" THEN "closing" ELSE @]

(* The drain. *)

ClearReady(t) == rec' = WithoutRow(rec, t)

Admit(t, c, cost) ==
  /\ Refusal(rec, t, cost) = "admit"
  /\ rec.tasks[t].attempt < MaxAttempts
  /\ rec' = Admitted(rec, t, c, cost)

(* Any owner of evidence about a task. *)

Transition(t, to, release, spent) ==
  /\ CanTransition(rec.tasks[t].state, to)
  /\ rec' = Transitioned(rec, t, to, release, spent)
  /\ Affordable(rec'.budget)

RecordSpend(t, release, actual) ==
  /\ Present(rec, t)
  /\ LET cost == rec.tasks[t].cost
     IN rec' = [rec EXCEPT !.budget = ApplySpend(@, IF release THEN cost ELSE 0, cost, actual)]
  /\ Affordable(rec'.budget)

\* A compaction, summary or search call belongs to no task.
RecordAuxiliarySpend(covering, actual) ==
  /\ rec' = [rec EXCEPT !.budget = ApplySpend(@, 0, covering, actual)]
  /\ Affordable(rec'.budget)

SpendRoot(actual) ==
  /\ rec' = [rec EXCEPT !.budget = SpendFromRoot(@, actual)]
  /\ Affordable(rec'.budget)

RetainUnknown(t, amount) ==
  /\ Present(rec, t)
  /\ rec' = [rec EXCEPT !.budget = RetainAsUnknown(@, Least(amount, rec.tasks[t].cost))]
  /\ Affordable(rec'.budget)

RetainAuxiliaryUnknown(amount) ==
  /\ rec' = [rec EXCEPT !.budget = HoldUnknown(@, amount)]
  /\ Affordable(rec'.budget)

(* The human. *)

ResolveHalt ==
  /\ rec.budget.halted
  /\ rec' = [rec EXCEPT !.budget.halted = FALSE]

SetTargetChildren(target) == rec' = [rec EXCEPT !.target = target]

Pause ==
  rec' = [rec EXCEPT !.phase = IF @ = "open" THEN "paused" ELSE @]

Resume ==
  rec' = [rec EXCEPT !.phase = IF @ = "paused" THEN "open" ELSE @]

Human == \/ ResolveHalt \/ Pause \/ Resume
         \/ \E target \in Targets : SetTargetChildren(target)

TaskStep(t) ==
  \/ \E c \in Children, cost \in Costs : SubmitReady(t, c, cost) \/ Admit(t, c, cost)
  \/ ClearReady(t)
  \/ \E to \in States : \E spent \in Charges \cup {0} :
        Transition(t, to, ReleasesByDefault(to), spent)
  \/ \E actual \in Charges :
        RetainUnknown(t, actual) \/ \E release \in Releases : RecordSpend(t, release, actual)

Next == \/ \E t \in Tasks : TaskStep(t)
        \/ \E actual \in Charges :
              \/ SpendRoot(actual) \/ RetainAuxiliaryUnknown(actual)
              \/ \E covering \in Costs : RecordAuxiliarySpend(covering, actual)
        \/ BeginClosing \/ Human

Spec == Init /\ [][Next]_vars

------------------------------------------------------------------------------
(* What the record promises. *)

\* Every field of the durable record keeps the shape its schema declares
\* (record.ts runRecordSchema): in particular no balance ever goes negative.
TypeOK == rec \in Record

\* The tombstones are exactly the tasks that were confirmed or cancelled: no
\* path reaches a final state without one, none leaves a final state
\* (host.ts transition and tryReserveAdmission).
TombstonesAreTerminal ==
  rec.tombstones = {t \in Tasks : rec.tasks[t].state \in TerminalStates}

\* A confirmed or cancelled task is never admitted or moved again, by a retry, a
\* late completion or a human (host.ts tryReserveAdmission step 3).
ClosedTasksStayClosed ==
  [][\A t \in rec.tombstones : rec'.tasks[t] = rec.tasks[t]]_vars

\* Nothing but an admission within the target raises the number of held slots,
\* except a finished task whose outcome is put in doubt again (INV-C1): whatever
\* order admissions, settlements and target changes commit in.
HeldRisesOnlyWithinTarget ==
  [][HeldSlots(rec') > HeldSlots(rec) =>
       \/ HeldSlots(rec') <= rec'.target /\ rec.phase = "open"
       \/ \E t \in Tasks : rec.tasks[t].state = "completed" /\ rec'.tasks[t].state = "unknown"]_vars

\* Money of a task that still occupies a slot is never handed out again: the
\* reservations and unknowns on the books cover every held task's estimate
\* (host.ts transition's release rule, recordSpend, retainUnknown).
HeldWorkIsReserved ==
  EstimateOf(Held(rec)) <= rec.budget.reserved + rec.budget.unknownReserved
=============================================================================
