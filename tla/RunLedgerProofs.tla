--------------------------- MODULE RunLedgerProofs ---------------------------
(***************************************************************************)
(* Theorems about RunLedger, for every set of tasks and children, every    *)
(* cost, target, ceiling and bound.                                        *)
(***************************************************************************)
EXTENDS RunLedger, TLAPS, FiniteSetTheorems

\* No edge leaves a final state, and every edge ends in a declared state (states.ts
\* TRANSITIONS).
LEMMA TransitionStates ==
  ASSUME NEW from, NEW to, CanTransition(from, to)
  PROVE  from \in States \ TerminalStates /\ to \in States
BY DEF CanTransition, Transitions, Unfinished, States, TerminalStates

\* A submission keeps the record well formed (host.ts submitReady).
LEMMA WithRowTypes ==
  ASSUME NEW r \in Record, NEW t \in Tasks, NEW c \in Children, NEW cost \in Costs
  PROVE  WithRow(r, t, c, cost) \in Record
<1> DEFINE row == [task |-> t, child |-> c, cost |-> cost]
<1>1. Append(r.ready, row) \in Seq(Row)
  BY DEF Record, Row
<1> QED BY <1>1 DEF WithRow, Record

\* So does the removal of a row, wherever it stands (host.ts clearReadyAssignment).
LEMMA WithoutRowTypes ==
  ASSUME NEW r \in Record, NEW t \in Tasks
  PROVE  WithoutRow(r, t) \in Record
<1> DEFINE i == RowIndex(r, t)
           rest == SubSeq(r.ready, 1, i - 1) \o SubSeq(r.ready, i + 1, Len(r.ready))
<1>1. CASE HasRow(r, t)
  <2>1. r.ready \in Seq(Row)
    BY DEF Record
  <2>2. i \in 1..Len(r.ready)
    BY <1>1, <2>1 DEF HasRow, RowIndex
  <2>3. /\ SubSeq(r.ready, 1, i - 1) \in Seq(Row)
        /\ SubSeq(r.ready, i + 1, Len(r.ready)) \in Seq(Row)
    BY <2>1, <2>2
  <2>4. rest \in Seq(Row)
    BY <2>3
  <2>5. WithoutRow(r, t) = [r EXCEPT !.ready = rest]
    BY <1>1 DEF WithoutRow
  <2> HIDE DEF rest
  <2> QED BY <2>4, <2>5 DEF Record
<1>2. CASE ~HasRow(r, t)
  BY <1>2 DEF WithoutRow
<1> QED BY <1>1, <1>2

\* The bounds of a clamped amount.
LEMMA LeastMost ==
  ASSUME NEW a \in Int, NEW b \in Int
  PROVE  /\ Least(a, b) \in {a, b} /\ Least(a, b) <= a /\ Least(a, b) <= b
         /\ Most(a, b) \in {a, b} /\ Most(a, b) >= a /\ Most(a, b) >= b
BY DEF Least, Most

\* No charge, release or retention drives a balance negative (record.ts applySpend,
\* retainAsUnknown, holdUnknown; host.ts spendRoot).
LEMMA BudgetTypes ==
  ASSUME NEW b \in Budget, NEW releasing \in Nat, NEW covering \in Nat, NEW actual \in Nat
  PROVE  /\ ApplySpend(b, releasing, covering, actual) \in Budget
         /\ RetainAsUnknown(b, actual) \in Budget
         /\ HoldUnknown(b, actual) \in Budget
         /\ SpendFromRoot(b, actual) \in Budget
         /\ [b EXCEPT !.reserved = @ + actual] \in Budget
         /\ [b EXCEPT !.reserved = Most(0, @ - actual)] \in Budget
         /\ [b EXCEPT !.halted = FALSE] \in Budget
<1>1. /\ b.spent \in Nat /\ b.reserved \in Nat /\ b.unknownReserved \in Nat
      /\ b.overage \in Nat /\ b.rootSpent \in Nat /\ b.halted \in BOOLEAN
      /\ RootReserve \in Int
  BY CostAssumption DEF Budget
<1>2. ApplySpend(b, releasing, covering, actual) \in Budget
  <2> DEFINE released == Least(b.reserved, releasing)
             excess == Most(0, actual - covering)
  <2>1. released \in Nat /\ released <= b.reserved /\ excess \in Nat
    BY <1>1 DEF Least, Most
  <2> DEFINE halts == b.halted \/ excess > 0
  <2>2. halts \in BOOLEAN
    BY <1>1
  <2>3. ApplySpend(b, releasing, covering, actual) =
          [b EXCEPT !.reserved = @ - released, !.spent = @ + actual,
                    !.overage = @ + excess, !.halted = halts]
    BY DEF ApplySpend
  <2> DEFINE reserved == b.reserved - released
             charged == b.spent + actual
             overage == b.overage + excess
  <2>4. reserved \in Nat /\ charged \in Nat /\ overage \in Nat
    BY <1>1, <2>1
  <2>5. ApplySpend(b, releasing, covering, actual) =
          [b EXCEPT !.reserved = reserved, !.spent = charged,
                    !.overage = overage, !.halted = halts]
    BY <2>3
  <2> HIDE DEF reserved, charged, overage, halts
  <2> QED BY <2>2, <2>4, <2>5 DEF Budget
<1>3. RetainAsUnknown(b, actual) \in Budget
  <2> DEFINE moved == Least(b.reserved, actual)
  <2>1. moved \in Nat /\ moved <= b.reserved
    BY <1>1 DEF Least
  <2>2. RetainAsUnknown(b, actual) =
          [b EXCEPT !.reserved = @ - moved, !.unknownReserved = @ + moved]
    BY DEF RetainAsUnknown
  <2> DEFINE reserved == b.reserved - moved
             unknown == b.unknownReserved + moved
  <2>3. reserved \in Nat /\ unknown \in Nat
    BY <1>1, <2>1
  <2>4. RetainAsUnknown(b, actual) =
          [b EXCEPT !.reserved = reserved, !.unknownReserved = unknown]
    BY <2>2
  <2> HIDE DEF reserved, unknown
  <2> QED BY <2>3, <2>4 DEF Budget
<1>4. HoldUnknown(b, actual) \in Budget
  BY DEF HoldUnknown, Budget
<1>5. SpendFromRoot(b, actual) \in Budget
  <2> DEFINE halts == b.halted \/ actual > Most(0, RootReserve - b.rootSpent)
  <2>1. halts \in BOOLEAN
    BY <1>1
  <2>2. SpendFromRoot(b, actual) = [b EXCEPT !.rootSpent = @ + actual, !.halted = halts]
    BY DEF SpendFromRoot
  <2> DEFINE charged == b.rootSpent + actual
  <2>3. charged \in Nat
    BY <1>1
  <2> HIDE DEF halts, charged
  <2>4. [b EXCEPT !.rootSpent = charged, !.halted = halts] \in Budget
    BY <2>1, <2>3 DEF Budget
  <2> QED BY <2>2, <2>4 DEF charged
<1>6. [b EXCEPT !.reserved = @ + actual] \in Budget
  BY <1>1 DEF Budget
<1>7. [b EXCEPT !.reserved = Most(0, @ - actual)] \in Budget
  <2> DEFINE left == Most(0, b.reserved - actual)
  <2>1. left \in Nat
    BY <1>1 DEF Most
  <2> HIDE DEF left
  <2>2. [b EXCEPT !.reserved = left] \in Budget
    BY <2>1 DEF Budget
  <2> QED BY <2>2 DEF left
<1>8. [b EXCEPT !.halted = FALSE] \in Budget
  BY DEF Budget
<1> QED BY <1>2, <1>3, <1>4, <1>5, <1>6, <1>7, <1>8

\* An admission keeps the record well formed (host.ts tryReserveAdmission).
LEMMA AdmittedTypes ==
  ASSUME NEW r \in Record, NEW t \in Tasks, NEW c \in Children, NEW cost \in Costs
  PROVE  Admitted(r, t, c, cost) \in Record
<1>1. r.tasks[t].attempt + 1 \in Nat /\ cost \in Nat
  BY CostAssumption DEF Record, TaskRecord
<1>2. [state |-> "prepared", child |-> c, attempt |-> r.tasks[t].attempt + 1,
       cost |-> cost] \in TaskRecord
  BY <1>1 DEF TaskRecord, States
<1>3. [r.budget EXCEPT !.reserved = @ + cost] \in Budget
  BY <1>1 DEF Record, Budget
<1> QED BY <1>2, <1>3 DEF Admitted, Record

\* So does a transition, charged or not, releasing or not (host.ts transition).
LEMMA TransitionedTypes ==
  ASSUME NEW r \in Record, NEW t \in Tasks, NEW to \in States,
         NEW release \in BOOLEAN, NEW spent \in Nat
  PROVE  Transitioned(r, t, to, release, spent) \in Record
<1> DEFINE cost == r.tasks[t].cost
           budget == IF spent = 0
                     THEN [r.budget EXCEPT !.reserved = IF release THEN Most(0, @ - cost) ELSE @]
                     ELSE ApplySpend(r.budget, IF release THEN cost ELSE 0, cost, spent)
           task == [r.tasks[t] EXCEPT !.state = to]
           tombs == IF to \in TerminalStates THEN r.tombstones \cup {t} ELSE r.tombstones
<1>1. r.budget \in Budget /\ r.tasks[t] \in TaskRecord /\ cost \in Nat
  BY DEF Record, TaskRecord
<1>2. budget \in Budget
  <2>1. CASE spent = 0
    <3> DEFINE reserved == IF release THEN Most(0, r.budget.reserved - cost)
                                      ELSE r.budget.reserved
    <3>1. reserved \in Nat
      BY <1>1 DEF Budget, Most
    <3>2. budget = [r.budget EXCEPT !.reserved = reserved]
      BY <2>1
    <3> HIDE DEF reserved, budget
    <3> QED BY <1>1, <3>1, <3>2 DEF Budget
  <2>2. CASE spent # 0
    <3>1. (IF release THEN cost ELSE 0) \in Nat
      BY <1>1
    <3> HIDE DEF cost
    <3> QED BY <1>1, <2>2, <3>1, BudgetTypes
  <2> QED BY <2>1, <2>2
<1>3. task \in TaskRecord
  BY <1>1 DEF TaskRecord
<1>4. tombs \in SUBSET Tasks
  BY DEF Record
<1>5. Transitioned(r, t, to, release, spent) =
        [r EXCEPT !.tasks[t] = task, !.budget = budget, !.tombstones = tombs]
  BY DEF Transitioned, Record, TaskRecord
<1> HIDE DEF budget, task, tombs
<1> QED BY <1>2, <1>3, <1>4, <1>5 DEF Record

\* The budget, the phase and the target can be replaced on their own.
LEMMA FieldTypes ==
  ASSUME NEW r \in Record, NEW b \in Budget, NEW phase \in Phases, NEW target \in Nat
  PROVE  /\ [r EXCEPT !.budget = b] \in Record
         /\ [r EXCEPT !.phase = phase] \in Record
         /\ [r EXCEPT !.target = target] \in Record
BY DEF Record

\* A new run starts well formed (record.ts initialRunRecord).
LEMMA InitialTypes ==
  ASSUME NEW target \in Nat
  PROVE  InitialRecord(target) \in Record
<1>1. Absent \in TaskRecord
  BY DEF Absent, TaskRecord
<1>2. [t \in Tasks |-> Absent] \in [Tasks -> TaskRecord]
  BY <1>1
<1>3. <<>> \in Seq(Row)
  OBVIOUS
<1> QED BY <1>2, <1>3 DEF InitialRecord, Record, Budget, Phases

\* Every operation of the work service, whatever it is asked and in whatever order
\* callers come, leaves a record its schema accepts; no balance goes negative
\* (record.ts runRecordSchema, budgetSchema).
THEOREM TypeCorrect == Spec => []TypeOK
<1>1. Init => TypeOK
  BY InitialTypes, LedgerAssumption DEF Init, TypeOK
<1>2. ASSUME TypeOK, [Next]_vars
      PROVE  TypeOK'
  <2>0. rec \in Record /\ rec.budget \in Budget /\ rec.phase \in Phases
    BY <1>2 DEF TypeOK, Record
  <2>1. ASSUME NEW t \in Tasks, NEW c \in Children, NEW cost \in Costs,
               SubmitReady(t, c, cost) \/ Admit(t, c, cost)
        PROVE  TypeOK'
    BY <1>2, <2>0, <2>1, WithRowTypes, AdmittedTypes DEF SubmitReady, Admit, TypeOK
  <2>2. ASSUME NEW t \in Tasks, ClearReady(t)
        PROVE  TypeOK'
    BY <1>2, <2>0, <2>2, WithoutRowTypes DEF ClearReady, TypeOK
  <2>3. ASSUME NEW t \in Tasks, NEW to \in States, NEW spent \in Charges \cup {0},
               Transition(t, to, ReleasesByDefault(to), spent)
        PROVE  TypeOK'
    <3>1. spent \in Nat /\ ReleasesByDefault(to) \in BOOLEAN
      BY LedgerAssumption DEF ReleasesByDefault
    <3> QED BY <1>2, <2>0, <2>3, <3>1, TransitionedTypes DEF Transition, TypeOK
  <2>4. ASSUME NEW t \in Tasks, NEW actual \in Charges, RetainUnknown(t, actual)
        PROVE  TypeOK'
    <3> DEFINE amount == Least(actual, rec.tasks[t].cost)
    <3>1. amount \in Nat
      BY <2>0, LedgerAssumption DEF Least, Record, TaskRecord
    <3> HIDE DEF amount
    <3>2. RetainAsUnknown(rec.budget, amount) \in Budget
      BY <2>0, <3>1, BudgetTypes
    <3>3. rec' = [rec EXCEPT !.budget = RetainAsUnknown(rec.budget, amount)]
      BY <2>4 DEF RetainUnknown, amount
    <3> QED BY <1>2, <2>0, <2>4, <3>2, <3>3, FieldTypes DEF RetainUnknown, TypeOK
  <2>5. ASSUME NEW t \in Tasks, NEW actual \in Charges, NEW release \in Releases,
               RecordSpend(t, release, actual)
        PROVE  TypeOK'
    <3> DEFINE cost == rec.tasks[t].cost
               releasing == IF release THEN cost ELSE 0
    <3>1. cost \in Nat /\ releasing \in Nat /\ actual \in Nat
      BY <2>0, LedgerAssumption DEF Record, TaskRecord
    <3>2. rec' = [rec EXCEPT !.budget = ApplySpend(rec.budget, releasing, cost, actual)]
      BY <2>5 DEF RecordSpend
    <3> HIDE DEF cost, releasing
    <3>3. ApplySpend(rec.budget, releasing, cost, actual) \in Budget
      BY <2>0, <3>1, BudgetTypes
    <3> QED BY <1>2, <2>0, <2>5, <3>2, <3>3, FieldTypes DEF RecordSpend, TypeOK
  <2>6. ASSUME NEW actual \in Charges, SpendRoot(actual) \/ RetainAuxiliaryUnknown(actual)
        PROVE  TypeOK'
    <3>1. actual \in Nat
      BY LedgerAssumption
    <3>2. /\ SpendFromRoot(rec.budget, actual) \in Budget
          /\ HoldUnknown(rec.budget, actual) \in Budget
      BY <2>0, <3>1, BudgetTypes
    <3> QED BY <1>2, <2>0, <2>6, <3>2, FieldTypes
            DEF SpendRoot, RetainAuxiliaryUnknown, TypeOK
  <2>7. ASSUME NEW actual \in Charges, NEW covering \in Costs,
               RecordAuxiliarySpend(covering, actual)
        PROVE  TypeOK'
    <3>1. actual \in Nat /\ covering \in Nat /\ 0 \in Nat
      BY LedgerAssumption, CostAssumption
    <3>2. ApplySpend(rec.budget, 0, covering, actual) \in Budget
      BY <2>0, <3>1, BudgetTypes
    <3> QED BY <1>2, <2>0, <2>7, <3>2, FieldTypes DEF RecordAuxiliarySpend, TypeOK
  <2>8. CASE BeginClosing \/ Pause \/ Resume
    <3>1. PICK phase \in Phases : rec' = [rec EXCEPT !.phase = phase]
      BY <2>0, <2>8 DEF BeginClosing, Pause, Resume, Phases
    <3> QED BY <1>2, <2>0, <2>8, <3>1, FieldTypes DEF BeginClosing, Pause, Resume, TypeOK
  <2>9. CASE ResolveHalt
    <3>1. [rec.budget EXCEPT !.halted = FALSE] \in Budget
      BY <2>0 DEF Budget
    <3>2. rec' = [rec EXCEPT !.budget = [rec.budget EXCEPT !.halted = FALSE]]
      BY <2>9 DEF ResolveHalt
    <3> QED BY <1>2, <2>0, <2>9, <3>1, <3>2, FieldTypes DEF ResolveHalt, TypeOK
  <2>10. ASSUME NEW target \in Targets, SetTargetChildren(target)
         PROVE  TypeOK'
    BY <1>2, <2>0, <2>10, FieldTypes, LedgerAssumption DEF SetTargetChildren, TypeOK
  <2>11. CASE UNCHANGED vars
    BY <1>2, <2>11 DEF vars, TypeOK
  <2> QED BY <1>2, <2>1, <2>2, <2>3, <2>4, <2>5, <2>6, <2>7, <2>8, <2>9, <2>10, <2>11
          DEF Next, TaskStep, Human
<1> QED BY <1>1, <1>2, PTL DEF Spec

------------------------------------------------------------------------------

\* Only an admission or a transition touches a task's record or its tombstone;
\* every other operation is about the phase, the target, the rows or the budget.
LEMMA StepShape ==
  ASSUME TypeOK, [Next]_vars
  PROVE  \/ rec'.tasks = rec.tasks /\ rec'.tombstones = rec.tombstones
         \/ \E t \in Tasks, c \in Children, cost \in Costs : Admit(t, c, cost)
         \/ \E t \in Tasks, to \in States, spent \in Charges \cup {0} :
               Transition(t, to, ReleasesByDefault(to), spent)
<1> DEFINE Framed == rec'.tasks = rec.tasks /\ rec'.tombstones = rec.tombstones
<1>0. rec \in Record
  BY DEF TypeOK
<1>1. ASSUME NEW t \in Tasks, NEW c \in Children, NEW cost \in Costs, SubmitReady(t, c, cost)
      PROVE  Framed
  BY <1>0, <1>1 DEF SubmitReady, WithRow, Record
<1>2. ASSUME NEW t \in Tasks, ClearReady(t)
      PROVE  Framed
  BY <1>0, <1>2 DEF ClearReady, WithoutRow, Record
<1>3. ASSUME NEW t \in Tasks, NEW actual \in Charges,
             \/ RetainUnknown(t, actual)
             \/ \E release \in Releases : RecordSpend(t, release, actual)
      PROVE  Framed
  <2>1. PICK b : rec' = [rec EXCEPT !.budget = b]
    BY <1>3 DEF RetainUnknown, RecordSpend
  <2> QED BY <1>0, <2>1 DEF Record
<1>4. ASSUME NEW actual \in Charges,
             \/ SpendRoot(actual) \/ RetainAuxiliaryUnknown(actual)
             \/ \E covering \in Costs : RecordAuxiliarySpend(covering, actual)
      PROVE  Framed
  <2>1. PICK b : rec' = [rec EXCEPT !.budget = b]
    BY <1>4 DEF SpendRoot, RetainAuxiliaryUnknown, RecordAuxiliarySpend
  <2> QED BY <1>0, <2>1 DEF Record
<1>5. CASE BeginClosing \/ Human
  BY <1>0, <1>5 DEF BeginClosing, Human, ResolveHalt, SetTargetChildren, Pause, Resume, Record
<1>6. CASE UNCHANGED vars
  BY <1>6 DEF vars
<1> QED BY <1>1, <1>2, <1>3, <1>4, <1>5, <1>6 DEF Next, TaskStep

\* What an admission does to the tasks, and what it needed to be allowed.
LEMMA AdmitShape ==
  ASSUME TypeOK, NEW t \in Tasks, NEW c \in Children, NEW cost \in Costs, Admit(t, c, cost)
  PROVE  /\ rec.phase = "open" /\ t \notin rec.tombstones
         /\ ~HoldsSlot(rec.tasks[t].state) /\ ~(HeldSlots(rec) >= rec.target)
         /\ rec'.tasks[t].state = "prepared"
         /\ \A u \in Tasks \ {t} : rec'.tasks[u] = rec.tasks[u]
         /\ rec'.tombstones = rec.tombstones /\ rec'.target = rec.target
<1>1. rec \in Record
  BY DEF TypeOK
<1>2. Refusal(rec, t, cost) = "admit" /\ rec' = Admitted(rec, t, c, cost)
  BY DEF Admit
<1>3. /\ rec.phase = "open" /\ t \notin rec.tombstones
      /\ ~HoldsSlot(rec.tasks[t].state) /\ ~(HeldSlots(rec) >= rec.target)
  BY <1>2 DEF Refusal
<1> QED BY <1>1, <1>2, <1>3 DEF Admitted, Record

\* What a transition does to the tasks, and between which states.
LEMMA TransitionShape ==
  ASSUME TypeOK, NEW t \in Tasks, NEW to \in States, NEW release, NEW spent,
         Transition(t, to, release, spent)
  PROVE  /\ CanTransition(rec.tasks[t].state, to)
         /\ rec'.tasks[t].state = to
         /\ \A u \in Tasks \ {t} : rec'.tasks[u] = rec.tasks[u]
         /\ rec'.tombstones = IF to \in TerminalStates THEN rec.tombstones \cup {t}
                              ELSE rec.tombstones
<1>1. rec \in Record /\ rec.tasks[t] \in TaskRecord
  BY DEF TypeOK, Record
<1>2. /\ CanTransition(rec.tasks[t].state, to)
      /\ rec' = Transitioned(rec, t, to, release, spent)
  BY DEF Transition
<1> DEFINE cost == rec.tasks[t].cost
           budget == IF spent = 0
                     THEN [rec.budget EXCEPT !.reserved = IF release THEN Most(0, @ - cost) ELSE @]
                     ELSE ApplySpend(rec.budget, IF release THEN cost ELSE 0, cost, spent)
           task == [rec.tasks[t] EXCEPT !.state = to]
           tombs == IF to \in TerminalStates THEN rec.tombstones \cup {t} ELSE rec.tombstones
<1>3. rec' = [rec EXCEPT !.tasks[t] = task, !.budget = budget, !.tombstones = tombs]
  BY <1>1, <1>2 DEF Transitioned, Record, TaskRecord
<1>4. task.state = to
  BY <1>1 DEF TaskRecord
<1> HIDE DEF budget, task
<1> QED BY <1>1, <1>2, <1>3, <1>4 DEF Record

\* The tombstones agree with the final states after every operation: this is what
\* lets tryReserveAdmission refuse a closed task by its tombstone alone.
LEMMA TombstoneStep ==
  ASSUME TypeOK, TombstonesAreTerminal, [Next]_vars
  PROVE  TombstonesAreTerminal'
<1>1. CASE rec'.tasks = rec.tasks /\ rec'.tombstones = rec.tombstones
  BY <1>1 DEF TombstonesAreTerminal
<1>2. ASSUME NEW t \in Tasks, NEW c \in Children, NEW cost \in Costs, Admit(t, c, cost)
      PROVE  TombstonesAreTerminal'
  <2>1. "prepared" \notin TerminalStates
    BY DEF TerminalStates
  <2>2. t \notin rec.tombstones /\ rec'.tombstones = rec.tombstones
    BY <1>2, AdmitShape
  <2>3. rec'.tasks[t].state \notin TerminalStates
    BY <1>2, <2>1, AdmitShape
  <2>4. \A u \in Tasks \ {t} : rec'.tasks[u] = rec.tasks[u]
    BY <1>2, AdmitShape
  <2> QED BY <2>2, <2>3, <2>4 DEF TombstonesAreTerminal
<1>3. ASSUME NEW t \in Tasks, NEW to \in States, NEW spent \in Charges \cup {0},
             Transition(t, to, ReleasesByDefault(to), spent)
      PROVE  TombstonesAreTerminal'
  <2>1. rec.tasks[t].state \notin TerminalStates
    BY <1>3, TransitionShape, TransitionStates
  <2>2. /\ rec'.tasks[t].state = to
        /\ \A u \in Tasks \ {t} : rec'.tasks[u] = rec.tasks[u]
    BY <1>3, TransitionShape
  <2>3. CASE to \in TerminalStates
    <3>1. rec'.tombstones = rec.tombstones \cup {t}
      BY <1>3, <2>3, TransitionShape
    <3> QED BY <2>2, <2>3, <3>1 DEF TombstonesAreTerminal
  <2>4. CASE to \notin TerminalStates
    <3>1. rec'.tombstones = rec.tombstones
      BY <1>3, <2>4, TransitionShape
    <3> QED BY <2>1, <2>2, <2>4, <3>1 DEF TombstonesAreTerminal
  <2> QED BY <2>3, <2>4
<1> QED BY <1>1, <1>2, <1>3, StepShape

\* No path through the work service reaches or leaves a final state without its
\* tombstone (host.ts transition and tryReserveAdmission).
THEOREM TombstonesMatch == Spec => []TombstonesAreTerminal
<1>1. Init => TombstonesAreTerminal
  BY DEF Init, InitialRecord, Absent, TombstonesAreTerminal, TerminalStates
<1>2. TypeOK /\ TombstonesAreTerminal /\ [Next]_vars => TombstonesAreTerminal'
  BY TombstoneStep
<1> QED BY <1>1, <1>2, TypeCorrect, PTL DEF Spec

\* A confirmed or cancelled task keeps its record for ever: a retry, a late
\* completion, a charge and a human all leave it alone.
THEOREM ClosedForever == Spec => ClosedTasksStayClosed
<1>1. ASSUME TypeOK, TombstonesAreTerminal, [Next]_vars, NEW u \in rec.tombstones
      PROVE  rec'.tasks[u] = rec.tasks[u]
  <2>0. u \in Tasks /\ rec.tasks[u].state \in TerminalStates
    BY <1>1 DEF TombstonesAreTerminal
  <2>1. ASSUME NEW t \in Tasks, NEW c \in Children, NEW cost \in Costs, Admit(t, c, cost)
        PROVE  rec'.tasks[u] = rec.tasks[u]
    BY <1>1, <2>0, <2>1, AdmitShape
  <2>2. ASSUME NEW t \in Tasks, NEW to \in States, NEW spent \in Charges \cup {0},
               Transition(t, to, ReleasesByDefault(to), spent)
        PROVE  rec'.tasks[u] = rec.tasks[u]
    BY <1>1, <2>0, <2>2, TransitionShape, TransitionStates
  <2> QED BY <1>1, <2>1, <2>2, StepShape
<1>2. TypeOK /\ TombstonesAreTerminal /\ [Next]_vars
        => [\A t \in rec.tombstones : rec'.tasks[t] = rec.tasks[t]]_vars
  BY <1>1
<1> QED BY <1>2, TypeCorrect, TombstonesMatch, PTL DEF Spec, ClosedTasksStayClosed

\* Occupancy rises only by an admission within the target, or when a finished
\* task's outcome is put in doubt (INV-C1; counting.ts heldSlots).
THEOREM HeldWithinTarget == Spec => HeldRisesOnlyWithinTarget
<1>1. ASSUME TypeOK, [Next]_vars, HeldSlots(rec') > HeldSlots(rec)
      PROVE  \/ HeldSlots(rec') <= rec'.target /\ rec.phase = "open"
             \/ \E t \in Tasks : rec.tasks[t].state = "completed" /\ rec'.tasks[t].state = "unknown"
  <2>1. /\ IsFiniteSet(Held(rec)) /\ IsFiniteSet(Held(rec'))
        /\ HeldSlots(rec) \in Nat /\ HeldSlots(rec') \in Nat
    <3>1. Held(rec) \subseteq Tasks /\ Held(rec') \subseteq Tasks
      BY DEF Held
    <3> QED BY <3>1, TaskAssumption, FS_Subset, FS_CardinalityType DEF HeldSlots
  <2>2. CASE rec'.tasks = rec.tasks /\ rec'.tombstones = rec.tombstones
    <3>1. Held(rec') = Held(rec)
      BY <2>2 DEF Held
    <3> QED BY <1>1, <2>1, <3>1 DEF HeldSlots
  <2>3. ASSUME NEW t \in Tasks, NEW c \in Children, NEW cost \in Costs, Admit(t, c, cost)
        PROVE  HeldSlots(rec') <= rec'.target /\ rec.phase = "open"
    <3>1. /\ rec.phase = "open" /\ rec'.target = rec.target
          /\ ~(HeldSlots(rec) >= rec.target) /\ rec.target \in Nat
      BY <1>1, <2>3, AdmitShape DEF TypeOK, Record
    <3>2. t \notin Held(rec) /\ Held(rec') = Held(rec) \cup {t}
      BY <1>1, <2>3, AdmitShape DEF Held, HoldsSlot, SlotHoldingStates, States
    <3>3. HeldSlots(rec') = HeldSlots(rec) + 1
      BY <2>1, <3>2, FS_AddElement DEF HeldSlots
    <3> QED BY <2>1, <3>1, <3>3
  <2>4. ASSUME NEW t \in Tasks, NEW to \in States, NEW spent \in Charges \cup {0},
               Transition(t, to, ReleasesByDefault(to), spent)
        PROVE  rec.tasks[t].state = "completed" /\ rec'.tasks[t].state = "unknown"
    <3>1. CASE HoldsSlot(rec.tasks[t].state)
      <4>1. Held(rec') \subseteq Held(rec)
        BY <1>1, <2>4, <3>1, TransitionShape DEF Held
      <4>2. HeldSlots(rec') <= HeldSlots(rec)
        BY <2>1, <4>1, FS_Subset DEF HeldSlots
      <4> QED BY <1>1, <2>1, <4>2
    <3>2. CASE ~HoldsSlot(rec.tasks[t].state)
      <4>1. rec.tasks[t].state = "completed"
        BY <1>1, <2>4, <3>2, TransitionShape, TransitionStates
           DEF HoldsSlot, SlotHoldingStates, TerminalStates
      <4>2. to \in {"confirmed", "unknown", "cancelled"}
        BY <1>1, <2>4, <4>1, TransitionShape DEF CanTransition, Transitions, Unfinished
      <4>3. ASSUME to # "unknown" PROVE FALSE
        <5>1. ~HoldsSlot(to)
          BY <4>2, <4>3 DEF HoldsSlot, SlotHoldingStates, States
        <5>2. Held(rec') \subseteq Held(rec)
          BY <1>1, <2>4, <5>1, TransitionShape DEF Held
        <5>3. HeldSlots(rec') <= HeldSlots(rec)
          BY <2>1, <5>2, FS_Subset DEF HeldSlots
        <5> QED BY <1>1, <2>1, <5>3
      <4> QED BY <1>1, <2>4, <4>1, <4>3, TransitionShape
    <3> QED BY <3>1, <3>2
  <2> QED BY <1>1, <2>2, <2>3, <2>4, StepShape
<1>2. TypeOK /\ [Next]_vars
        => [HeldSlots(rec') > HeldSlots(rec) =>
              \/ HeldSlots(rec') <= rec'.target /\ rec.phase = "open"
              \/ \E t \in Tasks : rec.tasks[t].state = "completed"
                                  /\ rec'.tasks[t].state = "unknown"]_vars
  BY <1>1
<1> QED BY <1>2, TypeCorrect, PTL DEF Spec, HeldRisesOnlyWithinTarget

------------------------------------------------------------------------------
(* The units reserved for a set of tasks. *)

UnitsOf(r, t) == {t} \X (1..r.tasks[t].cost)

\* A task's own units are as many as its reservation.
LEMMA OneTask ==
  ASSUME NEW r \in Record, NEW t \in Tasks
  PROVE  /\ IsFiniteSet(UnitsOf(r, t)) /\ Cardinality(UnitsOf(r, t)) = r.tasks[t].cost
         /\ r.tasks[t].cost \in Nat
<1> DEFINE cost == r.tasks[t].cost
<1>1. cost \in Nat
  BY DEF Record, TaskRecord
<1> HIDE DEF cost
<1>2. IsFiniteSet({t}) /\ Cardinality({t}) = 1
  BY FS_Singleton
<1>3. IsFiniteSet(1..cost) /\ Cardinality(1..cost) = cost
  BY <1>1, FS_Interval
<1>4. /\ IsFiniteSet({t} \X (1..cost))
      /\ Cardinality({t} \X (1..cost)) = Cardinality({t}) * Cardinality(1..cost)
  BY <1>2, <1>3, FS_Product
<1> QED BY <1>1, <1>2, <1>3, <1>4 DEF UnitsOf, cost

LEMMA UnitsFinite ==
  ASSUME NEW r \in Record, NEW S \in SUBSET Tasks
  PROVE  IsFiniteSet(Units(r, S)) /\ Cardinality(Units(r, S)) \in Nat
<1> DEFINE T == {UnitsOf(r, t) : t \in S}
           f == [t \in S |-> UnitsOf(r, t)]
<1>1. IsFiniteSet(S)
  BY TaskAssumption, FS_Subset
<1>2. f \in Surjection(S, T)
  BY DEF Surjection
<1>3. IsFiniteSet(T)
  BY <1>1, <1>2, FS_Surjection
<1>4. \A U \in T : IsFiniteSet(U)
  BY OneTask
<1>5. Units(r, S) = UNION T
  BY DEF Units, UnitsOf
<1>6. IsFiniteSet(Units(r, S))
  BY <1>3, <1>4, <1>5, FS_UNION
<1> QED BY <1>6, FS_CardinalityType

\* Another task adds its own reservation.
LEMMA UnitsAdded ==
  ASSUME NEW r \in Record, NEW S \in SUBSET Tasks, NEW t \in Tasks \ S
  PROVE  Cardinality(Units(r, S \cup {t})) = Cardinality(Units(r, S)) + r.tasks[t].cost
<1>1. Units(r, S \cup {t}) = Units(r, S) \cup UnitsOf(r, t)
  BY DEF Units, UnitsOf
<1>2. Units(r, S) \cap UnitsOf(r, t) = {}
  BY DEF Units, UnitsOf
<1>3. Cardinality({}) = 0
  BY FS_EmptySet
<1>4. /\ IsFiniteSet(Units(r, S)) /\ Cardinality(Units(r, S)) \in Nat
      /\ IsFiniteSet(UnitsOf(r, t)) /\ Cardinality(UnitsOf(r, t)) = r.tasks[t].cost
      /\ r.tasks[t].cost \in Nat
  BY UnitsFinite, OneTask
<1>5. Cardinality(Units(r, S) \cup UnitsOf(r, t)) =
        Cardinality(Units(r, S)) + Cardinality(UnitsOf(r, t))
          - Cardinality(Units(r, S) \cap UnitsOf(r, t))
  BY <1>4, FS_Union
<1>6. Cardinality(Units(r, S) \cap UnitsOf(r, t)) = 0
  BY <1>2, <1>3
<1>7. Cardinality(Units(r, S) \cup UnitsOf(r, t)) = Cardinality(Units(r, S)) + r.tasks[t].cost
  BY <1>4, <1>5, <1>6
<1> QED BY <1>1, <1>7

\* More tasks never reserve less.
LEMMA UnitsGrow ==
  ASSUME NEW r \in Record, NEW T \in SUBSET Tasks, NEW S \in SUBSET T
  PROVE  Cardinality(Units(r, S)) <= Cardinality(Units(r, T))
<1>1. Units(r, S) \subseteq Units(r, T)
  BY DEF Units
<1> QED BY <1>1, UnitsFinite, FS_Subset

\* Only the reservations of the tasks counted matter.
LEMMA UnitsSame ==
  ASSUME NEW r, NEW q, NEW S, \A t \in S : q.tasks[t].cost = r.tasks[t].cost
  PROVE  Units(q, S) = Units(r, S)
BY DEF Units

------------------------------------------------------------------------------
(* The books cover every task that is not closed. *)

Open(r) == {t \in Tasks : r.tasks[t].state \notin TerminalStates}
Covered(b) == b.reserved + b.unknownReserved

\* HeldWorkIsReserved alone is not inductive: a completed task whose outcome is put in
\* doubt holds its slot again, so its reservation must still be there.
OpenWorkIsReserved == EstimateOf(Open(rec)) <= Covered(rec.budget)

\* A charge that releases nothing, a retention, a charge to the root and a human's
\* decision on a halt leave at least as much on the books.
LEMMA BudgetCovers ==
  ASSUME NEW b \in Budget, NEW amount \in Nat, NEW covering \in Nat
  PROVE  /\ Covered(ApplySpend(b, 0, covering, amount)) = Covered(b)
         /\ Covered(RetainAsUnknown(b, amount)) = Covered(b)
         /\ Covered(HoldUnknown(b, amount)) >= Covered(b)
         /\ Covered(SpendFromRoot(b, amount)) = Covered(b)
         /\ Covered([b EXCEPT !.halted = FALSE]) = Covered(b)
<1>1. b.reserved \in Nat /\ b.unknownReserved \in Nat /\ Least(b.reserved, 0) = 0
  BY DEF Budget, Least
<1>2. Covered(ApplySpend(b, 0, covering, amount)) = Covered(b)
  BY <1>1 DEF ApplySpend, Covered, Budget
<1>3. Covered(RetainAsUnknown(b, amount)) = Covered(b)
  <2> DEFINE moved == Least(b.reserved, amount)
  <2>1. moved \in Nat
    BY <1>1 DEF Least
  <2>2. RetainAsUnknown(b, amount) =
          [b EXCEPT !.reserved = @ - moved, !.unknownReserved = @ + moved]
    BY DEF RetainAsUnknown
  <2> HIDE DEF moved
  <2>3. /\ RetainAsUnknown(b, amount).reserved = b.reserved - moved
        /\ RetainAsUnknown(b, amount).unknownReserved = b.unknownReserved + moved
    BY <2>2 DEF Budget
  <2> QED BY <1>1, <2>1, <2>3 DEF Covered
<1>4. /\ Covered(HoldUnknown(b, amount)) >= Covered(b)
      /\ Covered(SpendFromRoot(b, amount)) = Covered(b)
      /\ Covered([b EXCEPT !.halted = FALSE]) = Covered(b)
  BY <1>1 DEF HoldUnknown, SpendFromRoot, Covered, Budget
<1> QED BY <1>2, <1>3, <1>4

\* What a step that touches no task does to the books.
LEMMA BooksKept ==
  ASSUME TypeOK, [Next]_vars, Releases \subseteq {FALSE},
         ~\E t \in Tasks, c \in Children, cost \in Costs : Admit(t, c, cost),
         ~\E t \in Tasks, to \in States, spent \in Charges \cup {0} :
             Transition(t, to, ReleasesByDefault(to), spent)
  PROVE  Covered(rec'.budget) >= Covered(rec.budget)
<1>0. rec \in Record /\ rec.budget \in Budget
  BY DEF TypeOK, Record
<1>1. Covered(rec.budget) \in Nat
  BY <1>0 DEF Covered, Budget
<1>2. ASSUME NEW b, rec' = [rec EXCEPT !.budget = b], Covered(b) >= Covered(rec.budget)
      PROVE  Covered(rec'.budget) >= Covered(rec.budget)
  BY <1>0, <1>2 DEF Record
<1>3. CASE rec'.budget = rec.budget
  BY <1>1, <1>3
<1>4. ASSUME NEW t \in Tasks, NEW c \in Children, NEW cost \in Costs, SubmitReady(t, c, cost)
      PROVE  rec'.budget = rec.budget
  BY <1>0, <1>4 DEF SubmitReady, WithRow, Record
<1>5. ASSUME NEW t \in Tasks, ClearReady(t)
      PROVE  rec'.budget = rec.budget
  BY <1>0, <1>5 DEF ClearReady, WithoutRow, Record
<1>6. ASSUME NEW t \in Tasks, NEW actual \in Charges, RetainUnknown(t, actual)
      PROVE  Covered(rec'.budget) >= Covered(rec.budget)
  <2> DEFINE amount == Least(actual, rec.tasks[t].cost)
  <2>1. amount \in Nat
    BY <1>0, LedgerAssumption DEF Least, Record, TaskRecord
  <2>2. rec' = [rec EXCEPT !.budget = RetainAsUnknown(rec.budget, amount)]
    BY <1>6 DEF RetainUnknown
  <2> HIDE DEF amount
  <2>3. Covered(RetainAsUnknown(rec.budget, amount)) = Covered(rec.budget)
    BY <1>0, <2>1, BudgetCovers
  <2> QED BY <1>1, <1>2, <2>2, <2>3
<1>7. ASSUME NEW t \in Tasks, NEW actual \in Charges, RecordSpend(t, FALSE, actual)
      PROVE  Covered(rec'.budget) >= Covered(rec.budget)
  <2> DEFINE cost == rec.tasks[t].cost
  <2>1. cost \in Nat /\ actual \in Nat
    BY <1>0, LedgerAssumption DEF Record, TaskRecord
  <2>2. rec' = [rec EXCEPT !.budget = ApplySpend(rec.budget, 0, cost, actual)]
    BY <1>7 DEF RecordSpend
  <2> HIDE DEF cost
  <2>3. Covered(ApplySpend(rec.budget, 0, cost, actual)) = Covered(rec.budget)
    BY <1>0, <2>1, BudgetCovers
  <2> QED BY <1>1, <1>2, <2>2, <2>3
<1>8. ASSUME NEW actual \in Charges, SpendRoot(actual) \/ RetainAuxiliaryUnknown(actual)
      PROVE  Covered(rec'.budget) >= Covered(rec.budget)
  <2>1. actual \in Nat
    BY LedgerAssumption
  <2>2. \/ rec' = [rec EXCEPT !.budget = SpendFromRoot(rec.budget, actual)]
        \/ rec' = [rec EXCEPT !.budget = HoldUnknown(rec.budget, actual)]
    BY <1>8 DEF SpendRoot, RetainAuxiliaryUnknown
  <2>3. /\ Covered(SpendFromRoot(rec.budget, actual)) = Covered(rec.budget)
        /\ Covered(HoldUnknown(rec.budget, actual)) >= Covered(rec.budget)
    BY <1>0, <2>1, BudgetCovers
  <2> QED BY <1>1, <1>2, <2>2, <2>3
<1>9. ASSUME NEW actual \in Charges, NEW covering \in Costs,
             RecordAuxiliarySpend(covering, actual)
      PROVE  Covered(rec'.budget) >= Covered(rec.budget)
  <2>1. actual \in Nat /\ covering \in Nat
    BY LedgerAssumption, CostAssumption
  <2>2. rec' = [rec EXCEPT !.budget = ApplySpend(rec.budget, 0, covering, actual)]
    BY <1>9 DEF RecordAuxiliarySpend
  <2>3. Covered(ApplySpend(rec.budget, 0, covering, actual)) = Covered(rec.budget)
    BY <1>0, <2>1, BudgetCovers
  <2> QED BY <1>1, <1>2, <2>2, <2>3
<1>10. CASE ResolveHalt
  <2>1. rec' = [rec EXCEPT !.budget = [rec.budget EXCEPT !.halted = FALSE]]
    BY <1>0, <1>10 DEF ResolveHalt, Record
  <2>2. Covered([rec.budget EXCEPT !.halted = FALSE]) = Covered(rec.budget)
    BY <1>0, BudgetCovers
  <2> QED BY <1>1, <1>2, <2>1, <2>2
<1>11. CASE BeginClosing \/ Pause \/ Resume \/ \E target \in Targets : SetTargetChildren(target)
  BY <1>0, <1>3, <1>11 DEF BeginClosing, Pause, Resume, SetTargetChildren, Record
<1>12. CASE UNCHANGED vars
  BY <1>3, <1>12 DEF vars
<1>13. \A release \in Releases : release = FALSE
  OBVIOUS
<1> QED BY <1>3, <1>4, <1>5, <1>6, <1>7, <1>8, <1>9, <1>10, <1>11, <1>12, <1>13
        DEF Next, TaskStep, Human

\* An admission adds its reservation to the books and to what they must cover.
LEMMA AdmitCovered ==
  ASSUME TypeOK, OpenWorkIsReserved, NEW t \in Tasks, NEW c \in Children, NEW cost \in Costs,
         Admit(t, c, cost), TypeOK'
  PROVE  OpenWorkIsReserved'
<1> DEFINE S == Open(rec) \ {t}
<1>1. /\ rec \in Record /\ rec' \in Record /\ rec' = Admitted(rec, t, c, cost)
      /\ cost \in Nat /\ rec.budget \in Budget /\ S \in SUBSET Tasks
      /\ S \in SUBSET Open(rec) /\ Open(rec) \in SUBSET Tasks
  BY CostAssumption DEF TypeOK, Admit, Record, Open
<1>2. /\ rec'.tasks[t].state = "prepared" /\ rec'.tasks[t].cost = cost
      /\ \A u \in Tasks \ {t} : rec'.tasks[u] = rec.tasks[u]
  BY <1>1 DEF Admitted, Record
<1>7. /\ Covered(rec'.budget) = Covered(rec.budget) + cost
      /\ Covered(rec.budget) \in Nat
  <2>1. rec'.budget = [rec.budget EXCEPT !.reserved = @ + cost]
    BY <1>1 DEF Admitted, Record
  <2> QED BY <1>1, <2>1 DEF Covered, Budget
<1>3. Open(rec') = S \cup {t}
  BY <1>2 DEF Open, TerminalStates
<1>4. Units(rec', S) = Units(rec, S)
  BY <1>1, <1>2, UnitsSame
<1>5. Cardinality(Units(rec', S \cup {t})) = Cardinality(Units(rec, S)) + cost
  <2>1. t \in Tasks \ S
    OBVIOUS
  <2> HIDE DEF S
  <2>2. Cardinality(Units(rec', S \cup {t})) = Cardinality(Units(rec', S)) + rec'.tasks[t].cost
    BY <1>1, <2>1, UnitsAdded
  <2> QED BY <1>2, <1>4, <2>2
<1>6. /\ Cardinality(Units(rec, S)) <= Cardinality(Units(rec, Open(rec)))
      /\ Cardinality(Units(rec, S)) \in Nat /\ Cardinality(Units(rec, Open(rec))) \in Nat
  BY <1>1, UnitsGrow, UnitsFinite
<1> HIDE DEF S
<1> QED BY <1>1, <1>3, <1>5, <1>6, <1>7 DEF OpenWorkIsReserved, EstimateOf

\* A transition releases a reservation only with the task it closes.
LEMMA TransitionCovered ==
  ASSUME TypeOK, OpenWorkIsReserved, NEW t \in Tasks, NEW to \in States,
         NEW spent \in Charges \cup {0}, Transition(t, to, ReleasesByDefault(to), spent), TypeOK'
  PROVE  OpenWorkIsReserved'
<1> DEFINE S == Open(rec) \ {t}
           cost == rec.tasks[t].cost
<1>1. /\ rec \in Record /\ rec' \in Record /\ cost \in Nat /\ spent \in Nat
      /\ rec.budget \in Budget /\ rec'.budget \in Budget
      /\ S \in SUBSET Tasks /\ Open(rec) \in SUBSET Tasks
  BY LedgerAssumption DEF TypeOK, Record, TaskRecord, Open
<1>2. /\ t \in Open(rec) /\ \A u \in Tasks : rec'.tasks[u].cost = rec.tasks[u].cost
      /\ Open(rec') = IF to \in TerminalStates THEN S ELSE Open(rec)
  <2>1. /\ rec.tasks[t].state \notin TerminalStates /\ rec'.tasks[t].state = to
        /\ \A u \in Tasks \ {t} : rec'.tasks[u] = rec.tasks[u]
    BY TransitionShape, TransitionStates
  <2>2. rec'.tasks[t].cost = cost
    BY <1>1 DEF Transition, Transitioned, Record, TaskRecord
  <2> QED BY <2>1, <2>2 DEF Open
<1>3. /\ Covered(rec.budget) \in Nat /\ Covered(rec'.budget) \in Nat
      /\ to \in TerminalStates => Covered(rec'.budget) >= Covered(rec.budget) - cost
      /\ to \notin TerminalStates => Covered(rec'.budget) = Covered(rec.budget)
  <2> DEFINE release == ReleasesByDefault(to)
             b == rec.budget
             half == [b EXCEPT !.reserved = IF release THEN Most(0, @ - cost) ELSE @]
             full == ApplySpend(b, IF release THEN cost ELSE 0, cost, spent)
  <2>1. rec'.budget = IF spent = 0 THEN half ELSE full
    BY <1>1 DEF Transition, Transitioned, Record
  <2>2. /\ b.reserved \in Nat /\ b.unknownReserved \in Nat
        /\ rec'.budget.reserved \in Nat /\ rec'.budget.unknownReserved \in Nat
    BY <1>1 DEF Budget
  <2>3. CASE to \in TerminalStates
    <3> DEFINE left == Most(0, b.reserved - cost)
               released == Least(b.reserved, cost)
    <3>0. release
      BY <2>3 DEF ReleasesByDefault
    <3>1. /\ left \in Nat /\ left >= b.reserved - cost
          /\ released \in Nat /\ released <= cost
      BY <1>1, <2>2 DEF Most, Least
    <3>2. half.reserved = left /\ half.unknownReserved = b.unknownReserved
      BY <1>1, <3>0 DEF Budget
    <3>3. full.reserved = b.reserved - released /\ full.unknownReserved = b.unknownReserved
      BY <1>1, <3>0 DEF ApplySpend, Budget
    <3> HIDE DEF left, released, half, full, b, cost
    <3>4. /\ rec'.budget.reserved >= b.reserved - cost
          /\ rec'.budget.unknownReserved = b.unknownReserved
      BY <1>1, <2>1, <2>2, <3>1, <3>2, <3>3
    <3>5. /\ Covered(rec'.budget) = rec'.budget.reserved + rec'.budget.unknownReserved
          /\ Covered(rec.budget) = b.reserved + b.unknownReserved
      BY DEF Covered, b
    <3> QED BY <1>1, <2>2, <2>3, <3>4, <3>5
  <2>4. CASE to \notin TerminalStates
    <3>0. ~release /\ Least(b.reserved, 0) = 0
      BY <2>2, <2>4 DEF ReleasesByDefault, Least
    <3>1. half.reserved = b.reserved /\ half.unknownReserved = b.unknownReserved
      BY <1>1, <3>0 DEF Budget
    <3>2. full.reserved = b.reserved - 0 /\ full.unknownReserved = b.unknownReserved
      BY <1>1, <3>0 DEF ApplySpend, Budget
    <3> HIDE DEF half, full, b, cost
    <3>3. /\ rec'.budget.reserved = b.reserved
          /\ rec'.budget.unknownReserved = b.unknownReserved
      BY <2>1, <2>2, <3>1, <3>2
    <3>4. /\ Covered(rec'.budget) = rec'.budget.reserved + rec'.budget.unknownReserved
          /\ Covered(rec.budget) = b.reserved + b.unknownReserved
      BY DEF Covered, b
    <3> QED BY <2>2, <2>4, <3>3, <3>4
  <2> QED BY <2>3, <2>4
<1>4. /\ Units(rec', S) = Units(rec, S) /\ Units(rec', Open(rec)) = Units(rec, Open(rec))
  BY <1>1, <1>2, UnitsSame
<1>5. /\ Cardinality(Units(rec, S)) \in Nat /\ Cardinality(Units(rec, Open(rec))) \in Nat
      /\ Cardinality(Units(rec, Open(rec))) = Cardinality(Units(rec, S)) + cost
  <2>1. Open(rec) = S \cup {t} /\ t \in Tasks \ S
    BY <1>2
  <2> HIDE DEF S
  <2> QED BY <1>1, <2>1, UnitsAdded, UnitsFinite
<1>6. Cardinality(Units(rec, Open(rec))) <= Covered(rec.budget)
  BY DEF OpenWorkIsReserved, EstimateOf
<1> HIDE DEF S, cost
<1> QED BY <1>1, <1>2, <1>3, <1>4, <1>5, <1>6 DEF OpenWorkIsReserved, EstimateOf

\* Money of a task that still occupies a slot is never handed out again (host.ts
\* transition's release rule, recordSpend, retainUnknown), where no caller asks
\* recordSpend to give a reservation back: none in the repository does.
THEOREM HeldWorkStaysReserved ==
  ASSUME Releases \subseteq {FALSE}
  PROVE  Spec => []HeldWorkIsReserved
<1>1. Init => OpenWorkIsReserved
  <2> SUFFICES ASSUME Init PROVE OpenWorkIsReserved
    OBVIOUS
  <2>1. PICK target \in Targets : rec = InitialRecord(target)
    BY DEF Init
  <2>2. Covered(rec.budget) = 0 /\ \A t \in Tasks : rec.tasks[t].cost = 0
    BY <2>1 DEF InitialRecord, Absent, Covered
  <2>3. Units(rec, Open(rec)) = {}
    BY <2>2 DEF Units, Open
  <2>4. Cardinality({}) = 0
    BY FS_EmptySet
  <2> QED BY <2>2, <2>3, <2>4 DEF OpenWorkIsReserved, EstimateOf
<1>2. ASSUME TypeOK, TypeOK', OpenWorkIsReserved, [Next]_vars
      PROVE  OpenWorkIsReserved'
  <2>1. ASSUME ~\E t \in Tasks, c \in Children, cost \in Costs : Admit(t, c, cost),
               ~\E t \in Tasks, to \in States, spent \in Charges \cup {0} :
                   Transition(t, to, ReleasesByDefault(to), spent)
        PROVE  OpenWorkIsReserved'
    <3>1. rec'.tasks = rec.tasks
      BY <1>2, <2>1, StepShape
    <3>2. Open(rec') = Open(rec) /\ Units(rec', Open(rec)) = Units(rec, Open(rec))
      BY <3>1 DEF Open, Units
    <3>3. Covered(rec'.budget) >= Covered(rec.budget)
      BY <1>2, <2>1, BooksKept
    <3>4. /\ Covered(rec'.budget) \in Nat /\ Covered(rec.budget) \in Nat
          /\ Cardinality(Units(rec, Open(rec))) \in Nat
      <4>1. Open(rec) \in SUBSET Tasks /\ rec \in Record
        BY <1>2 DEF Open, TypeOK
      <4>2. rec'.budget \in Budget /\ rec.budget \in Budget
        BY <1>2 DEF TypeOK, Record
      <4>3. \A b \in Budget : Covered(b) \in Nat
        BY DEF Budget, Covered
      <4> QED BY <4>1, <4>2, <4>3, UnitsFinite
    <3> QED BY <1>2, <3>2, <3>3, <3>4 DEF OpenWorkIsReserved, EstimateOf
  <2> QED BY <1>2, <2>1, AdmitCovered, TransitionCovered
<1>3. TypeOK /\ OpenWorkIsReserved => HeldWorkIsReserved
  <2> SUFFICES ASSUME TypeOK, OpenWorkIsReserved PROVE HeldWorkIsReserved
    OBVIOUS
  <2>1. /\ rec \in Record /\ Open(rec) \in SUBSET Tasks
        /\ Held(rec) \in SUBSET Open(rec) /\ Held(rec) \in SUBSET Tasks
    BY DEF TypeOK, Open, Held, HoldsSlot, SlotHoldingStates, States, TerminalStates
  <2>2. /\ Cardinality(Units(rec, Held(rec))) <= Cardinality(Units(rec, Open(rec)))
        /\ Cardinality(Units(rec, Held(rec))) \in Nat
        /\ Cardinality(Units(rec, Open(rec))) \in Nat
    BY <2>1, UnitsGrow, UnitsFinite
  <2>3. Covered(rec.budget) \in Nat
    BY DEF TypeOK, Record, Budget, Covered
  <2> QED BY <2>2, <2>3 DEF HeldWorkIsReserved, OpenWorkIsReserved, EstimateOf, Covered
<1> QED BY <1>1, <1>2, <1>3, TypeCorrect, PTL DEF Spec
=============================================================================
