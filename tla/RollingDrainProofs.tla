-------------------------- MODULE RollingDrainProofs --------------------------
(***************************************************************************)
(* Theorems about RollingDrain, for every set of runs, tasks and children, *)
(* every capacity, target, ceiling and bound, with faults and restarts.    *)
(***************************************************************************)
EXTENDS RollingDrain, TLAPS, FiniteSetTheorems, SequenceTheorems

------------------------------------------------------------------------------
(* What holds of one run whatever the others do. *)

\* The rows a run's root submits: one name and one reservation for each task.
OwnRow(t) == [task |-> t, child |-> NameOf[t], cost |-> Cost]
OwnRows(r) == {OwnRow(t) : t \in TasksOf[r]}

\* A task is unknown to the run, or it was admitted under its own name.
TaskFits(r, t, task) ==
  \/ task.state = "absent" /\ task.child = NoChild
  \/ /\ task.state \in States /\ task.child = NameOf[t]
     /\ t \in TasksOf[r] /\ task.attempt >= 1

\* No charge is made and nothing is released; every admission took a unit or more.
RecordFits(r, x) ==
  /\ x.ready \in Seq(OwnRows(r)) /\ x.tombstones = {}
  /\ x.budget.spent = 0 /\ x.budget.unknownReserved = 0
  /\ x.budget.overage = 0 /\ x.budget.rootSpent = 0
  /\ x.budget.reserved <= ChildCeiling
  /\ \A t \in Tasks : /\ TaskFits(r, t, x.tasks[t])
                      /\ x.tasks[t].attempt <= x.budget.reserved

Leader == [pc : {"idle", "entry", "row", "reserve", "admitting", "drop",
                 "retire", "write", "sync", "launch", "launched"},
           pending : 0..MaxWakes, batch : 0..MaxWakes, queue : Seq(Row), to : States]

WithRequest == {"reserve", "admitting", "drop", "retire", "write", "sync",
                "launch", "launched"}
AfterAdmission == {"drop", "retire", "write", "sync", "launch", "launched"}

\* The leader has a request in hand where it needs one; once past the admission, or
\* sent to drop the row, the run knows the task; the admission it is writing is still
\* one the record has no objection to.
LeaderFits(r, x, d) ==
  /\ d.queue \in Seq(OwnRows(r))
  /\ d.pc \in WithRequest => d.queue # <<>>
  /\ d.pc \in AfterAdmission => Present(x, Head(d.queue).task)
  /\ d.pc \in {"write", "sync"} => d.to \in {"launching", "accepted", "unknown"}
  /\ d.pc = "admitting" => Refusal(x, Head(d.queue).task, Cost) = "admit"

\* One admission is written at a time: this is what the write chain is for.
ChainFits == \A r \in Runs : At(r, "admitting") <=> chain = r

\* A child that exists was named by an admission.
LiveOwned == \A c \in live : \E r \in Runs, t \in Tasks : TaskOf(r, t).child = c

BaseInv ==
  /\ TypeOK /\ ChainFits /\ LiveOwned
  /\ \A r \in Runs : RecordFits(r, recs[r]) /\ LeaderFits(r, recs[r], drain[r])

\* The gate's entries name the task's own child, or none.
EntriesFit == \A t \in Tasks : slots[t] \in {NameOf[t], NoChild, Free}

------------------------------------------------------------------------------
(* What holds when no two roots submit the same task. *)

DisjointRuns == \A r, q \in Runs : r # q => TasksOf[r] \cap TasksOf[q] = {}

\* The leader has this task in hand, here in its pass, on its way to this edge.
Handles(r, t, pc) == At(r, pc) /\ Task(r) = t
ForLaunch(r, t, pc) == Handles(r, t, pc) /\ drain[r].to = "launching"
ForEdge(r, t, pc) == Handles(r, t, pc) /\ drain[r].to # "launching"

TaskEvents(r, t) == {e \in events : e.run = r /\ e.task = t}
Begun(r, t) == <<r, t>> \in begun
HasEntry(t) == slots[t] # Free

\* Nothing launched for this task is under way, or has ended and is to be recorded.
Quiet(r, t) == ~Begun(r, t) /\ TaskEvents(r, t) = {}

\* A completion is of a launch that is over, one at a time for each task; it finds its
\* task in its slot, and what it wrote stays until the gate is resynchronized.
EventsFit(r, t) ==
  /\ \A e, f \in TaskEvents(r, t) : e = f
  /\ \A e \in TaskEvents(r, t) :
       /\ ~Begun(r, t)
       /\ e.step = "write" => HoldsSlot(TaskOf(r, t).state) /\ HasEntry(t)
       /\ e.step = "sync" => TaskOf(r, t).state = e.to

\* A launch not reported ended holds its slot; a child that runs is such a launch, and
\* is behind its task's entry.
BegunFits(r, t) ==
  /\ Begun(r, t) => HoldsSlot(TaskOf(r, t).state)
  /\ NameOf[t] \in Running => Begun(r, t) /\ HasEntry(t)

\* From its admission to its launch a task is nobody else's business; from its launch
\* to the edge that records it, it has its entry, and only an unclean end can have
\* moved it.
LaunchFits(r, t) ==
  LET state == TaskOf(r, t).state
  IN /\ Handles(r, t, "retire") \/ ForLaunch(r, t, "write") => state = "prepared" /\ Quiet(r, t)
     /\ ForLaunch(r, t, "sync") \/ Handles(r, t, "launch") => state = "launching" /\ Quiet(r, t)
     /\ Handles(r, t, "launched") \/ ForEdge(r, t, "write") =>
          /\ state \in {"launching", "unknown"}
          /\ Begun(r, t) => state = "launching"
          /\ \A e \in TaskEvents(r, t) : e.to = "unknown"
     /\ ForEdge(r, t, "sync") => state = drain[r].to
     /\ \/ Handles(r, t, "launch") \/ Handles(r, t, "launched")
        \/ ForEdge(r, t, "write") \/ ForEdge(r, t, "sync")
        => HasEntry(t)

\* A held task has its entry, except as GateAgreesWithRecords says.
EntryFits(r, t) ==
  /\ crashes = 0 /\ HoldsSlot(TaskOf(r, t).state) /\ ~HasEntry(t) =>
       TaskOf(r, t).attempt > 1 /\ TaskOf(r, t).state \in {"prepared", "launching"}
  /\ Handles(r, t, "admitting") => HasEntry(t) \/ Present(recs[r], t)

OwnTask(r, t) == EventsFit(r, t) /\ BegunFits(r, t) /\ LaunchFits(r, t) /\ EntryFits(r, t)

OwnInv ==
  /\ \A e \in events : e.task \in TasksOf[e.run]
  /\ \A o \in begun : o[2] \in TasksOf[o[1]]
  /\ \A r \in Runs : \A t \in TasksOf[r] : OwnTask(r, t)

\* An accepted task's child runs, or its end is about to be recorded, or is lost; and
\* while a launch is still to be recorded its child runs, or its end came too early.
AcceptedShown(r, t) ==
  /\ TaskOf(r, t).state = "accepted" =>
       \/ NameOf[t] \in Running \/ <<r, t>> \in lost
       \/ \E e \in TaskEvents(r, t) : e.step = "write"
  /\ Handles(r, t, "launched") \/ (Handles(r, t, "write") /\ drain[r].to = "accepted") =>
       NameOf[t] \in Running \/ <<r, t>> \in lost

ShownInv == \A r \in Runs : \A t \in TasksOf[r] : AcceptedShown(r, t)

------------------------------------------------------------------------------
(* What holds of the gate's entries even where two roots submit the same task. *)

\* What a write committed stays until the gate is resynchronized to it.
SyncedStates ==
  /\ \A e \in events : e.step = "sync" => TaskOf(e.run, e.task).state = e.to
  /\ \A r \in Runs : At(r, "sync") => TaskOf(r, Task(r)).state = drain[r].to

\* An entry stands for held work, for an admission being written, or for a completed
\* task whose entry is about to be given back.
Stands(t) ==
  \/ \E r \in Runs : t \in Held(recs[r])
  \/ \E r \in Runs : Handles(r, t, "admitting")
  \/ \E e \in events : e.task = t /\ e.step = "sync" /\ e.to = "completed"
EntriesStand == \A t \in Tasks : HasEntry(t) => Stands(t)

------------------------------------------------------------------------------
(* The record's operations, as the drain uses them. *)

\* A row of a run carries its task's own name and the tool's reservation.
LEMMA RowFacts ==
  ASSUME NEW r \in Runs, NEW row \in OwnRows(r)
  PROVE  /\ row \in Row /\ row.task \in TasksOf[r] /\ row.task \in Tasks
         /\ row.child = NameOf[row.task] /\ row.child \in Children /\ row.child # NoChild
         /\ row.cost = Cost
<1>1. PICK t \in TasksOf[r] : row = OwnRow(t)
  BY DEF OwnRows
<1>2. t \in Tasks /\ NameOf[t] \in Children /\ Cost \in Costs
  BY DrainAssumption
<1>3. row = [task |-> t, child |-> NameOf[t], cost |-> Cost]
  BY <1>1 DEF OwnRow
<1> QED BY <1>2, <1>3, TaskAssumption DEF Row

LEMMA RowSequences ==
  ASSUME NEW r \in Runs, NEW q \in Seq(OwnRows(r))
  PROVE  /\ q \in Seq(Row)
         /\ q # <<>> => Head(q) \in OwnRows(r) /\ Tail(q) \in Seq(OwnRows(r))
<1>1. OwnRows(r) \subseteq Row
  BY RowFacts
<1>2. q \in Seq(Row)
  <2>1. Len(q) \in Nat /\ q \in [1..Len(q) -> OwnRows(r)]
    OBVIOUS
  <2> QED BY <1>1, <2>1
<1> QED BY <1>2

\* What is known of a task stays known, with the child it was admitted with.
Grown(x, y) ==
  \A t \in Tasks : Present(x, t) => Present(y, t) /\ y.tasks[t].child = x.tasks[t].child

\* Taking a row out leaves the other tasks' rows and the rest of the record alone.
LEMMA WithoutRowFits ==
  ASSUME NEW r \in Runs, NEW x \in Record, RecordFits(r, x), NEW t \in Tasks
  PROVE  LET y == WithoutRow(x, t)
         IN /\ y \in Record /\ RecordFits(r, y)
            /\ y.tasks = x.tasks /\ y.budget = x.budget /\ y.phase = x.phase
            /\ y.target = x.target /\ y.tombstones = x.tombstones
            /\ \A u \in Tasks \ {t} : HasRow(x, u) => HasRow(y, u)
<1> DEFINE i == RowIndex(x, t)
           before == SubSeq(x.ready, 1, i - 1)
           after == SubSeq(x.ready, i + 1, Len(x.ready))
           y == WithoutRow(x, t)
<1>1. CASE ~HasRow(x, t)
  BY <1>1 DEF WithoutRow
<1>2. CASE HasRow(x, t)
  <2>1. x.ready \in Seq(OwnRows(r)) /\ x.ready \in Seq(Row)
    BY DEF RecordFits, Record
  <2>2. i \in 1..Len(x.ready) /\ x.ready[i].task = t
    BY <1>2, <2>1 DEF HasRow, RowIndex
  <2>3. y = [x EXCEPT !.ready = before \o after]
    BY <1>2 DEF WithoutRow
  <2>4. /\ before \in Seq(OwnRows(r)) /\ after \in Seq(OwnRows(r))
        /\ Len(before) = i - 1 /\ Len(after) = Len(x.ready) - i
        /\ \A j \in 1..(i - 1) : before[j] = x.ready[j]
        /\ \A j \in 1..(Len(x.ready) - i) : after[j] = x.ready[j + i]
    <3> DEFINE n == Len(x.ready)
    <3>1. n \in Nat /\ i \in 1..n /\ x.ready \in [1..n -> OwnRows(r)]
      BY <2>1, <2>2
    <3> HIDE DEF i
    <3>2. \A j \in 1..(i - 1) : j \in 1..n
      BY <3>1
    <3>3. \A j \in 1..(n - i) : j + i \in 1..n /\ (i + 1) + j - 1 = j + i
      BY <3>1
    <3>4. before \in Seq(OwnRows(r)) /\ Len(before) = i - 1
      BY <2>1, <3>1
    <3>5. \A j \in 1..(i - 1) : before[j] = x.ready[j]
      BY <2>1, <3>1, <3>2
    <3>6. after \in Seq(OwnRows(r)) /\ Len(after) = n - i
      BY <2>1, <3>1
    <3>7. \A j \in 1..(n - i) : after[j] = x.ready[j + i]
      BY <2>1, <3>1, <3>3
    <3> QED BY <3>4, <3>5, <3>6, <3>7
  <2> HIDE DEF before, after, i
  <2>5. before \o after \in Seq(OwnRows(r))
    BY <2>4
  <2>6. before \o after \in Seq(Row)
    BY <2>5, RowSequences
  <2> HIDE DEF y
  <2>7. /\ y \in Record /\ y.ready = before \o after
        /\ y.tasks = x.tasks /\ y.budget = x.budget /\ y.phase = x.phase
        /\ y.target = x.target /\ y.tombstones = x.tombstones
    BY <2>3, <2>6 DEF Record
  <2>8. RecordFits(r, y)
    BY <2>5, <2>7 DEF RecordFits
  <2>9. ASSUME NEW u \in Tasks \ {t}, HasRow(x, u)
        PROVE  HasRow(y, u)
    <3>1. PICK j \in 1..Len(x.ready) : x.ready[j].task = u
      BY <2>1, <2>9 DEF HasRow
    <3>2. j # i
      BY <2>2, <2>9, <3>1
    <3>3. CASE j < i
      <4>1. j \in 1..(i - 1) /\ j \in 1..Len(before \o after)
        BY <2>2, <2>4, <3>1, <3>3
      <4>2. (before \o after)[j] = x.ready[j]
        BY <2>2, <2>4, <4>1
      <4> QED BY <2>5, <2>7, <3>1, <4>1, <4>2 DEF HasRow
    <3>4. CASE j > i
      <4> DEFINE k == j - i
      <4>1. k \in 1..(Len(x.ready) - i) /\ k + i = j
        BY <2>1, <2>2, <3>1, <3>4
      <4>2. after[k] = x.ready[j] /\ k \in 1..Len(after)
        BY <2>4, <4>1
      <4>3. /\ j - 1 \in 1..Len(before \o after)
            /\ (before \o after)[j - 1] = after[k]
        BY <2>2, <2>4, <3>1, <3>4, <4>1, <4>2
      <4>4. j - 1 \in DOMAIN y.ready /\ y.ready[j - 1].task = u
        BY <2>5, <2>7, <3>1, <4>2, <4>3
      <4> QED BY <4>4 DEF HasRow
    <3> QED BY <2>2, <3>1, <3>2, <3>3, <3>4
  <2> QED BY <2>7, <2>8, <2>9 DEF y
<1> QED BY <1>1, <1>2

\* A submission adds its own row at most.
LEMMA WithRowFits ==
  ASSUME NEW r \in Runs, NEW x \in Record, RecordFits(r, x), NEW t \in TasksOf[r]
  PROVE  LET y == WithRow(x, t, NameOf[t], Cost)
         IN /\ y \in Record /\ RecordFits(r, y)
            /\ y.tasks = x.tasks /\ y.budget = x.budget /\ y.phase = x.phase
            /\ y.target = x.target /\ y.tombstones = x.tombstones
            /\ \A u \in Tasks : HasRow(x, u) => HasRow(y, u)
<1> DEFINE y == WithRow(x, t, NameOf[t], Cost)
<1>1. CASE HasRow(x, t)
  BY <1>1 DEF WithRow
<1>2. CASE ~HasRow(x, t)
  <2>1. x.ready \in Seq(OwnRows(r)) /\ OwnRow(t) \in OwnRows(r)
    BY DEF RecordFits, OwnRows
  <2> DEFINE rows == Append(x.ready, OwnRow(t))
  <2>2. y = [x EXCEPT !.ready = rows]
    BY <1>2 DEF WithRow, OwnRow
  <2>3. /\ rows \in Seq(OwnRows(r)) /\ Len(rows) = Len(x.ready) + 1
        /\ \A j \in 1..Len(x.ready) : rows[j] = x.ready[j]
    BY <2>1
  <2>4. rows \in Seq(Row)
    BY <2>3, RowSequences
  <2> HIDE DEF rows, y
  <2>5. /\ y \in Record /\ y.ready = rows
        /\ y.tasks = x.tasks /\ y.budget = x.budget /\ y.phase = x.phase
        /\ y.target = x.target /\ y.tombstones = x.tombstones
    BY <2>2, <2>4 DEF Record
  <2>6. RecordFits(r, y)
    BY <2>3, <2>5 DEF RecordFits
  <2>7. \A u \in Tasks : HasRow(x, u) => HasRow(y, u)
    BY <2>1, <2>3, <2>5 DEF HasRow
  <2> QED BY <2>5, <2>6, <2>7 DEF y
<1> QED BY <1>1, <1>2

\* An admission makes the task known under its own name; it fits the ceiling, and
\* each task has been admitted at most once for each unit reserved.
LEMMA AdmittedFits ==
  ASSUME NEW r \in Runs, NEW x \in Record, RecordFits(r, x), NEW t \in TasksOf[r],
         Refusal(x, t, Cost) = "admit"
  PROVE  LET y == Admitted(x, t, NameOf[t], Cost)
         IN /\ y \in Record /\ RecordFits(r, y) /\ Grown(x, y)
            /\ y.ready = x.ready /\ x.tasks[t].attempt < Ceiling
            /\ ~HoldsSlot(x.tasks[t].state)
            /\ y.tasks[t].state = "prepared" /\ y.tasks[t].attempt = x.tasks[t].attempt + 1
            /\ Present(y, t)
            /\ \A u \in Tasks \ {t} : y.tasks[u] = x.tasks[u]
<1> DEFINE y == Admitted(x, t, NameOf[t], Cost)
           task == [state |-> "prepared", child |-> NameOf[t],
                    attempt |-> x.tasks[t].attempt + 1, cost |-> Cost]
           budget == [x.budget EXCEPT !.reserved = @ + Cost]
<1>1. /\ t \in Tasks /\ NameOf[t] \in Children /\ NameOf[t] # NoChild
      /\ Cost \in Nat \ {0} /\ Ceiling \in Nat /\ RootReserve \in Nat
  BY DrainAssumption, CostAssumption, TaskAssumption
<1>2. x.tasks \in [Tasks -> TaskRecord] /\ x.budget \in Budget /\ x.tasks[t].attempt \in Nat
  BY <1>1 DEF Record, TaskRecord
<1>3. task \in TaskRecord /\ budget \in Budget
  BY <1>1, <1>2 DEF TaskRecord, States, Budget
<1>4. y = [x EXCEPT !.tasks[t] = task, !.budget = budget]
  BY DEF Admitted, Record
<1> HIDE DEF y, task, budget
<1>5. /\ y \in Record /\ y.ready = x.ready /\ y.tombstones = x.tombstones
      /\ y.budget = budget /\ y.tasks = [x.tasks EXCEPT ![t] = task]
  BY <1>2, <1>3, <1>4 DEF Record
<1>6. /\ y.tasks[t] = task /\ \A u \in Tasks \ {t} : y.tasks[u] = x.tasks[u]
  BY <1>1, <1>2, <1>5
<1>7. ~HoldsSlot(x.tasks[t].state) /\ ~(ChildCommitted(x.budget) + Cost > ChildCeiling)
  BY DEF Refusal
<1>8. /\ budget.spent = x.budget.spent /\ budget.overage = x.budget.overage
      /\ budget.unknownReserved = x.budget.unknownReserved
      /\ budget.rootSpent = x.budget.rootSpent
      /\ budget.reserved = x.budget.reserved + Cost
      /\ x.budget.reserved \in Nat
  BY <1>2 DEF Budget, budget
<1>9. /\ x.budget.reserved + Cost <= ChildCeiling /\ ChildCeiling <= Ceiling
      /\ ChildCeiling \in Nat
  <2>1. x.budget.spent = 0 /\ x.budget.unknownReserved = 0
    BY DEF RecordFits
  <2> QED BY <1>1, <1>7, <1>8, <2>1 DEF ChildCommitted, ChildCeiling, Most
<1>10. x.tasks[t].attempt <= x.budget.reserved
  BY <1>1 DEF RecordFits
<1>11. TaskFits(r, t, y.tasks[t]) /\ y.tasks[t].attempt <= y.budget.reserved
  BY <1>1, <1>2, <1>5, <1>6, <1>8, <1>10 DEF TaskFits, task, States
<1>12. \A u \in Tasks \ {t} : TaskFits(r, u, y.tasks[u]) /\ y.tasks[u].attempt <= y.budget.reserved
  <2> SUFFICES ASSUME NEW u \in Tasks \ {t}
               PROVE  TaskFits(r, u, y.tasks[u]) /\ y.tasks[u].attempt <= y.budget.reserved
    OBVIOUS
  <2>1. TaskFits(r, u, x.tasks[u]) /\ x.tasks[u].attempt <= x.budget.reserved
    BY DEF RecordFits
  <2>2. x.tasks[u].attempt \in Nat
    BY <1>2 DEF TaskRecord
  <2> QED BY <1>1, <1>5, <1>6, <1>8, <2>1, <2>2
<1>13. RecordFits(r, y)
  BY <1>5, <1>8, <1>9, <1>11, <1>12 DEF RecordFits
<1>14. Present(x, t) => x.tasks[t].child = NameOf[t]
  BY <1>1 DEF RecordFits, TaskFits, Present
<1>15. Present(y, t) /\ y.tasks[t].child = NameOf[t] /\ y.tasks[t].state = "prepared"
       /\ y.tasks[t].attempt = x.tasks[t].attempt + 1
  BY <1>6 DEF Present, task
<1>16. Grown(x, y)
  BY <1>6, <1>14, <1>15 DEF Grown, Present
<1>17. x.tasks[t].attempt < Ceiling
  BY <1>1, <1>2, <1>8, <1>9, <1>10
<1> QED BY <1>5, <1>6, <1>7, <1>13, <1>15, <1>16, <1>17 DEF y

\* The edges the drain and the observer write.
Edges == {"launching", "accepted", "unknown", "completed"}
Moved(x, t, to) == Transitioned(x, t, to, FALSE, 0)

\* It changes one task's state and nothing else: none of the edges the drain and
\* the observer write charges, releases or closes.
LEMMA MovedFits ==
  ASSUME NEW r \in Runs, NEW x \in Record, RecordFits(r, x), NEW t \in Tasks,
         Present(x, t), NEW to \in Edges
  PROVE  LET y == Moved(x, t, to)
         IN /\ y \in Record /\ RecordFits(r, y) /\ Grown(x, y)
            /\ y.ready = x.ready /\ y.budget = x.budget
            /\ y.tasks[t].state = to /\ y.tasks[t].attempt = x.tasks[t].attempt
            /\ Present(y, t)
            /\ \A u \in Tasks \ {t} : y.tasks[u] = x.tasks[u]
<1> DEFINE y == Moved(x, t, to)
           task == [x.tasks[t] EXCEPT !.state = to]
<1>1. /\ x.tasks \in [Tasks -> TaskRecord] /\ x.budget \in Budget
      /\ x.tasks[t] \in TaskRecord
  BY DEF Record
<1>2. to \in States /\ to \notin TerminalStates /\ to # "absent"
  BY DEF Edges, States, TerminalStates
<1>3. task \in TaskRecord /\ task.state = to /\ task.child = x.tasks[t].child
      /\ task.attempt = x.tasks[t].attempt
  BY <1>1, <1>2 DEF TaskRecord
<1>4. [x.budget EXCEPT !.reserved = x.budget.reserved] = x.budget
  BY <1>1 DEF Budget
<1>5. y = [x EXCEPT !.tasks[t] = task]
  BY <1>1, <1>2, <1>4 DEF Moved, Transitioned, Record, TaskRecord
<1> HIDE DEF y, task
<1>6. /\ y \in Record /\ y.ready = x.ready /\ y.tombstones = x.tombstones
      /\ y.budget = x.budget /\ y.tasks = [x.tasks EXCEPT ![t] = task]
  BY <1>1, <1>3, <1>5 DEF Record
<1>7. y.tasks[t] = task /\ \A u \in Tasks \ {t} : y.tasks[u] = x.tasks[u]
  BY <1>1, <1>6
<1>8. TaskFits(r, t, x.tasks[t]) /\ x.tasks[t].state # "absent"
  BY DEF RecordFits, Present
<1>9. TaskFits(r, t, y.tasks[t]) /\ Present(y, t)
  BY <1>2, <1>3, <1>7, <1>8 DEF TaskFits, Present
<1>10. RecordFits(r, y)
  BY <1>3, <1>6, <1>7, <1>9 DEF RecordFits
<1>11. Grown(x, y)
  BY <1>3, <1>7, <1>9 DEF Grown, Present
<1> QED BY <1>3, <1>6, <1>7, <1>9, <1>10, <1>11 DEF y

------------------------------------------------------------------------------
(* The base invariant: one run moves, the others are where they were. *)

HostTypes ==
  /\ live \subseteq Children /\ ended \subseteq live
  /\ slots \in [Tasks -> Children \cup {NoChild, Free}]
  /\ port \in BOOLEAN /\ chain \in Runs \cup {NoRun}
  /\ events \subseteq [run : Runs, task : Tasks, to : {"completed", "unknown"},
                      step : {"write", "sync"}]
  /\ faults \in 0..MaxFaults /\ crashes \in 0..MaxCrashes
  /\ begun \subseteq Runs \X Tasks /\ lost \subseteq Runs \X Tasks

LEMMA TypeParts ==
  /\ TypeOK <=> recs \in [Runs -> Record] /\ drain \in [Runs -> Leader] /\ HostTypes
  /\ TypeOK' <=> recs' \in [Runs -> Record] /\ drain' \in [Runs -> Leader] /\ HostTypes'
BY DEF TypeOK, HostTypes, Leader

\* What the leader has in hand is one of its run's rows.
LEMMA InHand ==
  ASSUME NEW r \in Runs, NEW x, NEW d, LeaderFits(r, x, d), d.queue # <<>>
  PROVE  /\ Head(d.queue) \in OwnRows(r) /\ Tail(d.queue) \in Seq(OwnRows(r))
         /\ Head(d.queue).task \in Tasks /\ Head(d.queue).task \in TasksOf[r]
         /\ Head(d.queue).child = NameOf[Head(d.queue).task]
         /\ Head(d.queue).child \in Children /\ Head(d.queue).cost = Cost
BY RowFacts, RowSequences DEF LeaderFits

\* A leader that is not writing an admission is where it was when its record grows.
LEMMA LeaderKept ==
  ASSUME NEW r \in Runs, NEW x, NEW y, NEW d, LeaderFits(r, x, d), Grown(x, y),
         d.pc # "admitting"
  PROVE  LeaderFits(r, y, d)
<1>1. ASSUME d.pc \in AfterAdmission PROVE Present(y, Head(d.queue).task)
  <2>1. Head(d.queue).task \in Tasks
    BY <1>1, InHand DEF LeaderFits, AfterAdmission, WithRequest
  <2> QED BY <1>1, <2>1 DEF LeaderFits, Grown
<1> QED BY <1>1 DEF LeaderFits

LEMMA RunStep ==
  ASSUME BaseInv, NEW r \in Runs, NEW x \in Record, NEW d \in Leader, HostTypes',
         recs' = [recs EXCEPT ![r] = x], drain' = [drain EXCEPT ![r] = d],
         RecordFits(r, x), Grown(recs[r], x), LeaderFits(r, x, d),
         \A c \in live' : c \in live \/ \E t \in Tasks : x.tasks[t].child = c,
         d.pc = "admitting" <=> chain' = r,
         \A q \in Runs \ {r} : chain' = q <=> chain = q
  PROVE  BaseInv'
<1>1. recs \in [Runs -> Record] /\ drain \in [Runs -> Leader]
  BY TypeParts DEF BaseInv
<1>2. /\ recs' \in [Runs -> Record] /\ drain' \in [Runs -> Leader]
      /\ recs'[r] = x /\ drain'[r] = d
      /\ \A q \in Runs \ {r} : recs'[q] = recs[q] /\ drain'[q] = drain[q]
  BY <1>1
<1>3. TypeOK'
  BY <1>2, TypeParts
<1>4. \A q \in Runs : RecordFits(q, recs'[q]) /\ LeaderFits(q, recs'[q], drain'[q])
  BY <1>2 DEF BaseInv
<1>5. ChainFits'
  BY <1>2 DEF BaseInv, ChainFits, At
<1>6. \A q \in Runs, t \in Tasks : TaskOf(q, t).child \in Children => recs'[q].tasks[t].child = TaskOf(q, t).child
  <2> SUFFICES ASSUME NEW t \in Tasks, recs[r].tasks[t].child \in Children
               PROVE  x.tasks[t].child = recs[r].tasks[t].child
    BY <1>2 DEF TaskOf
  <2>1. TaskFits(r, t, recs[r].tasks[t])
    BY DEF BaseInv, RecordFits
  <2>2. Present(recs[r], t)
    BY <2>1, TaskAssumption DEF TaskFits, Present, States
  <2> QED BY <2>2 DEF Grown
<1>7. LiveOwned'
  <2> SUFFICES ASSUME NEW c \in live'
               PROVE  \E q \in Runs, t \in Tasks : recs'[q].tasks[t].child = c
    BY DEF LiveOwned, TaskOf
  <2>1. CASE \E t \in Tasks : x.tasks[t].child = c
    BY <1>2, <2>1
  <2>2. CASE c \in live
    <3>1. PICK q \in Runs, t \in Tasks : TaskOf(q, t).child = c
      BY <2>2 DEF BaseInv, LiveOwned
    <3>2. c \in Children
      BY <2>2, TypeParts DEF BaseInv, HostTypes
    <3> QED BY <1>6, <3>1, <3>2 DEF TaskOf
  <2> QED BY <2>1, <2>2
<1> QED BY <1>3, <1>4, <1>5, <1>7 DEF BaseInv

\* The same where only the leader moves.
LEMMA LeaderStep ==
  ASSUME BaseInv, NEW r \in Runs, NEW d \in Leader, HostTypes',
         UNCHANGED <<recs, live>>, drain' = [drain EXCEPT ![r] = d],
         LeaderFits(r, recs[r], d),
         d.pc = "admitting" <=> chain' = r,
         \A q \in Runs \ {r} : chain' = q <=> chain = q
  PROVE  BaseInv'
<1>1. recs \in [Runs -> Record]
  BY TypeParts DEF BaseInv
<1>2. recs' = [recs EXCEPT ![r] = recs[r]] /\ recs[r] \in Record
  BY <1>1
<1>3. RecordFits(r, recs[r]) /\ Grown(recs[r], recs[r])
  BY DEF BaseInv, Grown
<1> QED BY <1>2, <1>3, RunStep

\* The bookkeeping of a pass: no record is written, no place is taken.
LEMMA PassBase ==
  ASSUME BaseInv, NEW r \in Runs,
         \/ TakeBatch(r) \/ NextEntry(r) \/ EndPass(r) \/ NextRequest(r) \/ Refuse(r)
         \/ WriteRefused(r) \/ DiskFails(r) \/ LaunchReturns(r) \/ LaunchThrows(r)
  PROVE  BaseInv'
<1> DEFINE now == drain[r]  x == recs[r]
<1>1. /\ x \in Record /\ now \in Leader /\ HostTypes /\ drain \in [Runs -> Leader]
      /\ LeaderFits(r, x, now) /\ RecordFits(r, x) /\ (now.pc = "admitting" <=> chain = r)
      /\ MaxWakes \in Nat \ {0}
  BY TypeParts, DrainAssumption DEF BaseInv, ChainFits, At
<1>2. /\ now.queue \in Seq(OwnRows(r)) /\ x.ready \in Seq(OwnRows(r))
      /\ x.ready \in Seq(Row) /\ <<>> \in Seq(OwnRows(r)) /\ <<>> \in Seq(Row)
  BY <1>1, RowSequences DEF LeaderFits, RecordFits
<1>3. UNCHANGED <<recs, live, chain>> /\ HostTypes'
  <2>1. HostTypes' \/ faults' # faults
    BY <1>1 DEF TakeBatch, NextEntry, EndPass, NextRequest, Refuse, WriteRefused, DiskFails,
              LaunchReturns, LaunchThrows, gateVars, hostVars, HostTypes
  <2>2. faults' # faults => faults < MaxFaults /\ faults' = faults + 1 /\ DiskFails(r)
    BY DEF TakeBatch, NextEntry, EndPass, NextRequest, Refuse, WriteRefused, DiskFails,
           LaunchReturns, LaunchThrows, gateVars, hostVars
  <2>3. MaxFaults \in Nat
    BY DrainAssumption
  <2>4. DiskFails(r) /\ faults < MaxFaults /\ faults' = faults + 1 => HostTypes'
    BY <1>1, <2>3 DEF DiskFails, gateVars, HostTypes
  <2>5. UNCHANGED <<recs, live, chain>>
    BY DEF TakeBatch, NextEntry, EndPass, NextRequest, Refuse, WriteRefused, DiskFails,
           LaunchReturns, LaunchThrows, gateVars
  <2> QED BY <2>1, <2>2, <2>4, <2>5
<1>4. ASSUME NEW d \in Leader, drain' = [drain EXCEPT ![r] = d], LeaderFits(r, x, d),
             now.pc # "admitting", d.pc # "admitting"
      PROVE  BaseInv'
  BY <1>1, <1>3, <1>4, LeaderStep
<1>5. CASE TakeBatch(r)
  <2> DEFINE d == [now EXCEPT !.pc = "entry", !.batch = now.pending, !.pending = 0]
  <2>1. drain' = [drain EXCEPT ![r] = d] /\ now.pc = "idle"
    BY <1>1, <1>5 DEF TakeBatch, At
  <2>2. 0 \in 0..MaxWakes /\ now.pending \in 0..MaxWakes
    BY <1>1 DEF Leader
  <2>3. d \in Leader /\ d.queue = now.queue /\ d.pc = "entry"
    BY <1>1, <2>2 DEF Leader
  <2> QED BY <1>2, <1>4, <2>1, <2>3 DEF LeaderFits, WithRequest, AfterAdmission
<1>6. CASE NextEntry(r)
  <2> DEFINE queue == IF port THEN x.ready ELSE <<>>
             d == [now EXCEPT !.batch = @ - 1, !.pc = IF port THEN "row" ELSE "entry",
                              !.queue = queue]
  <2>1. drain' = [drain EXCEPT ![r] = d] /\ now.pc = "entry" /\ now.batch > 0
    BY <1>1, <1>6 DEF NextEntry, At
  <2>2. queue \in Seq(OwnRows(r)) /\ queue \in Seq(Row)
    BY <1>2
  <2>3. now.batch - 1 \in 0..MaxWakes
    BY <1>1, <2>1 DEF Leader
  <2> HIDE DEF queue
  <2>4. d \in Leader /\ d.queue = queue /\ d.pc \in {"row", "entry"}
    BY <1>1, <2>2, <2>3 DEF Leader
  <2> QED BY <1>4, <2>1, <2>2, <2>4 DEF LeaderFits, WithRequest, AfterAdmission
<1>7. ASSUME NEW pc \in {"idle", "entry", "row", "reserve", "drop", "launched"},
             Goto(r, pc), now.pc # "admitting", pc \in WithRequest => now.queue # <<>>,
             pc \in AfterAdmission => Present(x, Task(r))
      PROVE  BaseInv'
  <2> DEFINE d == [now EXCEPT !.pc = pc]
  <2>1. drain' = [drain EXCEPT ![r] = d]
    BY <1>1, <1>7 DEF Goto
  <2>2. d \in Leader /\ d.queue = now.queue /\ d.pc = pc
    BY <1>1 DEF Leader
  <2> QED BY <1>1, <1>2, <1>4, <1>7, <2>1, <2>2 DEF LeaderFits, Task, Request
<1>8. ASSUME SkipRows(r), now.pc # "admitting"
      PROVE  BaseInv'
  <2> DEFINE d == [now EXCEPT !.pc = "entry", !.queue = <<>>]
  <2>1. drain' = [drain EXCEPT ![r] = d]
    BY <1>1, <1>8 DEF SkipRows
  <2>2. d \in Leader /\ d.queue = <<>> /\ d.pc = "entry"
    BY <1>1, <1>2 DEF Leader
  <2> QED BY <1>2, <1>4, <1>8, <2>1, <2>2 DEF LeaderFits, WithRequest, AfterAdmission
<1>9. ASSUME NextRow(r), now.pc # "admitting", now.queue # <<>>
      PROVE  BaseInv'
  <2> DEFINE d == [now EXCEPT !.pc = "row", !.queue = Tail(@)]
  <2>1. drain' = [drain EXCEPT ![r] = d]
    BY <1>1, <1>9 DEF NextRow
  <2>2. Tail(now.queue) \in Seq(OwnRows(r)) /\ Tail(now.queue) \in Seq(Row)
    BY <1>2, <1>9, RowSequences
  <2>3. d \in Leader /\ d.queue = Tail(now.queue) /\ d.pc = "row"
    BY <1>1, <2>2 DEF Leader
  <2> QED BY <1>4, <1>9, <2>1, <2>2, <2>3 DEF LeaderFits, WithRequest, AfterAdmission
<1>10. ASSUME Abandon(r), now.pc # "admitting"
       PROVE  BaseInv'
  <2>1. drain' = [drain EXCEPT ![r] = Idle]
    BY <1>10 DEF Abandon
  <2>2. Idle \in Leader /\ Idle.queue = <<>> /\ Idle.pc = "idle"
    BY <1>1, <1>2 DEF Leader, Idle, States
  <2> QED BY <1>2, <1>4, <1>10, <2>1, <2>2 DEF LeaderFits, WithRequest, AfterAdmission
<1>11. ASSUME NEW to \in {"accepted", "unknown"}, GotoWrite(r, to),
              now.pc \in {"launch", "launched"}
       PROVE  BaseInv'
  <2> DEFINE d == [now EXCEPT !.pc = "write", !.to = to]
  <2>1. drain' = [drain EXCEPT ![r] = d]
    BY <1>1, <1>11 DEF GotoWrite
  <2>2. d \in Leader /\ d.queue = now.queue /\ d.pc = "write" /\ d.to = to
    BY <1>1 DEF Leader, States
  <2>3. now.queue # <<>> /\ Present(x, Head(now.queue).task)
    BY <1>1, <1>11 DEF LeaderFits, WithRequest, AfterAdmission
  <2> QED BY <1>2, <1>4, <1>11, <2>1, <2>2, <2>3 DEF LeaderFits
<1>12. CASE EndPass(r)
  BY <1>7, <1>12 DEF EndPass, At, WithRequest, AfterAdmission
<1>13. CASE NextRequest(r)
  <2>1. now.pc = "row"
    BY <1>13 DEF NextRequest, At
  <2>2. \/ SkipRows(r)
        \/ NextRow(r) /\ now.queue # <<>>
        \/ Goto(r, "reserve") /\ now.queue # <<>>
    BY <1>13 DEF NextRequest
  <2> QED BY <1>7, <1>8, <1>9, <2>1, <2>2 DEF AfterAdmission
<1>14. CASE Refuse(r)
  <2>1. now.pc = "reserve" /\ now.queue # <<>>
    BY <1>1, <1>14 DEF Refuse, At, LeaderFits, WithRequest
  <2>2. CASE Objection(r) = "slots_held_by_unconfirmed"
    <3>1. Goto(r, "drop")
      BY <1>14, <2>2 DEF Refuse
    <3>2. HoldsSlot(x.tasks[Task(r)].state) \/ Task(r) \in x.tombstones
      BY <2>2 DEF Objection, Refusal
    <3>3. Present(x, Task(r))
      BY <1>1, <3>2 DEF RecordFits, HoldsSlot, SlotHoldingStates, States, Present
    <3> QED BY <1>7, <2>1, <3>1, <3>3
  <2>3. CASE Objection(r) # "slots_held_by_unconfirmed"
    BY <1>8, <1>14, <2>1, <2>3 DEF Refuse
  <2> QED BY <2>2, <2>3
<1>15. CASE WriteRefused(r) \/ DiskFails(r)
  BY <1>10, <1>15 DEF WriteRefused, DiskFails, At
<1>16. CASE LaunchReturns(r) \/ LaunchThrows(r)
  BY <1>11, <1>16 DEF LaunchReturns, LaunchThrows, At
<1> QED BY <1>5, <1>6, <1>12, <1>13, <1>14, <1>15, <1>16

\* A wake only adds to the callers waiting.
LEMMA WokenFits ==
  ASSUME NEW r \in Runs, NEW x, NEW d \in Leader, LeaderFits(r, x, d)
  PROVE  /\ Woken(d) \in Leader /\ LeaderFits(r, x, Woken(d))
         /\ Woken(d).pc = d.pc /\ Woken(d).queue = d.queue /\ Woken(d).to = d.to
<1>1. MaxWakes \in Nat \ {0} /\ d.pending \in 0..MaxWakes
  BY DrainAssumption DEF Leader
<1> DEFINE pending == Least(d.pending + 1, MaxWakes)
<1>2. pending \in 0..MaxWakes
  BY <1>1 DEF Least
<1>3. Woken(d) = [d EXCEPT !.pending = pending]
  BY DEF Woken
<1> HIDE DEF pending
<1>4. /\ Woken(d) \in Leader /\ Woken(d).pc = d.pc
      /\ Woken(d).queue = d.queue /\ Woken(d).to = d.to
  BY <1>2, <1>3 DEF Leader
<1> QED BY <1>4 DEF LeaderFits

\* An observer's or a human's wake: no record is written.
LEMMA WakeBase ==
  ASSUME BaseInv, NEW r \in Runs, Wake(r) \/ UNCHANGED drain, HostTypes',
         UNCHANGED <<recs, live, chain>>
  PROVE  BaseInv'
<1> DEFINE d == IF UNCHANGED drain THEN drain[r] ELSE Woken(drain[r])
<1>1. /\ drain[r] \in Leader /\ drain \in [Runs -> Leader]
      /\ LeaderFits(r, recs[r], drain[r])
      /\ (drain[r].pc = "admitting" <=> chain = r)
  BY TypeParts DEF BaseInv, ChainFits, At
<1>2. d \in Leader /\ d.pc = drain[r].pc /\ LeaderFits(r, recs[r], d)
  BY <1>1, WokenFits
<1>3. drain' = [drain EXCEPT ![r] = d]
  BY <1>1 DEF Wake
<1> QED BY <1>1, <1>2, <1>3, LeaderStep

\* The update of the admission: the write chain is taken, the record unchanged yet.
LEMMA TakeSlotBase ==
  ASSUME BaseInv, NEW r \in Runs, TakeSlot(r)
  PROVE  BaseInv'
<1> DEFINE d == [drain[r] EXCEPT !.pc = "admitting"]
<1>1. /\ drain[r] \in Leader /\ HostTypes /\ drain \in [Runs -> Leader]
      /\ LeaderFits(r, recs[r], drain[r]) /\ drain[r].pc = "reserve"
      /\ drain[r].queue # <<>> /\ chain = NoRun /\ NoRun \notin Runs
  BY TypeParts, DrainAssumption
     DEF BaseInv, TakeSlot, At, ChainFree, LeaderFits, WithRequest
<1>2. /\ Request(r).cost = Cost /\ Task(r) \in Tasks
      /\ Request(r).child \in Children
  BY <1>1, InHand DEF Request, Task
<1>3. Refusal(recs[r], Task(r), Cost) = "admit"
  BY <1>2 DEF TakeSlot, Objection
<1>4. drain' = [drain EXCEPT ![r] = d] /\ UNCHANGED <<recs, live>> /\ chain' = r
  BY <1>1 DEF TakeSlot, Goto, Gate!ReserveTask
<1>5. d \in Leader /\ d.queue = drain[r].queue /\ d.pc = "admitting"
  BY <1>1 DEF Leader
<1>6. LeaderFits(r, recs[r], d)
  BY <1>1, <1>3, <1>5 DEF LeaderFits, AfterAdmission, Task, Request
<1>7. HostTypes'
  BY <1>1, <1>2, <1>4 DEF TakeSlot, Gate!ReserveTask, hostVars, HostTypes
<1> QED BY <1>1, <1>4, <1>5, <1>6, <1>7, LeaderStep

\* Its commit, and its failure.
LEMMA PersistBase ==
  ASSUME BaseInv, NEW r \in Runs, Persist(r) \/ PersistFails(r)
  PROVE  BaseInv'
<1>1. /\ drain[r] \in Leader /\ HostTypes /\ drain \in [Runs -> Leader]
      /\ recs \in [Runs -> Record] /\ RecordFits(r, recs[r])
      /\ LeaderFits(r, recs[r], drain[r]) /\ drain[r].pc = "admitting"
      /\ drain[r].queue # <<>> /\ chain = r /\ NoRun \notin Runs
  BY TypeParts, DrainAssumption
     DEF BaseInv, Persist, PersistFails, At, ChainFits, LeaderFits, WithRequest
<1>2. /\ Request(r).cost = Cost /\ Task(r) \in TasksOf[r] /\ Task(r) \in Tasks
      /\ Request(r).child = NameOf[Task(r)]
      /\ Refusal(recs[r], Task(r), Cost) = "admit"
  BY <1>1, InHand DEF Request, Task, LeaderFits
<1>3. CASE Persist(r)
  <2> DEFINE d == [drain[r] EXCEPT !.pc = "retire"]
             x == Admitted(recs[r], Task(r), NameOf[Task(r)], Cost)
  <2>1. /\ recs' = [recs EXCEPT ![r] = x] /\ drain' = [drain EXCEPT ![r] = d]
        /\ chain' = NoRun /\ UNCHANGED live
    BY <1>1, <1>2, <1>3 DEF Persist, Goto, gateVars
  <2>2. x \in Record /\ RecordFits(r, x) /\ Grown(recs[r], x) /\ Present(x, Task(r))
    BY <1>1, <1>2, AdmittedFits
  <2>3. d \in Leader /\ d.queue = drain[r].queue /\ d.pc = "retire"
    BY <1>1 DEF Leader
  <2> HIDE DEF x, d
  <2>4. LeaderFits(r, x, d)
    BY <1>1, <2>2, <2>3 DEF LeaderFits, AfterAdmission, Task, Request
  <2>5. HostTypes'
    BY <1>1, <1>3 DEF Persist, gateVars, hostVars, HostTypes
  <2> QED BY <1>1, <2>1, <2>2, <2>3, <2>4, <2>5, RunStep
<1>4. CASE PersistFails(r)
  <2>1. /\ drain' = [drain EXCEPT ![r] = Idle] /\ UNCHANGED <<recs, live>>
        /\ chain' = NoRun
    BY <1>4 DEF PersistFails, Abandon, Gate!ReleaseTask
  <2>2. <<>> \in Seq(OwnRows(r)) /\ <<>> \in Seq(Row)
    OBVIOUS
  <2>3. Idle \in Leader /\ Idle.queue = <<>> /\ Idle.pc = "idle"
    BY <2>2, DrainAssumption DEF Leader, Idle, States
  <2>4. LeaderFits(r, recs[r], Idle)
    BY <2>2, <2>3 DEF LeaderFits, WithRequest, AfterAdmission
  <2>5. HostTypes'
    <3>1. faults' \in 0..MaxFaults
      BY <1>1, <1>4, DrainAssumption DEF PersistFails, HostTypes
    <3> QED BY <1>1, <1>4, <3>1 DEF PersistFails, Gate!ReleaseTask, HostTypes
  <2> QED BY <1>1, <2>1, <2>3, <2>4, <2>5, LeaderStep
<1> QED BY <1>3, <1>4

\* The other durable writes of a pass.
LEMMA RowBase ==
  ASSUME BaseInv, NEW r \in Runs, Drop(r) \/ Retire(r) \/ Write(r)
  PROVE  BaseInv'
<1> DEFINE now == drain[r]
<1>1. /\ now \in Leader /\ HostTypes /\ drain \in [Runs -> Leader]
      /\ recs \in [Runs -> Record] /\ recs[r] \in Record /\ RecordFits(r, recs[r])
      /\ LeaderFits(r, recs[r], now) /\ now.pc \in {"drop", "retire", "write"}
      /\ now.queue # <<>> /\ chain # r /\ UNCHANGED <<chain, live>>
  BY TypeParts
     DEF BaseInv, Drop, Retire, Write, At, ChainFits, LeaderFits, WithRequest, gateVars
<1>2. /\ Task(r) \in Tasks /\ Task(r) = Head(now.queue).task
      /\ Tail(now.queue) \in Seq(OwnRows(r)) /\ Tail(now.queue) \in Seq(Row)
  BY <1>1, InHand, RowSequences DEF Request, Task
<1>3. Present(recs[r], Task(r))
  BY <1>1, <1>2 DEF LeaderFits, AfterAdmission
<1>4. HostTypes'
  BY <1>1 DEF Drop, Retire, Write, gateVars, hostVars, HostTypes
<1>5. ASSUME NEW x \in Record, NEW d \in Leader,
             recs' = [recs EXCEPT ![r] = x], drain' = [drain EXCEPT ![r] = d],
             RecordFits(r, x), Grown(recs[r], x), LeaderFits(r, x, d), d.pc # "admitting"
      PROVE  BaseInv'
  BY <1>1, <1>4, <1>5, RunStep
<1>6. CASE Drop(r) \/ Retire(r)
  <2> DEFINE x == WithoutRow(recs[r], Task(r))
  <2>1. recs' = [recs EXCEPT ![r] = x]
    BY <1>1, <1>6 DEF Drop, Retire
  <2>2. x \in Record /\ RecordFits(r, x) /\ x.tasks = recs[r].tasks
    BY <1>1, <1>2, WithoutRowFits
  <2> HIDE DEF x
  <2>3. Grown(recs[r], x) /\ Present(x, Task(r))
    BY <1>3, <2>2 DEF Grown, Present
  <2>4. CASE Drop(r)
    <3> DEFINE d == [now EXCEPT !.pc = "row", !.queue = Tail(@)]
    <3>1. drain' = [drain EXCEPT ![r] = d]
      BY <1>1, <2>4 DEF Drop, NextRow
    <3>2. d \in Leader /\ d.queue = Tail(now.queue) /\ d.pc = "row"
      BY <1>1, <1>2 DEF Leader
    <3>3. LeaderFits(r, x, d)
      BY <1>2, <3>2 DEF LeaderFits, WithRequest, AfterAdmission
    <3> QED BY <1>5, <2>1, <2>2, <2>3, <3>1, <3>2, <3>3
  <2>5. CASE Retire(r)
    <3> DEFINE d == [now EXCEPT !.pc = "write", !.to = "launching"]
    <3>1. drain' = [drain EXCEPT ![r] = d]
      BY <1>1, <2>5 DEF Retire, GotoWrite
    <3>2. d \in Leader /\ d.queue = now.queue /\ d.pc = "write" /\ d.to = "launching"
      BY <1>1 DEF Leader, States
    <3>3. LeaderFits(r, x, d)
      BY <1>1, <1>2, <2>3, <3>2 DEF LeaderFits
    <3> QED BY <1>5, <2>1, <2>2, <2>3, <3>1, <3>2, <3>3
  <2> QED BY <1>6, <2>4, <2>5
<1>7. CASE Write(r)
  <2> DEFINE x == Moved(recs[r], Task(r), now.to)
             d == [now EXCEPT !.pc = "sync"]
  <2>1. now.pc = "write" /\ now.to \in {"launching", "accepted", "unknown"}
    BY <1>1, <1>7 DEF Write, At, LeaderFits
  <2>2. recs' = [recs EXCEPT ![r] = x] /\ drain' = [drain EXCEPT ![r] = d]
    BY <1>1, <1>7 DEF Write, Goto, Moved
  <2>3. x \in Record /\ RecordFits(r, x) /\ Grown(recs[r], x) /\ Present(x, Task(r))
    <3>1. now.to \in Edges
      BY <2>1 DEF Edges
    <3> QED BY <1>1, <1>2, <1>3, <3>1, MovedFits
  <2>4. d \in Leader /\ d.queue = now.queue /\ d.pc = "sync" /\ d.to = now.to
    BY <1>1 DEF Leader
  <2> HIDE DEF x
  <2>5. LeaderFits(r, x, d)
    BY <1>1, <1>2, <2>1, <2>3, <2>4 DEF LeaderFits
  <2> QED BY <1>5, <2>2, <2>3, <2>4, <2>5
<1> QED BY <1>6, <1>7

\* The gate after the await, and the launch.
LEMMA LaunchBase ==
  ASSUME BaseInv, NEW r \in Runs, Sync(r) \/ CreateChild(r)
  PROVE  BaseInv'
<1> DEFINE now == drain[r]
<1>1. /\ now \in Leader /\ HostTypes /\ drain \in [Runs -> Leader]
      /\ recs \in [Runs -> Record] /\ recs[r] \in Record /\ RecordFits(r, recs[r])
      /\ LeaderFits(r, recs[r], now) /\ now.pc \in {"sync", "launch"}
      /\ now.queue # <<>> /\ chain # r /\ chain' = chain /\ recs' = recs
  BY TypeParts
     DEF BaseInv, Sync, CreateChild, At, ChainFits, LeaderFits, WithRequest
<1>2. /\ Task(r) \in Tasks /\ Task(r) = Head(now.queue).task
      /\ Request(r).child = NameOf[Task(r)] /\ NameOf[Task(r)] \in Children
      /\ Tail(now.queue) \in Seq(OwnRows(r)) /\ Tail(now.queue) \in Seq(Row)
  BY <1>1, InHand, RowSequences DEF Request, Task
<1>3. Present(recs[r], Task(r))
  BY <1>1, <1>2 DEF LeaderFits, AfterAdmission
<1>4. ASSUME NEW pc \in {"launch", "launched"}, Goto(r, pc)
      PROVE  \E d \in Leader : /\ drain' = [drain EXCEPT ![r] = d]
                               /\ LeaderFits(r, recs[r], d) /\ d.pc # "admitting"
  <2> DEFINE d == [now EXCEPT !.pc = pc]
  <2>1. d \in Leader /\ d.queue = now.queue /\ d.pc = pc
    BY <1>1 DEF Leader
  <2>2. drain' = [drain EXCEPT ![r] = d]
    BY <1>1, <1>4 DEF Goto
  <2>3. LeaderFits(r, recs[r], d)
    BY <1>1, <1>2, <1>3, <2>1 DEF LeaderFits
  <2> QED BY <2>1, <2>2, <2>3
<1>5. CASE Sync(r)
  <2>1. live' = live /\ HostTypes'
    BY <1>1, <1>2, <1>5 DEF Sync, Gate!ReserveTask, gateVars, hostVars, HostTypes
  <2>2. \E d \in Leader : /\ drain' = [drain EXCEPT ![r] = d]
                          /\ LeaderFits(r, recs[r], d) /\ d.pc # "admitting"
    <3>1. CASE Goto(r, "launch")
      BY <1>4, <3>1
    <3>2. CASE NextRow(r)
      <4> DEFINE d == [now EXCEPT !.pc = "row", !.queue = Tail(@)]
      <4>1. drain' = [drain EXCEPT ![r] = d]
        BY <1>1, <3>2 DEF NextRow
      <4>2. d \in Leader /\ d.queue = Tail(now.queue) /\ d.pc = "row"
        BY <1>1, <1>2 DEF Leader
      <4> QED BY <1>2, <4>1, <4>2 DEF LeaderFits, WithRequest, AfterAdmission
    <3>3. CASE Abandon(r)
      <4>1. <<>> \in Seq(OwnRows(r)) /\ <<>> \in Seq(Row)
        OBVIOUS
      <4>2. Idle \in Leader /\ Idle.queue = <<>> /\ Idle.pc = "idle"
        BY <4>1, DrainAssumption DEF Leader, Idle, States
      <4> QED BY <3>3, <4>1, <4>2 DEF Abandon, LeaderFits, WithRequest, AfterAdmission
    <3> QED BY <1>5, <3>1, <3>2, <3>3 DEF Sync
  <2> QED BY <1>1, <2>1, <2>2, LeaderStep
<1>6. CASE CreateChild(r)
  <2>1. PICK d \in Leader : /\ drain' = [drain EXCEPT ![r] = d]
                            /\ LeaderFits(r, recs[r], d) /\ d.pc # "admitting"
    BY <1>4, <1>6 DEF CreateChild
  <2>2. live' = live \cup {NameOf[Task(r)]} /\ HostTypes'
    BY <1>1, <1>2, <1>6 DEF CreateChild, Gate!ReserveChild, HostTypes
  <2>3. recs[r].tasks[Task(r)].child = NameOf[Task(r)]
    BY <1>1, <1>2, <1>3 DEF RecordFits, TaskFits, Present
  <2>4. recs' = [recs EXCEPT ![r] = recs[r]] /\ Grown(recs[r], recs[r])
    BY <1>1 DEF Grown
  <2>5. \A c \in live' : c \in live \/ \E t \in Tasks : recs[r].tasks[t].child = c
    BY <1>2, <2>2, <2>3
  <2>6. d.pc = "admitting" <=> chain' = r
    BY <1>1, <2>1
  <2> QED BY <1>1, <2>1, <2>2, <2>4, <2>5, <2>6, RunStep
<1> QED BY <1>5, <1>6

\* A record changes while its leader only may be woken: an observer's settlement, the
\* root's tool, the human's command. None of it happens while an admission is written.
LEMMA OutsideBase ==
  ASSUME BaseInv, NEW r \in Runs, NEW x \in Record, recs' = [recs EXCEPT ![r] = x],
         RecordFits(r, x), Grown(recs[r], x), Wake(r) \/ UNCHANGED drain,
         chain = NoRun, HostTypes', UNCHANGED <<live, chain>>
  PROVE  BaseInv'
<1> DEFINE d == IF UNCHANGED drain THEN drain[r] ELSE Woken(drain[r])
<1>1. /\ drain[r] \in Leader /\ drain \in [Runs -> Leader]
      /\ LeaderFits(r, recs[r], drain[r])
      /\ (drain[r].pc = "admitting" <=> chain = r) /\ NoRun \notin Runs
  BY TypeParts, DrainAssumption DEF BaseInv, ChainFits, At
<1>2. LeaderFits(r, x, drain[r])
  BY <1>1, LeaderKept
<1>3. d \in Leader /\ d.pc = drain[r].pc /\ LeaderFits(r, x, d)
  BY <1>1, <1>2, WokenFits
<1>4. drain' = [drain EXCEPT ![r] = d]
  BY <1>1 DEF Wake
<1> QED BY <1>1, <1>3, <1>4, RunStep

\* Every event is of a task of a run.
LEMMA EventTypes ==
  ASSUME HostTypes, NEW e \in events
  PROVE  /\ e.run \in Runs /\ e.task \in Tasks /\ e.to \in {"completed", "unknown"}
         /\ e.step \in {"write", "sync"}
         /\ [e EXCEPT !.step = "sync"] \in
               [run : Runs, task : Tasks, to : {"completed", "unknown"}, step : {"write", "sync"}]
         /\ e = [run |-> e.run, task |-> e.task, to |-> e.to, step |-> e.step]
BY DEF HostTypes

\* The end of a child: the task it is reported for is one that was given its name.
LEMMA OwnerFacts ==
  ASSUME BaseInv, NEW c \in live
  PROVE  /\ OwnerOf(c) \in Runs \X Tasks
         /\ TaskOf(OwnerOf(c)[1], OwnerOf(c)[2]).child = c
<1>1. PICK r \in Runs, t \in Tasks : recs[r].tasks[t].child = c
  BY DEF BaseInv, LiveOwned, TaskOf
<1>2. <<r, t>> \in Owners(c)
  BY <1>1 DEF Owners
<1>3. OwnerOf(c) \in Owners(c)
  BY <1>2 DEF OwnerOf
<1> QED BY <1>3 DEF Owners, TaskOf

LEMMA ChildBase ==
  ASSUME BaseInv, NEW c \in Children, NEW to \in Settled, ChildEnds(c, to) \/ Dispose(c)
  PROVE  BaseInv'
<1>1. HostTypes
  BY TypeParts DEF BaseInv
<1>2. CASE ChildEnds(c, to)
  <2> DEFINE r == OwnerOf(c)[1]  t == OwnerOf(c)[2]
             e == [run |-> r, task |-> t, to |-> to, step |-> "write"]
  <2>1. c \in live /\ to \in {"completed", "unknown"}
    BY <1>2 DEF ChildEnds, Running, Settled
  <2>2. r \in Runs /\ t \in Tasks
    BY <2>1, OwnerFacts
  <2>3. events' \in {events, events \cup {e}}
    BY <1>2 DEF ChildEnds
  <2>4. Wake(r) \/ UNCHANGED drain
    BY <1>2 DEF ChildEnds
  <2>5. /\ ended' \subseteq live /\ begun' \subseteq begun
        /\ lost' \subseteq lost \cup {<<r, t>>}
    BY <1>1, <1>2, <2>1 DEF ChildEnds, HostTypes
  <2>6. UNCHANGED <<recs, live, chain, slots, port, faults, crashes>>
    BY <1>2 DEF ChildEnds, gateVars
  <2>7. e \in [run : Runs, task : Tasks, to : {"completed", "unknown"}, step : {"write", "sync"}]
    BY <2>1, <2>2
  <2> HIDE DEF r, t, e
  <2>8. HostTypes'
    BY <1>1, <2>2, <2>3, <2>5, <2>6, <2>7 DEF HostTypes
  <2> QED BY <2>2, <2>4, <2>6, <2>8, WakeBase
<1>3. CASE Dispose(c)
  <2>1. live' \subseteq live /\ UNCHANGED <<recs, chain, drain>>
    BY <1>3 DEF Dispose, Gate!ReleaseChild
  <2>2. HostTypes'
    BY <1>1, <1>3 DEF Dispose, Gate!ReleaseChild, HostTypes
  <2>3. TypeOK'
    BY <2>1, <2>2, TypeParts DEF BaseInv
  <2>4. ChainFits' /\ LiveOwned'
    BY <2>1 DEF BaseInv, ChainFits, LiveOwned, At, TaskOf
  <2> QED BY <2>1, <2>3, <2>4 DEF BaseInv
<1> QED BY <1>2, <1>3

LEMMA SettleBase ==
  ASSUME BaseInv, NEW e \in events, Settle(e) \/ SettleFails(e) \/ SyncSettled(e)
  PROVE  BaseInv'
<1>1. /\ HostTypes /\ e.run \in Runs /\ e.task \in Tasks /\ recs[e.run] \in Record
      /\ RecordFits(e.run, recs[e.run]) /\ recs \in [Runs -> Record]
      /\ e.to \in {"completed", "unknown"}
  BY TypeParts, EventTypes DEF BaseInv
<1> DEFINE next == [e EXCEPT !.step = "sync"]
<1>2. next \in [run : Runs, task : Tasks, to : {"completed", "unknown"}, step : {"write", "sync"}]
  BY <1>1, EventTypes
<1> HIDE DEF next
<1>3. UNCHANGED <<live, chain>> /\ (Wake(e.run) \/ UNCHANGED drain)
  BY <1>1 DEF Settle, SettleFails, SyncSettled, gateVars, Gate!ReleaseTask, Gate!ReserveTask
<1>4. HostTypes'
  <2>1. events' \subseteq events \cup {next}
    BY DEF Settle, SettleFails, SyncSettled, next
  <2>2. /\ UNCHANGED <<port, ended, crashes, begun>>
        /\ lost' \subseteq lost \cup {<<e.run, e.task>>}
        /\ faults' = faults \/ (faults < MaxFaults /\ faults' = faults + 1)
    BY DEF Settle, SettleFails, SyncSettled
  <2>4. faults' \in 0..MaxFaults
    BY <1>1, <2>2, DrainAssumption DEF HostTypes
  <2>3. slots' \in [Tasks -> Children \cup {NoChild, Free}]
    BY <1>1 DEF Settle, SettleFails, SyncSettled, gateVars,
                Gate!ReleaseTask, Gate!ReserveTask, HostTypes
  <2> QED BY <1>1, <1>2, <1>3, <2>1, <2>2, <2>3, <2>4 DEF HostTypes
<1>5. CASE UNCHANGED recs
  BY <1>1, <1>3, <1>4, <1>5, WakeBase
<1>6. CASE Settle(e) /\ CanTransition(recs[e.run].tasks[e.task].state, e.to)
  <2> DEFINE x == Moved(recs[e.run], e.task, e.to)
  <2>1. recs' = [recs EXCEPT ![e.run] = x] /\ chain = NoRun
    BY <1>1, <1>6 DEF Settle, MayWrite, ChainFree, Moved
  <2>2. Present(recs[e.run], e.task) /\ e.to \in Edges
    BY <1>1, <1>6 DEF Present, CanTransition, Transitions, Unfinished, Edges
  <2>3. x \in Record /\ RecordFits(e.run, x) /\ Grown(recs[e.run], x)
    BY <1>1, <2>2, MovedFits
  <2> QED BY <1>1, <1>3, <1>4, <2>1, <2>3, OutsideBase
<1> QED BY <1>5, <1>6 DEF Settle, SettleFails, SyncSettled

\* Only these three fields of a record are the root's and the human's to set.
LEMMA CommandBase ==
  ASSUME BaseInv, NEW r \in Runs, Commands(r)
  PROVE  BaseInv'
<1>1. /\ HostTypes /\ recs[r] \in Record /\ RecordFits(r, recs[r])
      /\ recs \in [Runs -> Record]
  BY TypeParts DEF BaseInv
<1>2. CASE Start(r)
  <2>1. HostTypes' /\ UNCHANGED <<recs, live, chain>> /\ Wake(r)
    BY <1>1, <1>2 DEF Start, gateVars, HostTypes
  <2> QED BY <2>1, WakeBase
<1>3. ASSUME NEW t \in TasksOf[r], Submit(r, t)
      PROVE  BaseInv'
  <2> DEFINE x == WithRow(recs[r], t, NameOf[t], Cost)
  <2>1. /\ recs' = [recs EXCEPT ![r] = x] /\ Wake(r) /\ chain = NoRun
        /\ UNCHANGED <<live, chain>> /\ HostTypes'
    BY <1>1, <1>3 DEF Submit, MayWrite, ChainFree, gateVars, hostVars, HostTypes
  <2>2. x \in Record /\ RecordFits(r, x) /\ x.tasks = recs[r].tasks
    BY <1>1, WithRowFits
  <2> HIDE DEF x
  <2>3. Grown(recs[r], x)
    BY <2>2 DEF Grown, Present
  <2> QED BY <2>1, <2>2, <2>3, OutsideBase
<1>4. CASE Finish(r) \/ Stop(r) \/ \E target \in Targets : SetTarget(r, target)
  <2>1. PICK x \in Record :
          /\ recs' = [recs EXCEPT ![r] = x]
          /\ x.tasks = recs[r].tasks /\ x.ready = recs[r].ready
          /\ x.budget = recs[r].budget /\ x.tombstones = recs[r].tombstones
    <3>1. ASSUME NEW phase \in Phases, NEW goal \in Nat
          PROVE  LET x == [recs[r] EXCEPT !.phase = phase]
                     y == [recs[r] EXCEPT !.target = goal]
                 IN /\ x \in Record
                    /\ x.tasks = recs[r].tasks /\ x.ready = recs[r].ready
                    /\ x.budget = recs[r].budget /\ x.tombstones = recs[r].tombstones
                    /\ y \in Record
                    /\ y.tasks = recs[r].tasks /\ y.ready = recs[r].ready
                    /\ y.budget = recs[r].budget /\ y.tombstones = recs[r].tombstones
      BY <1>1 DEF Record
    <3>2. CASE Finish(r)
      <4>1. recs' = [recs EXCEPT ![r] = [recs[r] EXCEPT !.phase = "closing"]]
        BY <1>1, <3>2 DEF Finish
      <4> QED BY <3>1, <4>1 DEF Phases
    <3>3. CASE Stop(r)
      <4>1. recs' = [recs EXCEPT ![r] = [recs[r] EXCEPT !.phase = "paused"]]
        BY <1>1, <3>3 DEF Stop
      <4> QED BY <3>1, <4>1 DEF Phases
    <3>4. CASE \E target \in Targets : SetTarget(r, target)
      <4>1. PICK target \in Targets : SetTarget(r, target)
        BY <3>4
      <4>2. recs' = [recs EXCEPT ![r] = [recs[r] EXCEPT !.target = target]] /\ target \in Nat
        BY <1>1, <4>1, DrainAssumption DEF SetTarget
      <4> QED BY <3>1, <4>2 DEF Phases
    <3> QED BY <1>4, <3>2, <3>3, <3>4
  <2>2. RecordFits(r, x) /\ Grown(recs[r], x)
    BY <1>1, <2>1 DEF RecordFits, Grown, Present
  <2>3. chain = NoRun /\ UNCHANGED <<live, chain, drain>> /\ HostTypes'
    BY <1>1, <1>4 DEF SetTarget, Finish, Stop, MayWrite, ChainFree, gateVars, hostVars, HostTypes
  <2> QED BY <2>1, <2>2, <2>3, OutsideBase
<1> QED BY <1>2, <1>3, <1>4 DEF Commands

LEMMA CrashBase ==
  ASSUME BaseInv, Crash
  PROVE  BaseInv'
<1> DEFINE next(r) == IF recs[r].ready = <<>> THEN Idle ELSE Woken(Idle)
<1>1. /\ HostTypes /\ recs \in [Runs -> Record] /\ recs' = recs /\ live' = {}
      /\ chain' = NoRun /\ NoRun \notin Runs /\ drain' = [r \in Runs |-> next(r)]
      /\ \A r \in Runs : RecordFits(r, recs[r])
  BY TypeParts, DrainAssumption DEF BaseInv, Crash
<1>2. ASSUME NEW r \in Runs
      PROVE  next(r) \in Leader /\ LeaderFits(r, recs[r], next(r)) /\ next(r).pc = "idle"
  <2>1. <<>> \in Seq(OwnRows(r)) /\ <<>> \in Seq(Row)
    OBVIOUS
  <2>2. Idle \in Leader /\ Idle.queue = <<>> /\ Idle.pc = "idle"
    BY <2>1, DrainAssumption DEF Leader, Idle, States
  <2>3. LeaderFits(r, recs[r], Idle)
    BY <2>1, <2>2 DEF LeaderFits, WithRequest, AfterAdmission
  <2> QED BY <2>2, <2>3, WokenFits
<1> HIDE DEF next
<1>3. drain' \in [Runs -> Leader] /\ \A r \in Runs : drain'[r] = next(r)
  BY <1>1, <1>2
<1>4. HostTypes'
  <2>1. crashes' \in 0..MaxCrashes
    BY <1>1, DrainAssumption DEF Crash, HostTypes
  <2>2. slots' \in [Tasks -> Children \cup {NoChild, Free}]
    BY DEF Crash
  <2>3. {<<e.run, e.task>> : e \in events} \subseteq Runs \X Tasks
    <3>1. \A e \in events : e.run \in Runs /\ e.task \in Tasks
      BY <1>1, EventTypes
    <3> QED BY <3>1
  <2>4. lost' \subseteq Runs \X Tasks
    BY <1>1, <2>3 DEF Crash, HostTypes
  <2> QED BY <1>1, <2>1, <2>2, <2>4 DEF Crash, HostTypes
<1>5. TypeOK' /\ LiveOwned' /\ ChainFits'
  BY <1>1, <1>2, <1>3, <1>4, TypeParts DEF LiveOwned, ChainFits, At
<1> QED BY <1>1, <1>2, <1>3, <1>5 DEF BaseInv

LEMMA InitialFits ==
  ASSUME NEW r \in Runs, NEW target \in Nat
  PROVE  InitialRecord(target) \in Record /\ RecordFits(r, InitialRecord(target))
<1> DEFINE x == InitialRecord(target)
<1>1. Absent \in TaskRecord /\ Absent.state = "absent" /\ Absent.child = NoChild /\ Absent.attempt = 0
  BY DEF Absent, TaskRecord
<1>2. [t \in Tasks |-> Absent] \in [Tasks -> TaskRecord]
  BY <1>1
<1>3. <<>> \in Seq(Row) /\ <<>> \in Seq(OwnRows(r))
  OBVIOUS
<1>4. x \in Record
  BY <1>2, <1>3 DEF InitialRecord, Record, Budget, Phases
<1>5. /\ x.ready = <<>> /\ x.tombstones = {} /\ x.budget.spent = 0
      /\ x.budget.unknownReserved = 0 /\ x.budget.overage = 0
      /\ x.budget.rootSpent = 0 /\ x.budget.reserved = 0
      /\ \A t \in Tasks : x.tasks[t] = Absent
  BY DEF InitialRecord
<1>6. 0 <= ChildCeiling
  BY CostAssumption DEF ChildCeiling, Most
<1> HIDE DEF x
<1>7. RecordFits(r, x)
  BY <1>1, <1>3, <1>5, <1>6 DEF RecordFits, TaskFits
<1> QED BY <1>4, <1>7 DEF x

LEMMA InitBase == Init => BaseInv
<1> SUFFICES ASSUME Init PROVE BaseInv
  OBVIOUS
<1>1. ASSUME NEW r \in Runs
      PROVE  recs[r] \in Record /\ RecordFits(r, recs[r])
  <2>1. recs[r] \in {InitialRecord(target) : target \in Targets}
    BY DEF Init
  <2>2. PICK target \in Targets : recs[r] = InitialRecord(target)
    BY <2>1
  <2> QED BY <2>2, InitialFits, DrainAssumption
<1>2. ASSUME NEW r \in Runs
      PROVE  Idle \in Leader /\ LeaderFits(r, recs[r], Idle) /\ Idle.pc = "idle"
  <2>1. <<>> \in Seq(OwnRows(r)) /\ <<>> \in Seq(Row)
    OBVIOUS
  <2>2. Idle \in Leader /\ Idle.queue = <<>> /\ Idle.pc = "idle"
    BY <2>1, DrainAssumption DEF Leader, Idle, States
  <2> QED BY <2>1, <2>2 DEF LeaderFits, WithRequest, AfterAdmission
<1>3. drain \in [Runs -> Leader] /\ recs \in [Runs -> Record]
  BY <1>1, <1>2 DEF Init
<1>4. HostTypes
  BY DrainAssumption DEF Init, HostTypes
<1>5. ChainFits /\ LiveOwned
  BY <1>2, DrainAssumption DEF Init, ChainFits, LiveOwned, At
<1> QED BY <1>1, <1>2, <1>3, <1>4, <1>5, TypeParts DEF Init, BaseInv

LEMMA StepBase ==
  ASSUME BaseInv, [Next]_vars
  PROVE  BaseInv'
<1>1. ASSUME NEW r \in Runs, Pass(r)
      PROVE  BaseInv'
  BY <1>1, PassBase, TakeSlotBase, PersistBase, RowBase, LaunchBase DEF Pass
<1>2. ASSUME NEW r \in Runs, Faults(r)
      PROVE  BaseInv'
  BY <1>2, PassBase, PersistBase DEF Faults
<1>3. ASSUME NEW c \in Children, Dispose(c) \/ \E to \in Settled : ChildEnds(c, to)
      PROVE  BaseInv'
  BY <1>3, ChildBase DEF Settled
<1>4. ASSUME NEW e \in events, Settle(e) \/ SyncSettled(e) \/ SettleFails(e)
      PROVE  BaseInv'
  BY <1>4, SettleBase
<1>5. CASE UNCHANGED vars
  BY <1>5 DEF vars, BaseInv, TypeOK, ChainFits, LiveOwned, At, TaskOf
<1> QED BY <1>1, <1>2, <1>3, <1>4, <1>5, CommandBase, CrashBase DEF Next, Observer

THEOREM BaseCorrect == Spec => []BaseInv
BY InitBase, StepBase, PTL DEF Spec

\* Whatever interleaves, fails or restarts, every variable keeps its shape: in
\* particular the leader always has a request in hand where it uses one, and the
\* observer finds a task for every child that ends.
THEOREM DrainTypeCorrect == Spec => []TypeOK
<1>1. BaseInv => TypeOK
  BY DEF BaseInv
<1> QED BY <1>1, BaseCorrect, PTL

\* The children's commitments stay within the ceiling less the root's reserve (host.ts
\* tryReserveAdmission step 4): one admission at a time is decided and written.
THEOREM CeilingKept == Spec => []CommittedWithinCeiling
<1>1. BaseInv => CommittedWithinCeiling
  <2> SUFFICES ASSUME BaseInv, NEW r \in Runs
               PROVE  ChildCommitted(recs[r].budget) <= ChildCeiling
    BY DEF CommittedWithinCeiling
  <2>1. recs[r] \in Record /\ RecordFits(r, recs[r])
    BY TypeParts DEF BaseInv
  <2> QED BY <2>1 DEF RecordFits, ChildCommitted, Record, Budget
<1> QED BY <1>1, BaseCorrect, PTL

------------------------------------------------------------------------------
(* What a step may do to a record. *)

Commits(r, x, y) ==
  \/ \E t \in TasksOf[r] : /\ Refusal(x, t, Cost) = "admit"
                           /\ y = Admitted(x, t, NameOf[t], Cost)
  \/ \E t \in Tasks, to \in Edges : /\ CanTransition(x.tasks[t].state, to)
                                    /\ y = Moved(x, t, to)
  \/ \E t \in TasksOf[r] : y = WithRow(x, t, NameOf[t], Cost)
  \/ \E t \in Tasks : Present(x, t) /\ y = WithoutRow(x, t)
  \/ x.phase = "open" /\ \E phase \in {"closing", "paused"} : y = [x EXCEPT !.phase = phase]
  \/ \E target \in Targets : y = [x EXCEPT !.target = target]

\* Every step commits to one record at most, and does so by one of the record's
\* operations, decided on the record it is applied to.
LEMMA RecordSteps ==
  ASSUME BaseInv, [Next]_vars
  PROVE  \/ recs' = recs
         \/ \E r \in Runs : \E y : /\ recs' = [recs EXCEPT ![r] = y]
                                   /\ Commits(r, recs[r], y)
<1> DEFINE Goal == \/ recs' = recs
                   \/ \E r \in Runs : \E y : /\ recs' = [recs EXCEPT ![r] = y]
                                             /\ Commits(r, recs[r], y)
<1>0. recs \in [Runs -> Record] /\ HostTypes
  BY TypeParts DEF BaseInv
<1>1. ASSUME NEW r \in Runs, Pass(r), recs' # recs
      PROVE  Persist(r) \/ Drop(r) \/ Retire(r) \/ Write(r)
  BY <1>1 DEF Pass, TakeBatch, NextEntry, EndPass, NextRequest, Refuse, TakeSlot,
              WriteRefused, Sync, CreateChild, LaunchReturns, LaunchThrows
<1>2. ASSUME NEW r \in Runs, Persist(r) \/ Drop(r) \/ Retire(r) \/ Write(r)
      PROVE  Goal
  <2>1. /\ LeaderFits(r, recs[r], drain[r])
        /\ drain[r].pc \in {"admitting", "drop", "retire", "write"}
    BY <1>2 DEF BaseInv, Persist, Drop, Retire, Write, At
  <2>2. /\ drain[r].queue # <<>> /\ Task(r) = Head(drain[r].queue).task
        /\ Request(r) = Head(drain[r].queue)
    BY <2>1 DEF LeaderFits, WithRequest, Task, Request
  <2>3. /\ Task(r) \in TasksOf[r] /\ Task(r) \in Tasks /\ Request(r).cost = Cost
        /\ Request(r).child = NameOf[Task(r)]
    BY <2>1, <2>2, InHand
  <2>4. CASE Persist(r)
    <3>1. Refusal(recs[r], Task(r), Cost) = "admit"
      BY <2>1, <2>2, <2>4 DEF LeaderFits, Persist, At
    <3>2. recs' = [recs EXCEPT ![r] = Admitted(recs[r], Task(r), NameOf[Task(r)], Cost)]
      BY <2>3, <2>4 DEF Persist
    <3> QED BY <2>3, <3>1, <3>2 DEF Commits
  <2>5. CASE Drop(r) \/ Retire(r)
    <3>1. Present(recs[r], Task(r))
      BY <2>1, <2>2, <2>5 DEF LeaderFits, AfterAdmission, Drop, Retire, At
    <3>2. recs' = [recs EXCEPT ![r] = WithoutRow(recs[r], Task(r))]
      BY <2>5 DEF Drop, Retire
    <3> QED BY <2>3, <3>1, <3>2 DEF Commits
  <2>6. CASE Write(r)
    <3>1. drain[r].to \in Edges
      BY <2>1, <2>6 DEF LeaderFits, Write, At, Edges
    <3>2. /\ recs' = [recs EXCEPT ![r] = Moved(recs[r], Task(r), drain[r].to)]
          /\ CanTransition(recs[r].tasks[Task(r)].state, drain[r].to)
      BY <2>6 DEF Write, Moved
    <3> QED BY <2>3, <3>1, <3>2 DEF Commits
  <2> QED BY <1>2, <2>4, <2>5, <2>6
<1>3. ASSUME NEW r \in Runs, Faults(r)
      PROVE  recs' = recs
  BY <1>3 DEF Faults, PersistFails, DiskFails
<1>4. ASSUME NEW r \in Runs, Commands(r)
      PROVE  Goal
  <2>1. ASSUME NEW t \in TasksOf[r], Submit(r, t)
        PROVE  Goal
    <3>1. recs' = [recs EXCEPT ![r] = WithRow(recs[r], t, NameOf[t], Cost)]
      BY <2>1 DEF Submit
    <3> QED BY <3>1 DEF Commits
  <2>2. ASSUME NEW target \in Targets, SetTarget(r, target)
        PROVE  Goal
    <3>1. recs' = [recs EXCEPT ![r] = [recs[r] EXCEPT !.target = target]]
      BY <1>0, <2>2 DEF SetTarget
    <3> QED BY <3>1 DEF Commits
  <2>3. CASE Finish(r)
    <3>1. recs' = [recs EXCEPT ![r] = [recs[r] EXCEPT !.phase = "closing"]]
      BY <1>0, <2>3 DEF Finish
    <3> QED BY <2>3, <3>1 DEF Commits, Finish
  <2>4. CASE Stop(r)
    <3>1. recs' = [recs EXCEPT ![r] = [recs[r] EXCEPT !.phase = "paused"]]
      BY <1>0, <2>4 DEF Stop
    <3> QED BY <2>4, <3>1 DEF Commits, Stop
  <2>5. CASE Start(r)
    BY <2>5 DEF Start
  <2> QED BY <1>4, <2>1, <2>2, <2>3, <2>4, <2>5 DEF Commands
<1>5. ASSUME NEW c \in Children, Dispose(c) \/ \E to \in Settled : ChildEnds(c, to)
      PROVE  recs' = recs
  BY <1>5 DEF Dispose, ChildEnds
<1>6. ASSUME NEW e \in events, Settle(e) \/ SyncSettled(e) \/ SettleFails(e)
      PROVE  Goal
  <2>1. e.run \in Runs /\ e.task \in Tasks /\ e.to \in Edges
    BY <1>0, EventTypes DEF Edges
  <2>2. \/ recs' = recs
        \/ /\ recs' = [recs EXCEPT ![e.run] = Moved(recs[e.run], e.task, e.to)]
           /\ CanTransition(recs[e.run].tasks[e.task].state, e.to)
    BY <1>6 DEF Settle, SyncSettled, SettleFails, Moved
  <2> QED BY <2>1, <2>2 DEF Commits
<1>7. CASE Crash \/ UNCHANGED vars
  BY <1>7 DEF Crash, vars
<1> QED BY <1>1, <1>2, <1>3, <1>4, <1>5, <1>6, <1>7 DEF Next, Observer

\* A ready row leaves the table only once its task has been admitted, whatever fails,
\* is refused or crashes between two awaits (host.ts runDrainPass, clearReadyAssignment).
THEOREM NoSubmissionLost == Spec => RowLeavesOnlyAdmitted
<1>1. ASSUME BaseInv, [Next]_vars, NEW r \in Runs, NEW t \in Tasks,
             HasRow(recs[r], t), ~HasRow(recs'[r], t)
      PROVE  Present(recs'[r], t)
  <2>1. /\ recs \in [Runs -> Record] /\ recs[r] \in Record /\ RecordFits(r, recs[r])
        /\ recs[r].ready \in Seq(Row)
    BY <1>1, TypeParts DEF BaseInv, Record
  <2>2. PICK y : recs'[r] = y /\ Commits(r, recs[r], y)
    <3>1. recs' # recs
      BY <1>1
    <3>2. PICK q \in Runs : \E y : recs' = [recs EXCEPT ![q] = y] /\ Commits(q, recs[q], y)
      BY <1>1, <3>1, RecordSteps
    <3>3. q = r
      BY <1>1, <2>1, <3>2
    <3> QED BY <2>1, <3>2, <3>3
  <2>3. CASE y.ready = recs[r].ready
    BY <1>1, <2>2, <2>3 DEF HasRow
  <2>4. ASSUME NEW u \in TasksOf[r], y = WithRow(recs[r], u, NameOf[u], Cost)
        PROVE  FALSE
    BY <1>1, <2>1, <2>2, <2>4, WithRowFits
  <2>5. ASSUME NEW u \in Tasks, Present(recs[r], u), y = WithoutRow(recs[r], u)
        PROVE  Present(y, t)
    <3>1. y.tasks = recs[r].tasks /\ (t # u => HasRow(y, t))
      BY <1>1, <2>1, <2>5, WithoutRowFits
    <3> QED BY <1>1, <2>2, <2>5, <3>1 DEF Present
  <2>6. ASSUME NEW u \in TasksOf[r], Refusal(recs[r], u, Cost) = "admit",
               y = Admitted(recs[r], u, NameOf[u], Cost)
        PROVE  y.ready = recs[r].ready
    BY <2>1, <2>6, AdmittedFits
  <2>7. ASSUME NEW u \in Tasks, NEW to \in Edges, CanTransition(recs[r].tasks[u].state, to),
               y = Moved(recs[r], u, to)
        PROVE  y.ready = recs[r].ready
    <3>1. Present(recs[r], u)
      BY <2>7 DEF Present, CanTransition, Transitions, Unfinished
    <3> QED BY <2>1, <2>7, <3>1, MovedFits
  <2>8. ASSUME NEW phase, NEW target,
               y = [recs[r] EXCEPT !.phase = phase] \/ y = [recs[r] EXCEPT !.target = target]
        PROVE  y.ready = recs[r].ready
    BY <2>1, <2>8 DEF Record
  <2> QED BY <2>2, <2>3, <2>4, <2>5, <2>6, <2>7, <2>8 DEF Commits
<1>2. BaseInv /\ [Next]_vars
        => [\A r \in Runs, t \in Tasks :
              HasRow(recs[r], t) /\ ~HasRow(recs'[r], t) => Present(recs'[r], t)]_vars
  BY <1>1
<1> QED BY <1>2, BaseCorrect, PTL DEF Spec, RowLeavesOnlyAdmitted

------------------------------------------------------------------------------
(* Each record's history is one the ledger allows. *)

\* The ledger objects to an admission for the reasons the drain does.
LEMMA LedgerRefusal ==
  ASSUME NEW r \in Runs, NEW x, NEW t, NEW cost
  PROVE  Ledger(r)!Refusal(x, t, cost) = Refusal(x, t, cost)
<1>1. \A S : Ledger(r)!Cardinality(S) = Cardinality(S)
  BY Zenon DEF Ledger!Cardinality, Cardinality
<1>2. Ledger(r)!HeldSlots(x) = HeldSlots(x)
  BY <1>1 DEF Ledger!HeldSlots, HeldSlots, Ledger!Held, Held, Ledger!HoldsSlot, HoldsSlot,
              Ledger!SlotHoldingStates, SlotHoldingStates, Ledger!States, States
<1>3. /\ Ledger(r)!ChildCeiling = ChildCeiling
      /\ Ledger(r)!ChildCommitted(x.budget) = ChildCommitted(x.budget)
  BY DEF Ledger!ChildCeiling, ChildCeiling, Ledger!Most, Most, Ledger!ChildCommitted, ChildCommitted
<1>4. Ledger(r)!HoldsSlot(x.tasks[t].state) = HoldsSlot(x.tasks[t].state)
  BY DEF Ledger!HoldsSlot, HoldsSlot, Ledger!SlotHoldingStates, SlotHoldingStates,
         Ledger!States, States
<1> QED BY <1>2, <1>3, <1>4 DEF Ledger!Refusal, Refusal

\* What a commit does is one of the ledger's actions.
LEMMA CommitFollows ==
  ASSUME NEW r \in Runs, recs[r] \in Record, RecordFits(r, recs[r]),
         Commits(r, recs[r], recs'[r])
  PROVE  Ledger(r)!Next
<1> DEFINE x == recs[r]
<1>1. ASSUME NEW t \in TasksOf[r], Refusal(x, t, Cost) = "admit",
             recs'[r] = Admitted(x, t, NameOf[t], Cost)
      PROVE  Ledger(r)!Next
  <2>1. t \in Tasks /\ NameOf[t] \in Children /\ Cost \in Costs
    BY DrainAssumption
  <2>2. x.tasks[t].attempt < Ceiling
    BY <1>1, AdmittedFits
  <2>4. /\ Ledger(r)!Refusal(x, t, Cost) = "admit"
        /\ recs'[r] = Ledger(r)!Admitted(x, t, NameOf[t], Cost)
    <3>1. Ledger(r)!Refusal(x, t, Cost) = Refusal(x, t, Cost)
      BY LedgerRefusal
    <3>2. Ledger(r)!Admitted(x, t, NameOf[t], Cost) = Admitted(x, t, NameOf[t], Cost)
      BY DEF Ledger!Admitted, Admitted
    <3> QED BY <1>1, <3>1, <3>2
  <2>3. Ledger(r)!Admit(t, NameOf[t], Cost)
    BY <2>2, <2>4 DEF Ledger!Admit
  <2> QED BY <2>1, <2>3 DEF Ledger!Next, Ledger!TaskStep
<1>2. ASSUME NEW t \in Tasks, NEW to \in Edges, CanTransition(x.tasks[t].state, to),
             recs'[r] = Moved(x, t, to)
      PROVE  Ledger(r)!Next
  <2>1. Present(x, t)
    BY <1>2 DEF Present, CanTransition, Transitions, Unfinished
  <2>2. recs'[r].budget = x.budget
    BY <1>2, <2>1, MovedFits
  <2>3. Ledger(r)!Affordable(recs'[r].budget)
    BY <2>2 DEF RecordFits, Ledger!Affordable
  <2>4. Ledger(r)!ReleasesByDefault(to) = FALSE /\ to \in Ledger(r)!States
    BY DEF Edges, Ledger!ReleasesByDefault, Ledger!TerminalStates, Ledger!States
  <2>5. Ledger(r)!Transition(t, to, FALSE, 0)
    <3>1. Ledger(r)!CanTransition(x.tasks[t].state, to)
      BY <1>2 DEF Ledger!CanTransition, CanTransition, Ledger!Transitions, Transitions,
                  Ledger!Unfinished, Unfinished, Ledger!States, States
    <3>2. Ledger(r)!Transitioned(x, t, to, FALSE, 0) = Transitioned(x, t, to, FALSE, 0)
      BY DEF Ledger!Transitioned, Transitioned, Ledger!TerminalStates, TerminalStates
    <3>3. recs'[r] = Ledger(r)!Transitioned(x, t, to, FALSE, 0)
      BY <1>2, <3>2 DEF Moved
    <3> QED BY <2>3, <3>1, <3>3 DEF Ledger!Transition
  <2>6. Ledger(r)!Transition(t, to, Ledger(r)!ReleasesByDefault(to), 0)
    BY <2>4, <2>5
  <2>7. Ledger(r)!TaskStep(t)
    BY <2>4, <2>6 DEF Ledger!TaskStep
  <2> QED BY <2>7 DEF Ledger!Next
<1>3. ASSUME NEW t \in TasksOf[r], recs'[r] = WithRow(x, t, NameOf[t], Cost)
      PROVE  Ledger(r)!Next
  <2>1. t \in Tasks /\ NameOf[t] \in Children /\ Cost \in Costs
    BY DrainAssumption
  <2>2. Ledger(r)!SubmitReady(t, NameOf[t], Cost)
    <3>0. Ledger(r)!WithRow(x, t, NameOf[t], Cost) = WithRow(x, t, NameOf[t], Cost)
      BY DEF Ledger!WithRow, WithRow, Ledger!HasRow, HasRow
    <3>1. recs'[r] = Ledger(r)!WithRow(x, t, NameOf[t], Cost)
      BY <1>3, <3>0
    <3> QED BY <3>1 DEF Ledger!SubmitReady
  <2> QED BY <2>1, <2>2 DEF Ledger!Next, Ledger!TaskStep
<1>4. ASSUME NEW t \in Tasks, recs'[r] = WithoutRow(x, t)
      PROVE  Ledger(r)!Next
  <2>1. Ledger(r)!ClearReady(t)
    <3>1. Ledger(r)!WithoutRow(x, t) = WithoutRow(x, t)
      BY DEF Ledger!HasRow, HasRow, Ledger!WithoutRow, WithoutRow, Ledger!RowIndex, RowIndex
    <3> QED BY <1>4, <3>1 DEF Ledger!ClearReady
  <2> QED BY <2>1 DEF Ledger!Next, Ledger!TaskStep
<1>5. ASSUME x.phase = "open", NEW phase \in {"closing", "paused"},
             recs'[r] = [x EXCEPT !.phase = phase]
      PROVE  Ledger(r)!Next
  BY <1>5 DEF Ledger!Next, Ledger!Human, Ledger!BeginClosing, Ledger!Pause, Record
<1>6. ASSUME NEW target \in Targets, recs'[r] = [x EXCEPT !.target = target]
      PROVE  Ledger(r)!Next
  BY <1>6 DEF Ledger!Next, Ledger!Human, Ledger!SetTargetChildren
<1> QED BY <1>1, <1>2, <1>3, <1>4, <1>5, <1>6 DEF Commits

\* Whatever interleaves, fails or restarts, every run's record goes through a history
\* of the record's own operations: the two invariants and the action properties proved
\* of RunLedger hold of every run of the drain.
THEOREM DrainFollowsLedger == Spec => RecordsFollowLedger
<1>1. ASSUME Init, NEW r \in Runs PROVE Ledger(r)!Init
  <2>1. recs[r] \in {InitialRecord(target) : target \in Targets}
    BY <1>1 DEF Init
  <2>2. PICK target \in Targets : recs[r] = InitialRecord(target)
    BY <2>1
  <2>3. Ledger(r)!InitialRecord(target) = InitialRecord(target)
    BY DEF Ledger!InitialRecord, InitialRecord, Ledger!Absent, Absent
  <2> QED BY <2>2, <2>3 DEF Ledger!Init
<1>2. ASSUME BaseInv, [Next]_vars, NEW r \in Runs
      PROVE  Ledger(r)!Next \/ UNCHANGED recs[r]
  <2>1. recs \in [Runs -> Record] /\ RecordFits(r, recs[r])
    BY <1>2, TypeParts DEF BaseInv
  <2>2. ASSUME NEW q \in Runs, NEW y, recs' = [recs EXCEPT ![q] = y], Commits(q, recs[q], y)
        PROVE  Ledger(r)!Next \/ UNCHANGED recs[r]
    <3>1. CASE q = r
      BY <2>1, <2>2, <3>1, CommitFollows
    <3>2. CASE q # r
      BY <2>1, <2>2, <3>2
    <3> QED BY <3>1, <3>2
  <2> QED BY <1>2, <2>2, RecordSteps
<1>3. Init => \A r \in Runs : Ledger(r)!Init
  BY <1>1
<1>4. BaseInv /\ [Next]_vars => [\A r \in Runs : Ledger(r)!Next \/ UNCHANGED recs[r]]_vars
  BY <1>2
<1> QED BY <1>3, <1>4, BaseCorrect, PTL DEF Spec, RecordsFollowLedger

------------------------------------------------------------------------------
(* The gate, under the drain and the observer. *)

\* What the gate asks of its constants.
LEMMA GateAssumptions ==
  /\ IsFiniteSet(Tasks) /\ IsFiniteSet(Children)
  /\ HostCapacity \in Nat \ {0}
  /\ NoChild \notin Children /\ Free \notin Children \cup {NoChild}
  /\ NameOf \in [Tasks -> Children]
  /\ \A t, u \in Tasks : NameOf[t] = NameOf[u] => t = u
BY DrainAssumption, TaskAssumption

\* The gate counts with the cardinality of this module.
LEMMA Counts ==
  /\ Gate!Occupied = Cardinality(live) + Cardinality(Gate!Unbacked)
  /\ Gate!Occupied' = Cardinality(live') + Cardinality(Gate!Unbacked')
<1>1. \A S : Gate!Cardinality(S) = Cardinality(S)
  BY Zenon DEF Gate!Cardinality, Cardinality
<1> QED BY <1>1 DEF Gate!Occupied

\* Both parts of the count are sets of known size.
LEMMA Counted ==
  ASSUME Gate!TypeOK
  PROVE  /\ IsFiniteSet(live) /\ IsFiniteSet(Gate!Unbacked)
         /\ Cardinality(live) \in Nat /\ Cardinality(Gate!Unbacked) \in Nat
<1>1. live \in SUBSET Children /\ Gate!Unbacked \in SUBSET Tasks
  BY DEF Gate!TypeOK, Gate!Unbacked, Gate!Entered
<1> QED BY <1>1, GateAssumptions, FS_Subset, FS_CardinalityType

\* Adding one element never adds more than one to a count, and a smaller set
\* never counts more.
LEMMA AtMostOneMore ==
  ASSUME NEW S, IsFiniteSet(S), NEW x, NEW T \in SUBSET (S \cup {x})
  PROVE  /\ IsFiniteSet(T) /\ Cardinality(T) \in Nat
         /\ Cardinality(T) <= Cardinality(S) + 1
<1>1. /\ IsFiniteSet(S \cup {x}) /\ Cardinality(S) \in Nat
      /\ Cardinality(S \cup {x}) <= Cardinality(S) + 1
  <2>1. IsFiniteSet(S \cup {x}) /\ Cardinality(S) \in Nat
    BY FS_AddElement, FS_CardinalityType
  <2>2. Cardinality(S \cup {x}) = IF x \in S THEN Cardinality(S) ELSE Cardinality(S) + 1
    BY FS_AddElement
  <2> QED BY <2>1, <2>2
<1>2. /\ IsFiniteSet(T) /\ Cardinality(T) <= Cardinality(S \cup {x})
      /\ Cardinality(T) \in Nat /\ Cardinality(S \cup {x}) \in Nat
  BY <1>1, FS_Subset, FS_CardinalityType
<1> QED BY <1>1, <1>2

\* A reservation, first or repeated, named or not, counts once.
LEMMA ReserveTaskStep ==
  ASSUME Gate!TypeOK, OccupiedWithinCapacity, NEW t \in Tasks, NEW c \in {NameOf[t], NoChild},
         Gate!ReserveTask(t, c)
  PROVE  Gate!TypeOK' /\ OccupiedWithinCapacity'
<1> DEFINE to == IF slots[t] # Free /\ c = NoChild THEN slots[t] ELSE c
<1>1. slots' = [slots EXCEPT ![t] = to] /\ live' = live
  BY DEF Gate!ReserveTask
<1>2. to \in {NameOf[t], NoChild} /\ to # Free
  BY GateAssumptions DEF Gate!TypeOK
<1>3. Gate!TypeOK'
  BY <1>1, <1>2, GateAssumptions DEF Gate!TypeOK
<1>4. Cardinality(live) + Cardinality(Gate!Unbacked) <= HostCapacity
  BY Counts DEF OccupiedWithinCapacity
<1>5. CASE slots[t] # Free
  <2>1. Gate!Unbacked' \subseteq Gate!Unbacked
    <3>1. slots[t] \in live => to = slots[t]
      BY <1>5, GateAssumptions DEF Gate!TypeOK
    <3>2. t \notin Gate!Unbacked => t \notin Gate!Unbacked'
      BY <1>1, <1>5, <3>1 DEF Gate!Unbacked, Gate!Entered, Gate!TypeOK
    <3>3. \A u \in Tasks \ {t} : slots'[u] = slots[u]
      BY <1>1 DEF Gate!TypeOK
    <3> QED BY <1>1, <3>2, <3>3 DEF Gate!Unbacked, Gate!Entered
  <2>2. Cardinality(Gate!Unbacked') \in Nat /\ Cardinality(Gate!Unbacked') <= Cardinality(Gate!Unbacked)
    BY <2>1, Counted, FS_Subset, FS_CardinalityType
  <2> QED BY <1>1, <1>3, <1>4, <2>2, Counted, GateAssumptions, Counts DEF OccupiedWithinCapacity
<1>6. CASE slots[t] = Free
  <2>1. Cardinality(live) + Cardinality(Gate!Unbacked) < HostCapacity
    BY <1>6, Counts DEF Gate!ReserveTask, Gate!TaskFits, Gate!HasRoom
  <2>2. Gate!Unbacked' \subseteq Gate!Unbacked \cup {t}
    BY <1>1 DEF Gate!Unbacked, Gate!Entered, Gate!TypeOK
  <2>3. /\ Cardinality(Gate!Unbacked') \in Nat
        /\ Cardinality(Gate!Unbacked') <= Cardinality(Gate!Unbacked) + 1
    BY <2>2, Counted, AtMostOneMore
  <2> QED BY <1>1, <1>3, <2>1, <2>3, Counted, GateAssumptions, Counts DEF OccupiedWithinCapacity
<1> QED BY <1>5, <1>6

\* Giving a place back never adds to the count.
LEMMA ReleaseTaskStep ==
  ASSUME Gate!TypeOK, OccupiedWithinCapacity, NEW t \in Tasks, Gate!ReleaseTask(t)
  PROVE  Gate!TypeOK' /\ OccupiedWithinCapacity'
<1>1. slots' = [slots EXCEPT ![t] = Free] /\ live' = live
  BY DEF Gate!ReleaseTask
<1>2. Gate!TypeOK'
  BY <1>1 DEF Gate!TypeOK
<1>3. Gate!Unbacked' \subseteq Gate!Unbacked
  BY <1>1 DEF Gate!Unbacked, Gate!Entered, Gate!TypeOK
<1>4. Cardinality(Gate!Unbacked') \in Nat /\ Cardinality(Gate!Unbacked') <= Cardinality(Gate!Unbacked)
  BY <1>3, Counted, FS_Subset, FS_CardinalityType
<1> QED BY <1>1, <1>2, <1>4, Counted, GateAssumptions, Counts DEF OccupiedWithinCapacity

\* A child that appears takes the place reserved for it, or one that is free.
LEMMA ReserveChildStep ==
  ASSUME Gate!TypeOK, OccupiedWithinCapacity, NEW c \in Children, Gate!ReserveChild(c)
  PROVE  Gate!TypeOK' /\ OccupiedWithinCapacity'
<1>1. live' = live \cup {c} /\ slots' = slots
  BY DEF Gate!ReserveChild
<1>2. Gate!TypeOK'
  BY <1>1 DEF Gate!TypeOK
<1>3. Gate!Unbacked' \subseteq Gate!Unbacked
  BY <1>1 DEF Gate!Unbacked, Gate!Entered
<1>4. /\ Cardinality(live') \in Nat /\ Cardinality(Gate!Unbacked') \in Nat
      /\ Cardinality(live') <= Cardinality(live) + 1
      /\ Cardinality(Gate!Unbacked') <= Cardinality(Gate!Unbacked)
  BY <1>1, <1>3, Counted, FS_AddElement, FS_Subset, FS_CardinalityType
<1>5. CASE c \in live
  <2>1. live' = live
    BY <1>1, <1>5
  <2> QED BY <1>2, <1>4, <2>1, Counted, GateAssumptions, Counts DEF OccupiedWithinCapacity
<1>6. CASE c \notin live /\ Gate!Reserved(c)
  <2>1. PICK t \in Gate!Entered : slots[t] = c
    BY <1>6 DEF Gate!Reserved
  <2>2. t \in Gate!Unbacked /\ t \notin Gate!Unbacked'
    BY <1>1, <1>6, <2>1 DEF Gate!Unbacked, Gate!Entered
  <2>3. Gate!Unbacked' \subseteq Gate!Unbacked \ {t}
    BY <1>3, <2>2
  <2>4. /\ IsFiniteSet(Gate!Unbacked \ {t})
        /\ Cardinality(Gate!Unbacked \ {t}) = Cardinality(Gate!Unbacked) - 1
    BY <2>2, Counted, FS_RemoveElement
  <2>5. Cardinality(Gate!Unbacked') <= Cardinality(Gate!Unbacked) - 1
    BY <2>3, <2>4, FS_Subset
  <2> QED BY <1>2, <1>4, <2>5, Counted, GateAssumptions, Counts DEF OccupiedWithinCapacity
<1>7. CASE Gate!HasRoom
  BY <1>2, <1>4, <1>7, Counted, GateAssumptions, Counts DEF Gate!HasRoom, OccupiedWithinCapacity
<1> QED BY <1>5, <1>6, <1>7 DEF Gate!ReserveChild, Gate!ChildFits

\* A child that dies turns its task's entry, of which there is at most one, back
\* into a reservation.
LEMMA ReleaseChildStep ==
  ASSUME Gate!TypeOK, OccupiedWithinCapacity, NEW c \in Children, Gate!ReleaseChild(c)
  PROVE  Gate!TypeOK' /\ OccupiedWithinCapacity'
<1>1. live' = live \ {c} /\ slots' = slots
  BY DEF Gate!ReleaseChild
<1>2. Gate!TypeOK'
  BY <1>1 DEF Gate!TypeOK
<1>3. CASE c \notin live
  <2>1. live' = live
    BY <1>1, <1>3
  <2> QED BY <1>1, <1>2, <2>1, Counts DEF OccupiedWithinCapacity, Gate!Unbacked, Gate!Entered
<1>4. CASE c \in live
  <2>1. Cardinality(live') = Cardinality(live) - 1 /\ Cardinality(live') \in Nat
    <3>1. IsFiniteSet(live') /\ Cardinality(live') = Cardinality(live) - 1
      BY <1>1, <1>4, Counted, FS_RemoveElement
    <3> QED BY <3>1, FS_CardinalityType
  <2>2. \E x : Gate!Unbacked' \subseteq Gate!Unbacked \cup {x}
    <3>1. \A t \in Gate!Unbacked' \ Gate!Unbacked : slots[t] = c
      BY <1>1 DEF Gate!Unbacked, Gate!Entered
    <3>2. \A t, u \in Gate!Unbacked' \ Gate!Unbacked : t = u
      <4>1. \A t \in Gate!Unbacked' \ Gate!Unbacked : t \in Tasks /\ NameOf[t] = c
        BY <1>1, <3>1, GateAssumptions DEF Gate!Unbacked, Gate!Entered, Gate!TypeOK
      <4> QED BY <4>1, GateAssumptions
    <3> QED BY <3>2
  <2>3. PICK x : Gate!Unbacked' \subseteq Gate!Unbacked \cup {x}
    BY <2>2
  <2>4. /\ Cardinality(Gate!Unbacked') \in Nat
        /\ Cardinality(Gate!Unbacked') <= Cardinality(Gate!Unbacked) + 1
    BY <2>3, Counted, AtMostOneMore
  <2> QED BY <1>2, <2>1, <2>4, Counted, GateAssumptions, Counts DEF OccupiedWithinCapacity
<1> QED BY <1>3, <1>4

\* The host never counts more executors than its hard capacity, whoever calls the gate
\* in whatever order. The count alone is not inductive: it needs that an entry names its
\* own task's child, or none, so that one death never turns two entries back into
\* reservations.
THEOREM CapacityKept == Gate!Spec => [](Gate!TypeOK /\ OccupiedWithinCapacity)
<1> DEFINE Kept == Gate!TypeOK /\ OccupiedWithinCapacity
<1>1. Gate!Init => Kept
  <2> SUFFICES ASSUME Gate!Init PROVE Kept
    OBVIOUS
  <2>1. live = {} /\ Gate!Unbacked = {}
    BY DEF Gate!Init, Gate!Unbacked, Gate!Entered
  <2>2. Cardinality({}) = 0
    BY FS_EmptySet
  <2> QED BY <2>1, <2>2, Counts, GateAssumptions DEF Gate!Init, Gate!TypeOK, OccupiedWithinCapacity
<1>2. ASSUME Kept, [Gate!Next]_Gate!vars
      PROVE  Kept'
  <2>1. CASE UNCHANGED Gate!vars
    BY <1>2, <2>1, Counts DEF Gate!vars, Gate!TypeOK, OccupiedWithinCapacity, Gate!Unbacked,
                              Gate!Entered
  <2> QED BY <1>2, <2>1, ReserveTaskStep, ReleaseTaskStep, ReserveChildStep, ReleaseChildStep
          DEF Gate!Next
<1> QED BY <1>1, <1>2, PTL DEF Gate!Spec

\* The gate is only ever asked for what it offers, under the task's own name, and
\* forgets everything with the process.
LEMMA GateSteps ==
  ASSUME BaseInv, [Next]_vars
  PROVE  \/ UNCHANGED <<live, slots>>
         \/ \E t \in Tasks, c \in {NoChild} \cup Children :
               (c = NoChild \/ c = NameOf[t]) /\ Gate!ReserveTask(t, c)
         \/ \E t \in Tasks : Gate!ReleaseTask(t)
         \/ \E c \in Children : Gate!ReserveChild(c) \/ Gate!ReleaseChild(c)
         \/ live' = {} /\ slots' = [t \in Tasks |-> Free]
<1> DEFINE Goal == \/ UNCHANGED <<live, slots>>
                   \/ \E t \in Tasks, c \in {NoChild} \cup Children :
                         (c = NoChild \/ c = NameOf[t]) /\ Gate!ReserveTask(t, c)
                   \/ \E t \in Tasks : Gate!ReleaseTask(t)
                   \/ \E c \in Children : Gate!ReserveChild(c) \/ Gate!ReleaseChild(c)
                   \/ live' = {} /\ slots' = [t \in Tasks |-> Free]
<1>0. HostTypes
  BY TypeParts DEF BaseInv
<1>1. ASSUME NEW r \in Runs, Pass(r) \/ Faults(r)
      PROVE  Goal
  <2>1. ASSUME drain[r].pc \in WithRequest
        PROVE  /\ Task(r) \in Tasks /\ Request(r).child = NameOf[Task(r)]
               /\ Request(r).child \in Children
    BY <2>1, InHand DEF BaseInv, LeaderFits, Task, Request
  <2>2. CASE TakeSlot(r)
    BY <2>1, <2>2 DEF TakeSlot, At, WithRequest
  <2>3. CASE PersistFails(r)
    BY <2>1, <2>3 DEF PersistFails, At, WithRequest
  <2>4. CASE Sync(r)
    BY <2>1, <2>4 DEF Sync, At, WithRequest, gateVars
  <2>5. CASE CreateChild(r)
    BY <2>1, <2>5 DEF CreateChild, At, WithRequest
  <2>6. CASE \/ TakeBatch(r) \/ NextEntry(r) \/ EndPass(r) \/ NextRequest(r) \/ Refuse(r)
             \/ Persist(r) \/ Drop(r) \/ Retire(r) \/ Write(r) \/ WriteRefused(r)
             \/ LaunchReturns(r) \/ LaunchThrows(r) \/ DiskFails(r)
    BY <2>6 DEF TakeBatch, NextEntry, EndPass, NextRequest, Refuse, Persist, Drop, Retire, Write,
                WriteRefused, LaunchReturns, LaunchThrows, DiskFails, gateVars
  <2> QED BY <1>1, <2>2, <2>3, <2>4, <2>5, <2>6 DEF Pass, Faults
<1>2. ASSUME NEW r \in Runs, Commands(r)
      PROVE  UNCHANGED <<live, slots>>
  BY <1>2 DEF Commands, Submit, SetTarget, Finish, Stop, Start, gateVars
<1>3. ASSUME NEW c \in Children, Dispose(c) \/ \E to \in Settled : ChildEnds(c, to)
      PROVE  Goal
  BY <1>3 DEF Dispose, ChildEnds, gateVars
<1>4. ASSUME NEW e \in events, Settle(e) \/ SyncSettled(e) \/ SettleFails(e)
      PROVE  Goal
  <2>1. e.task \in Tasks /\ e.to \in {"completed", "unknown"}
    BY <1>0, EventTypes
  <2> QED BY <1>4, <2>1 DEF Settle, SyncSettled, SettleFails, gateVars
<1>5. CASE Crash \/ UNCHANGED vars
  BY <1>5 DEF Crash, vars
<1> QED BY <1>1, <1>2, <1>3, <1>4, <1>5 DEF Next, Observer

GateInv == EntriesFit /\ OccupiedWithinCapacity

LEMMA StepGate ==
  ASSUME BaseInv, GateInv, [Next]_vars
  PROVE  GateInv'
<1>1. Gate!TypeOK
  BY TypeParts DEF BaseInv, HostTypes, GateInv, EntriesFit, Gate!TypeOK
<1>2. ASSUME Gate!TypeOK', OccupiedWithinCapacity'
      PROVE  GateInv'
  BY <1>2 DEF GateInv, EntriesFit, Gate!TypeOK
<1>3. CASE UNCHANGED <<live, slots>>
  <2>1. Gate!Unbacked' = Gate!Unbacked
    BY <1>3 DEF Gate!Unbacked, Gate!Entered
  <2> QED BY <1>3, <2>1, Counts DEF GateInv, EntriesFit, OccupiedWithinCapacity
<1>4. ASSUME NEW t \in Tasks, NEW c, c = NoChild \/ c = NameOf[t], Gate!ReserveTask(t, c)
      PROVE  GateInv'
  BY <1>1, <1>2, <1>4, ReserveTaskStep DEF GateInv
<1>5. ASSUME NEW t \in Tasks, Gate!ReleaseTask(t)
      PROVE  GateInv'
  BY <1>1, <1>2, <1>5, ReleaseTaskStep DEF GateInv
<1>6. ASSUME NEW c \in Children, Gate!ReserveChild(c)
      PROVE  GateInv'
  BY <1>1, <1>2, <1>6, ReserveChildStep DEF GateInv
<1>7. ASSUME NEW c \in Children, Gate!ReleaseChild(c)
      PROVE  GateInv'
  BY <1>1, <1>2, <1>7, ReleaseChildStep DEF GateInv
<1>8. CASE live' = {} /\ slots' = [t \in Tasks |-> Free]
  <2>1. Gate!Unbacked' = {} /\ EntriesFit'
    BY <1>8 DEF Gate!Unbacked, Gate!Entered, EntriesFit
  <2>2. Gate!Cardinality({}) = 0
    <3>1. Gate!Cardinality({}) = Cardinality({})
      BY Zenon DEF Gate!Cardinality, Cardinality
    <3> QED BY <3>1, FS_EmptySet
  <2> QED BY <1>8, <2>1, <2>2, DrainAssumption DEF GateInv, OccupiedWithinCapacity, Gate!Occupied
<1> QED BY <1>3, <1>4, <1>5, <1>6, <1>7, <1>8, GateSteps

LEMMA InitGate == Init => GateInv
<1> SUFFICES ASSUME Init PROVE GateInv
  OBVIOUS
<1>1. Gate!Unbacked = {} /\ EntriesFit /\ live = {}
  BY DEF Init, Gate!Unbacked, Gate!Entered, EntriesFit
<1>2. Gate!Cardinality({}) = 0
  <2>1. Gate!Cardinality({}) = Cardinality({})
    BY Zenon DEF Gate!Cardinality, Cardinality
  <2> QED BY <2>1, FS_EmptySet
<1> QED BY <1>1, <1>2, DrainAssumption DEF GateInv, OccupiedWithinCapacity, Gate!Occupied

\* The host's count never passes its capacity, though slots are taken inside a write,
\* put back when it fails, resynchronized after another await and lost with the process
\* (host.ts tryReserveAdmission, syncSlotToState; capacity.ts): the gate's own theorem,
\* with every call the drain, the launch port and the observer make of it.
THEOREM CapacityNeverPassed == Spec => []OccupiedWithinCapacity
<1>1. GateInv => OccupiedWithinCapacity
  BY DEF GateInv
<1> QED BY <1>1, InitGate, StepGate, BaseCorrect, PTL DEF Spec

------------------------------------------------------------------------------
(* Each task is its own run's business: a step moves one task, or one leader. *)

Current == {"admitting", "retire", "write", "sync", "launch", "launched"}

\* What a leader has in hand is a task of its own run.
LEMMA CurrentTask ==
  ASSUME BaseInv, NEW r \in Runs, drain[r].pc \in Current
  PROVE  /\ Task(r) \in TasksOf[r] /\ Task(r) \in Tasks
         /\ Request(r).child = NameOf[Task(r)] /\ NameOf[Task(r)] \in Children
         /\ Request(r).cost = Cost /\ drain[r].queue # <<>>
<1>1. LeaderFits(r, recs[r], drain[r]) /\ drain[r].queue # <<>>
  BY DEF BaseInv, LeaderFits, WithRequest, Current
<1> QED BY <1>1, InHand DEF Task, Request

\* A task a run knows is its own, and has its own name.
LEMMA KnownTask ==
  ASSUME BaseInv, NEW r \in Runs, NEW t \in Tasks, Present(recs[r], t)
  PROVE  t \in TasksOf[r] /\ recs[r].tasks[t].child = NameOf[t]
BY DEF BaseInv, RecordFits, TaskFits, Present

\* The leader has no other task in hand than before, and takes it nowhere else.
LeaderStays(r, t) ==
  \A pc \in Current : Handles(r, t, pc)' => Handles(r, t, pc) /\ drain'[r].to = drain[r].to

LEMMA OwnKept ==
  ASSUME NEW r \in Runs, NEW t \in TasksOf[r], OwnTask(r, t),
         recs'[r].tasks[t] = recs[r].tasks[t], slots'[t] = slots[t],
         TaskEvents(r, t)' = TaskEvents(r, t), Begun(r, t)' <=> Begun(r, t),
         NameOf[t] \in Running' => NameOf[t] \in Running,
         crashes' = crashes, LeaderStays(r, t)
  PROVE  OwnTask(r, t)'
<1>1. EventsFit(r, t)'
  BY DEF OwnTask, EventsFit, TaskOf, HasEntry
<1>2. BegunFits(r, t)'
  BY DEF OwnTask, BegunFits, TaskOf, HasEntry
<1>3. LaunchFits(r, t)'
  <2>1. \A pc \in Current :
          /\ Handles(r, t, pc)' => Handles(r, t, pc)
          /\ ForLaunch(r, t, pc)' => ForLaunch(r, t, pc)
          /\ ForEdge(r, t, pc)' => ForEdge(r, t, pc)
          /\ ForEdge(r, t, pc)' => drain'[r].to = drain[r].to
    BY DEF LeaderStays, ForLaunch, ForEdge
  <2>2. Quiet(r, t) => Quiet(r, t)'
    BY DEF Quiet
  <2> QED BY <2>1, <2>2 DEF OwnTask, LaunchFits, TaskOf, HasEntry, Current
<1>4. EntryFits(r, t)'
  BY DEF OwnTask, EntryFits, TaskOf, HasEntry, Present, LeaderStays, Current
<1> QED BY <1>1, <1>2, <1>3, <1>4 DEF OwnTask

\* A step leaves every task but one of this run alone.
OthersStay(r, t) ==
  /\ \A q \in Runs, u \in Tasks : q # r \/ u # t => recs'[q].tasks[u] = recs[q].tasks[u]
  /\ \A u \in Tasks \ {t} : slots'[u] = slots[u]
  /\ \A e \in events \cup events' : e.run # r \/ e.task # t => (e \in events' <=> e \in events)
  /\ \A o \in begun \cup begun' : o # <<r, t>> => (o \in begun' <=> o \in begun)
  /\ \A c \in Children \ {NameOf[t]} : c \in Running' => c \in Running
  /\ crashes' = crashes
  /\ \A q \in Runs, u \in Tasks : q # r \/ u # t => LeaderStays(q, u)

LEMMA OwnStep ==
  ASSUME OwnInv, DisjointRuns, NEW r \in Runs, NEW t \in TasksOf[r], OthersStay(r, t),
         HostTypes, OwnTask(r, t)'
  PROVE  OwnInv'
<1>0. TasksOf \in [Runs -> SUBSET Tasks]
  BY DrainAssumption
<1>1. \A e \in events' : e.task \in TasksOf[e.run]
  BY DEF OwnInv, OthersStay
<1>2. \A o \in begun' : o[2] \in TasksOf[o[1]]
  BY DEF OwnInv, OthersStay
<1>3. ASSUME NEW q \in Runs, NEW u \in TasksOf[q], q # r \/ u # t
      PROVE  OwnTask(q, u)'
  <2>1. u # t /\ u \in Tasks /\ t \in Tasks
    BY <1>0, <1>3 DEF DisjointRuns
  <2>2. NameOf[u] \in Children \ {NameOf[t]}
    BY <2>1, DrainAssumption
  <2>3. TaskEvents(q, u)' = TaskEvents(q, u)
    BY <2>1 DEF OthersStay, TaskEvents
  <2>4. Begun(q, u)' <=> Begun(q, u)
    BY <2>1 DEF OthersStay, Begun
  <2> QED BY <2>1, <2>2, <2>3, <2>4, OwnKept DEF OwnInv, OthersStay
<1> QED BY <1>1, <1>2, <1>3 DEF OwnInv

\* A leader that does not move handles what it handled.
LEMMA DrainStays ==
  ASSUME UNCHANGED drain, NEW q \in Runs
  PROVE  /\ At(q, "sync")' => At(q, "sync")
         /\ Task(q)' = Task(q) /\ drain'[q].to = drain[q].to
BY DEF At, Task, Request

\* A woken leader is where it was.
LEMMA WakeKeeps ==
  ASSUME BaseInv, NEW r \in Runs, Wake(r) \/ UNCHANGED drain
  PROVE  \A q \in Runs : /\ drain'[q].pc = drain[q].pc /\ drain'[q].queue = drain[q].queue
                         /\ drain'[q].to = drain[q].to
<1>1. drain \in [Runs -> Leader] /\ LeaderFits(r, recs[r], drain[r])
  BY TypeParts DEF BaseInv
<1>2. CASE Wake(r)
  <2>1. /\ drain'[r] = Woken(drain[r]) /\ \A q \in Runs \ {r} : drain'[q] = drain[q]
    BY <1>1, <1>2 DEF Wake
  <2> QED BY <1>1, <2>1, WokenFits
<1>3. CASE UNCHANGED drain
  BY <1>3
<1> QED BY <1>2, <1>3

LEMMA WakeStays ==
  ASSUME BaseInv, NEW r \in Runs, Wake(r) \/ UNCHANGED drain
  PROVE  \A q \in Runs, u \in Tasks :
           /\ LeaderStays(q, u)
           /\ \A pc \in Current : Handles(q, u, pc)' <=> Handles(q, u, pc)
           /\ drain'[q].to = drain[q].to
BY WakeKeeps DEF LeaderStays, Handles, At, Task, Request

\* One leader moves, with one task in hand: the others are where they were.
MovesTo(r, t, d) ==
  /\ drain'[r] = d /\ Head(d.queue).task = t
  /\ \A q \in Runs \ {r} : drain'[q] = drain[q]

LEMMA MoveStays ==
  ASSUME NEW r \in Runs, NEW t, NEW d, MovesTo(r, t, d)
  PROVE  /\ \A q \in Runs, u \in Tasks : q # r \/ u # t => LeaderStays(q, u)
         /\ \A pc : Handles(r, t, pc)' <=> pc = d.pc
         /\ \A pc : ForLaunch(r, t, pc)' <=> pc = d.pc /\ d.to = "launching"
         /\ \A pc : ForEdge(r, t, pc)' <=> pc = d.pc /\ d.to # "launching"
         /\ drain'[r].to = d.to
BY DEF MovesTo, LeaderStays, ForLaunch, ForEdge, Handles, At, Task, Request

\* A step that only moves a leader to where it has no task in hand, or only wakes it.
LEMMA OwnPass ==
  ASSUME BaseInv, OwnInv, NEW r \in Runs, NEW d, NEW x,
         \/ Wake(r) \/ UNCHANGED drain
         \/ drain' = [drain EXCEPT ![r] = d] /\ d.pc \notin Current,
         recs' = [recs EXCEPT ![r] = x], x.tasks = recs[r].tasks,
         UNCHANGED <<slots, events, begun, crashes>>,
         \A c \in Children : c \in Running' => c \in Running
  PROVE  OwnInv'
<1>1. recs \in [Runs -> Record] /\ drain \in [Runs -> Leader]
  BY TypeParts DEF BaseInv
<1>2. \A q \in Runs : recs'[q].tasks = recs[q].tasks
  BY <1>1
<1>3. \A q \in Runs, u \in Tasks : LeaderStays(q, u)
  <2>1. CASE Wake(r) \/ UNCHANGED drain
    BY <2>1, WakeStays
  <2>2. CASE drain' = [drain EXCEPT ![r] = d] /\ d.pc \notin Current
    <3>1. drain'[r] = d /\ \A q \in Runs \ {r} : drain'[q] = drain[q]
      BY <1>1, <2>2
    <3> QED BY <2>2, <3>1 DEF LeaderStays, Handles, At, Task, Request
  <2> QED BY <2>1, <2>2
<1>4. ASSUME NEW q \in Runs, NEW u \in TasksOf[q]
      PROVE  OwnTask(q, u)'
  <2>1. u \in Tasks /\ NameOf[u] \in Children
    BY DrainAssumption
  <2>2. TaskEvents(q, u)' = TaskEvents(q, u) /\ (Begun(q, u)' <=> Begun(q, u))
    BY DEF TaskEvents, Begun
  <2> QED BY <1>2, <1>3, <2>1, <2>2, OwnKept DEF OwnInv
<1> QED BY <1>4 DEF OwnInv

LEMMA OwnLeave ==
  ASSUME BaseInv, OwnInv, NEW r \in Runs,
         \/ TakeBatch(r) \/ NextEntry(r) \/ EndPass(r) \/ NextRequest(r) \/ Refuse(r)
         \/ Drop(r) \/ WriteRefused(r) \/ DiskFails(r)
  PROVE  OwnInv'
<1>1. drain \in [Runs -> Leader] /\ recs \in [Runs -> Record] /\ RecordFits(r, recs[r])
  BY TypeParts DEF BaseInv
<1>2. /\ UNCHANGED <<slots, events, begun, crashes>>
      /\ \A c \in Children : c \in Running' => c \in Running
  BY DEF TakeBatch, NextEntry, EndPass, NextRequest, Refuse, Drop, WriteRefused, DiskFails,
         gateVars, hostVars, Running
<1>3. \E x : recs' = [recs EXCEPT ![r] = x] /\ x.tasks = recs[r].tasks
  <2>1. CASE recs' = recs
    BY <1>1, <2>1
  <2>2. CASE Drop(r)
    <3>1. Task(r) \in Tasks
      BY <2>2, InHand DEF BaseInv, LeaderFits, WithRequest, Drop, At, Task, Request
    <3> DEFINE x == WithoutRow(recs[r], Task(r))
    <3>2. recs' = [recs EXCEPT ![r] = x]
      BY <1>1, <2>2 DEF Drop
    <3>3. x.tasks = recs[r].tasks
      BY <1>1, <3>1, WithoutRowFits
    <3> QED BY <3>2, <3>3
  <2> QED BY <2>1, <2>2 DEF TakeBatch, NextEntry, EndPass, NextRequest, Refuse, WriteRefused, DiskFails
<1>4. \E d : drain' = [drain EXCEPT ![r] = d] /\ d.pc \notin Current
  <2> DEFINE now == drain[r]
  <2>1. ASSUME NEW pc \in {"idle", "reserve", "drop"}, Goto(r, pc)
        PROVE  \E d : drain' = [drain EXCEPT ![r] = d] /\ d.pc \notin Current
    <3> DEFINE d == [now EXCEPT !.pc = pc]
    <3>1. drain' = [drain EXCEPT ![r] = d] /\ d.pc = pc
      BY <1>1, <2>1 DEF Goto, Leader
    <3> QED BY <3>1 DEF Current
  <2>2. ASSUME SkipRows(r) \/ NextRow(r) \/ Abandon(r)
        PROVE  \E d : drain' = [drain EXCEPT ![r] = d] /\ d.pc \notin Current
    <3>1. PICK q : \/ drain' = [drain EXCEPT ![r] = [now EXCEPT !.pc = "entry", !.queue = q]]
                   \/ drain' = [drain EXCEPT ![r] = [now EXCEPT !.pc = "row", !.queue = q]]
                   \/ drain' = [drain EXCEPT ![r] = Idle]
      BY <1>1, <2>2 DEF SkipRows, NextRow, Abandon
    <3>2. /\ [now EXCEPT !.pc = "entry", !.queue = q].pc = "entry"
          /\ [now EXCEPT !.pc = "row", !.queue = q].pc = "row"
          /\ Idle.pc = "idle"
      BY <1>1 DEF Leader, Idle
    <3> QED BY <3>1, <3>2 DEF Current
  <2>3. CASE TakeBatch(r)
    <3> DEFINE d == [now EXCEPT !.pc = "entry", !.batch = now.pending, !.pending = 0]
    <3>1. drain' = [drain EXCEPT ![r] = d] /\ d.pc = "entry"
      BY <1>1, <2>3 DEF TakeBatch, Leader
    <3> QED BY <3>1 DEF Current
  <2>4. CASE NextEntry(r)
    <3> DEFINE d == [now EXCEPT !.batch = @ - 1, !.pc = IF port THEN "row" ELSE "entry",
                                !.queue = IF port THEN recs[r].ready ELSE <<>>]
    <3>1. drain' = [drain EXCEPT ![r] = d] /\ d.pc \in {"row", "entry"}
      BY <1>1, <2>4 DEF NextEntry, Leader
    <3> QED BY <3>1 DEF Current
  <2> QED BY <2>1, <2>2, <2>3, <2>4 DEF EndPass, NextRequest, Refuse, Drop, WriteRefused, DiskFails
<1> QED BY <1>2, <1>3, <1>4, OwnPass

LEMMA NoLaunch ==
  ASSUME NEW r, NEW t, \A pc \in Current \ {"admitting"} : ~Handles(r, t, pc)'
  PROVE  LaunchFits(r, t)'
BY DEF LaunchFits, ForLaunch, ForEdge, Current

\* An admission is decided: the task holds no slot, so nothing of it is under way.
LEMMA OwnTakeSlot ==
  ASSUME BaseInv, OwnInv, DisjointRuns, NEW r \in Runs, TakeSlot(r)
  PROVE  OwnInv'
<1>1. /\ HostTypes /\ drain[r] \in Leader /\ drain[r].queue # <<>> /\ drain[r].pc = "reserve"
      /\ LeaderFits(r, recs[r], drain[r])
  BY TypeParts DEF BaseInv, TakeSlot, At, LeaderFits, WithRequest
<1>2. PICK t : t = Task(r)
  OBVIOUS
<1>3. PICK d : d = [drain[r] EXCEPT !.pc = "admitting"]
  OBVIOUS
<1>4. /\ t \in TasksOf[r] /\ t \in Tasks /\ Request(r).child = NameOf[t]
      /\ NameOf[t] \in Children /\ NameOf[t] # Free /\ NameOf[t] # NoChild
  BY <1>1, <1>2, InHand, TaskAssumption, DrainAssumption DEF Task, Request
<1>5. OwnTask(r, t) /\ ~HoldsSlot(TaskOf(r, t).state)
  BY <1>2, <1>4 DEF OwnInv, TakeSlot, Objection, Refusal, TaskOf
<1>6. MovesTo(r, t, d) /\ d.pc = "admitting"
  <2>1. Head(d.queue).task = t /\ d.pc = "admitting"
    BY <1>1, <1>2, <1>3 DEF Leader, Task, Request
  <2> QED BY <1>1, <1>3, <2>1, TypeParts DEF TakeSlot, Goto, MovesTo, BaseInv
<1>7. /\ UNCHANGED <<recs, events, begun, crashes>> /\ Running' = Running
      /\ slots'[t] = NameOf[t] /\ \A u \in Tasks \ {t} : slots'[u] = slots[u]
  BY <1>1, <1>2, <1>4 DEF TakeSlot, Gate!ReserveTask, hostVars, Running, HostTypes
<1>8. /\ HasEntry(t)' /\ TaskEvents(r, t)' = TaskEvents(r, t)
      /\ \A pc \in Current \ {"admitting"} : ~Handles(r, t, pc)'
  <2>1. HasEntry(t)' /\ TaskEvents(r, t)' = TaskEvents(r, t)
    BY <1>4, <1>7 DEF HasEntry, TaskEvents
  <2>2. \A pc : Handles(r, t, pc)' <=> pc = d.pc
    BY <1>6, MoveStays
  <2> QED BY <1>6, <2>1, <2>2
<1>9. EventsFit(r, t)' /\ BegunFits(r, t)'
  BY <1>5, <1>7, <1>8 DEF OwnTask, EventsFit, BegunFits, Begun, TaskOf
<1>10. LaunchFits(r, t)' /\ EntryFits(r, t)'
  BY <1>8, NoLaunch DEF EntryFits
<1>11. OthersStay(r, t)
  <2>1. \A q \in Runs, u \in Tasks : q # r \/ u # t => LeaderStays(q, u)
    BY <1>6, MoveStays
  <2> QED BY <1>7, <2>1 DEF OthersStay
<1> QED BY <1>1, <1>4, <1>9, <1>10, <1>11, OwnStep DEF OwnTask

\* What is known of the task in hand.
LEMMA InHandNow ==
  ASSUME BaseInv, OwnInv, NEW r \in Runs, drain[r].pc \in Current, NEW t, t = Task(r)
  PROVE  /\ t \in TasksOf[r] /\ t \in Tasks /\ Request(r).child = NameOf[t]
         /\ NameOf[t] \in Children /\ NameOf[t] # Free /\ NameOf[t] # NoChild
         /\ OwnTask(r, t) /\ HostTypes /\ drain[r] \in Leader /\ recs[r] \in Record
         /\ RecordFits(r, recs[r]) /\ LeaderFits(r, recs[r], drain[r])
         /\ drain[r].pc # "admitting" => Present(recs[r], t)
         /\ \A pc : Handles(r, t, pc) <=> pc = drain[r].pc
<1>1. /\ t \in TasksOf[r] /\ t \in Tasks /\ Request(r).child = NameOf[t]
      /\ NameOf[t] \in Children
  BY CurrentTask
<1>2. NameOf[t] # Free /\ NameOf[t] # NoChild
  BY <1>1, TaskAssumption, DrainAssumption
<1>3. OwnTask(r, t)
  BY <1>1 DEF OwnInv
<1>4. /\ HostTypes /\ drain[r] \in Leader /\ recs[r] \in Record
      /\ RecordFits(r, recs[r]) /\ LeaderFits(r, recs[r], drain[r])
  BY TypeParts DEF BaseInv
<1>5. drain[r].pc # "admitting" => Present(recs[r], t)
  BY <1>4 DEF LeaderFits, AfterAdmission, Current, Task, Request
<1>6. \A pc : Handles(r, t, pc) <=> pc = drain[r].pc
  BY DEF Handles, At
<1> QED BY <1>1, <1>2, <1>3, <1>4, <1>5, <1>6

\* The leader takes its task on to another place of its pass.
LEMMA Onward ==
  ASSUME BaseInv, NEW r \in Runs, NEW t, t = Task(r), NEW pc, Goto(r, pc),
         NEW d, d = [drain[r] EXCEPT !.pc = pc]
  PROVE  MovesTo(r, t, d) /\ d.pc = pc /\ d.to = drain[r].to
<1>1. drain \in [Runs -> Leader] /\ drain[r] \in Leader
  BY TypeParts DEF BaseInv
<1>2. d.queue = drain[r].queue /\ d.pc = pc /\ d.to = drain[r].to
  BY <1>1 DEF Leader
<1> QED BY <1>1, <1>2 DEF Goto, MovesTo, Task, Request

LEMMA OnToWrite ==
  ASSUME BaseInv, NEW r \in Runs, NEW t, t = Task(r), NEW to, GotoWrite(r, to)
  PROVE  \E d : MovesTo(r, t, d) /\ d.pc = "write" /\ d.to = to
<1> DEFINE d == [drain[r] EXCEPT !.pc = "write", !.to = to]
<1>1. drain \in [Runs -> Leader] /\ drain[r] \in Leader
  BY TypeParts DEF BaseInv
<1>2. d.queue = drain[r].queue /\ d.pc = "write" /\ d.to = to
  BY <1>1 DEF Leader
<1>3. drain'[r] = d /\ \A q \in Runs \ {r} : drain'[q] = drain[q]
  BY <1>1 DEF GotoWrite
<1> HIDE DEF d
<1> QED BY <1>2, <1>3 DEF MovesTo, Task, Request

\* The admission is durable. Nothing of this task is under way: it held no slot, and no
\* completion waits for the gate.
LEMMA OwnPersist ==
  ASSUME BaseInv, OwnInv, DisjointRuns, NEW r \in Runs, Persist(r)
  PROVE  OwnInv'
<1>1. PICK t : t = Task(r)
  OBVIOUS
<1>2. PICK d : d = [drain[r] EXCEPT !.pc = "retire"]
  OBVIOUS
<1>3. PICK y : y = Admitted(recs[r], t, NameOf[t], Cost)
  OBVIOUS
<1>4. drain[r].pc \in Current /\ drain[r].pc = "admitting" /\ Request(r).cost = Cost
  BY CurrentTask DEF Persist, At, Current
<1>5. /\ t \in TasksOf[r] /\ t \in Tasks /\ Request(r).child = NameOf[t] /\ HostTypes
      /\ OwnTask(r, t) /\ recs[r] \in Record /\ RecordFits(r, recs[r])
      /\ LeaderFits(r, recs[r], drain[r]) /\ Handles(r, t, "admitting")
  BY <1>1, <1>4, InHandNow
<1>6. MovesTo(r, t, d) /\ d.pc = "retire"
  BY <1>1, <1>2, Onward DEF Persist
<1>7. Refusal(recs[r], t, Cost) = "admit"
  BY <1>1, <1>4, <1>5 DEF LeaderFits, Task, Request
<1>8. /\ ~HoldsSlot(TaskOf(r, t).state)
      /\ y.tasks[t].state = "prepared" /\ y.tasks[t].attempt = TaskOf(r, t).attempt + 1
      /\ \A u \in Tasks \ {t} : y.tasks[u] = recs[r].tasks[u]
  BY <1>3, <1>5, <1>7, AdmittedFits DEF TaskOf
<1>9. /\ recs' = [recs EXCEPT ![r] = y]
      /\ UNCHANGED <<slots, events, begun, crashes>> /\ Running' = Running
  BY <1>1, <1>3, <1>4, <1>5 DEF Persist, gateVars, hostVars, Running
<1>10. /\ TaskOf(r, t)' = y.tasks[t]
       /\ \A q \in Runs, u \in Tasks : q # r \/ u # t => recs'[q].tasks[u] = recs[q].tasks[u]
  BY <1>8, <1>9, TypeParts DEF BaseInv, TaskOf
<1>11. /\ \A pc : Handles(r, t, pc)' <=> pc = "retire"
       /\ \A pc : ForLaunch(r, t, pc)' \/ ForEdge(r, t, pc)' => pc = "retire"
       /\ TaskEvents(r, t)' = TaskEvents(r, t) /\ (Begun(r, t)' <=> Begun(r, t))
       /\ (HasEntry(t)' <=> HasEntry(t))
  BY <1>6, <1>9, MoveStays DEF TaskEvents, Begun, HasEntry
<1>12. Quiet(r, t)' /\ NameOf[t] \notin Running'
  <2>1. ~Begun(r, t) /\ NameOf[t] \notin Running
    BY <1>5, <1>8 DEF OwnTask, BegunFits
  <2>2. TaskEvents(r, t) = {}
    <3>1. \A e \in TaskEvents(r, t) : e.step \in {"write", "sync"} /\ e.step # "sync"
      BY <1>5 DEF Persist, Resynced, TaskEvents, HostTypes
    <3> QED BY <1>5, <1>8, <3>1 DEF OwnTask, EventsFit
  <2> QED BY <1>9, <1>11, <2>1, <2>2 DEF Quiet
<1>13. EventsFit(r, t)' /\ BegunFits(r, t)' /\ LaunchFits(r, t)'
  BY <1>8, <1>10, <1>11, <1>12 DEF EventsFit, BegunFits, LaunchFits, Quiet
<1>14. EntryFits(r, t)'
  <2>1. ~HasEntry(t) => TaskOf(r, t).attempt >= 1
    BY <1>5 DEF OwnTask, EntryFits, RecordFits, TaskFits, Present, TaskOf
  <2>2. TaskOf(r, t).attempt \in Nat
    BY <1>5 DEF Record, TaskRecord, TaskOf
  <2>3. ~HasEntry(t)' => TaskOf(r, t)'.attempt > 1 /\ TaskOf(r, t)'.state = "prepared"
    BY <1>8, <1>10, <1>11, <2>1, <2>2
  <2> QED BY <1>11, <2>3 DEF EntryFits
<1>15. OthersStay(r, t)
  BY <1>6, <1>9, <1>10, MoveStays DEF OthersStay
<1>16. HostTypes /\ OwnTask(r, t)'
  BY <1>5, <1>13, <1>14 DEF OwnTask
<1> QED BY <1>5, <1>15, <1>16, OwnStep

\* A leader that goes to its next row, or abandons its pass, has no task in hand.
LEMMA LeaveStays ==
  ASSUME BaseInv, NEW r \in Runs, Abandon(r) \/ NextRow(r)
  PROVE  /\ \A q \in Runs, u \in Tasks : LeaderStays(q, u)
         /\ \A u \in Tasks, pc \in Current :
              ~Handles(r, u, pc)' /\ ~ForLaunch(r, u, pc)' /\ ~ForEdge(r, u, pc)'
<1>1. drain \in [Runs -> Leader] /\ drain[r] \in Leader
  BY TypeParts DEF BaseInv
<1>2. /\ drain'[r].pc \in {"idle", "row"}
      /\ \A q \in Runs \ {r} : drain'[q] = drain[q]
  BY <1>1 DEF Abandon, NextRow, Idle, Leader
<1> QED BY <1>2 DEF LeaderStays, ForLaunch, ForEdge, Handles, At, Task, Request, Current

\* The admission's write failed: the task holds no slot, and gives its entry back.
LEMMA OwnPersistFails ==
  ASSUME BaseInv, OwnInv, DisjointRuns, NEW r \in Runs, PersistFails(r)
  PROVE  OwnInv'
<1>1. PICK t : t = Task(r)
  OBVIOUS
<1>2. drain[r].pc \in Current /\ drain[r].pc = "admitting" /\ Request(r).cost = Cost
  BY CurrentTask DEF PersistFails, At, Current
<1>3. /\ t \in TasksOf[r] /\ t \in Tasks /\ HostTypes
      /\ OwnTask(r, t) /\ LeaderFits(r, recs[r], drain[r])
  BY <1>1, <1>2, InHandNow
<1>4. ~HoldsSlot(TaskOf(r, t).state)
  BY <1>1, <1>2 DEF LeaderFits, Refusal, Task, Request, TaskOf, BaseInv
<1>5. /\ UNCHANGED <<recs, events, begun, crashes>> /\ Running' = Running
      /\ \A u \in Tasks \ {t} : slots'[u] = slots[u]
  BY <1>1, <1>3 DEF PersistFails, Gate!ReleaseTask, HostTypes, Running
<1>6. /\ TaskOf(r, t)' = TaskOf(r, t) /\ TaskEvents(r, t)' = TaskEvents(r, t)
      /\ (Begun(r, t)' <=> Begun(r, t))
  BY <1>5 DEF TaskOf, TaskEvents, Begun
<1>7. \A q \in Runs, u \in Tasks : LeaderStays(q, u)
  BY LeaveStays DEF PersistFails
<1>8. \A pc \in Current : ~Handles(r, t, pc)' /\ ~ForLaunch(r, t, pc)' /\ ~ForEdge(r, t, pc)'
  BY <1>3, LeaveStays DEF PersistFails
<1>9. EventsFit(r, t)' /\ BegunFits(r, t)'
  BY <1>3, <1>4, <1>5, <1>6 DEF OwnTask, EventsFit, BegunFits
<1>10. LaunchFits(r, t)' /\ EntryFits(r, t)'
  BY <1>4, <1>6, <1>8, NoLaunch DEF EntryFits, Current
<1>11. OthersStay(r, t)
  BY <1>5, <1>7 DEF OthersStay
<1> QED BY <1>3, <1>9, <1>10, <1>11, OwnStep DEF OwnTask

\* The admitted row leaves the table; its task goes on to its launch.
LEMMA OwnRetire ==
  ASSUME BaseInv, OwnInv, DisjointRuns, NEW r \in Runs, Retire(r)
  PROVE  OwnInv'
<1>1. PICK t : t = Task(r)
  OBVIOUS
<1>2. PICK d : MovesTo(r, t, d) /\ d.pc = "write" /\ d.to = "launching"
  BY <1>1, OnToWrite DEF Retire
<1>3. PICK y : y = WithoutRow(recs[r], t)
  OBVIOUS
<1>4. drain[r].pc \in Current /\ drain[r].pc = "retire"
  BY DEF Retire, At, Current
<1>5. /\ t \in TasksOf[r] /\ t \in Tasks /\ HostTypes /\ recs[r] \in Record
      /\ OwnTask(r, t) /\ RecordFits(r, recs[r]) /\ Handles(r, t, "retire")
  BY <1>1, <1>4, InHandNow
<1>7. y.tasks = recs[r].tasks
  BY <1>3, <1>5, WithoutRowFits
<1>8. /\ recs' = [recs EXCEPT ![r] = y]
      /\ UNCHANGED <<slots, events, begun, crashes>> /\ Running' = Running
  BY <1>1, <1>3 DEF Retire, gateVars, hostVars, Running
<1>9. \A q \in Runs, u \in Tasks : recs'[q].tasks[u] = recs[q].tasks[u]
  BY <1>7, <1>8, TypeParts DEF BaseInv
<1>10. /\ TaskOf(r, t)' = TaskOf(r, t) /\ TaskEvents(r, t)' = TaskEvents(r, t)
       /\ (Begun(r, t)' <=> Begun(r, t)) /\ (HasEntry(t)' <=> HasEntry(t))
  BY <1>5, <1>8, <1>9 DEF TaskOf, TaskEvents, Begun, HasEntry
<1>11. /\ \A pc : Handles(r, t, pc)' <=> pc = "write"
       /\ \A pc : ForLaunch(r, t, pc)' <=> pc = "write"
       /\ \A pc : ~ForEdge(r, t, pc)'
  BY <1>2, MoveStays
<1>12. EventsFit(r, t)' /\ BegunFits(r, t)' /\ LaunchFits(r, t)' /\ EntryFits(r, t)'
  <2>1. EventsFit(r, t)' /\ BegunFits(r, t)'
    BY <1>5, <1>8, <1>10 DEF OwnTask, EventsFit, BegunFits
  <2>2. LaunchFits(r, t)'
    BY <1>5, <1>10, <1>11 DEF OwnTask, LaunchFits, Quiet
  <2>3. EntryFits(r, t)'
    BY <1>5, <1>8, <1>10, <1>11 DEF OwnTask, EntryFits
  <2> QED BY <2>1, <2>2, <2>3
<1>13. OthersStay(r, t)
  BY <1>2, <1>8, <1>9, MoveStays DEF OthersStay
<1> QED BY <1>5, <1>12, <1>13, OwnStep DEF OwnTask

\* The edge is durable, and no completion waits for the gate. A launch is recorded
\* before it happens; its outcome, while what it launched may already have ended.
LEMMA OwnWrite ==
  ASSUME BaseInv, OwnInv, DisjointRuns, NEW r \in Runs, Write(r)
  PROVE  OwnInv'
<1>1. PICK t : t = Task(r)
  OBVIOUS
<1>2. PICK d : d = [drain[r] EXCEPT !.pc = "sync"]
  OBVIOUS
<1>3. PICK y : y = Moved(recs[r], t, drain[r].to)
  OBVIOUS
<1>4. drain[r].pc \in Current /\ drain[r].pc = "write"
  BY DEF Write, At, Current
<1>5. /\ t \in TasksOf[r] /\ t \in Tasks /\ HostTypes /\ recs[r] \in Record
      /\ OwnTask(r, t) /\ RecordFits(r, recs[r]) /\ Present(recs[r], t)
      /\ LeaderFits(r, recs[r], drain[r]) /\ Handles(r, t, "write")
  BY <1>1, <1>4, InHandNow
<1>6. MovesTo(r, t, d) /\ d.pc = "sync" /\ d.to = drain[r].to
  BY <1>1, <1>2, Onward DEF Write
<1>7. drain[r].to \in {"launching", "accepted", "unknown"} /\ drain[r].to \in Edges
  BY <1>4, <1>5 DEF LeaderFits, Edges
<1>8. /\ y.tasks[t].state = drain[r].to /\ y.tasks[t].attempt = TaskOf(r, t).attempt
      /\ \A u \in Tasks \ {t} : y.tasks[u] = recs[r].tasks[u]
  BY <1>3, <1>5, <1>7, MovedFits DEF TaskOf
<1>9. /\ recs' = [recs EXCEPT ![r] = y]
      /\ UNCHANGED <<slots, events, begun, crashes>> /\ Running' = Running
  BY <1>1, <1>3 DEF Write, Moved, gateVars, hostVars, Running
<1>10. /\ TaskOf(r, t)' = y.tasks[t]
       /\ \A q \in Runs, u \in Tasks : q # r \/ u # t => recs'[q].tasks[u] = recs[q].tasks[u]
  BY <1>8, <1>9, TypeParts DEF BaseInv, TaskOf
<1>11. /\ \A pc : Handles(r, t, pc)' <=> pc = "sync"
       /\ \A pc : ForLaunch(r, t, pc)' <=> pc = "sync" /\ drain[r].to = "launching"
       /\ \A pc : ForEdge(r, t, pc)' <=> pc = "sync" /\ drain[r].to # "launching"
       /\ drain'[r].to = drain[r].to
       /\ TaskEvents(r, t)' = TaskEvents(r, t) /\ (Begun(r, t)' <=> Begun(r, t))
       /\ (HasEntry(t)' <=> HasEntry(t))
  BY <1>6, <1>9, MoveStays DEF TaskEvents, Begun, HasEntry
<1>12. /\ HoldsSlot(drain[r].to) /\ TaskOf(r, t)'.state = drain[r].to
       /\ \A e \in TaskEvents(r, t) : e.step = "write"
  <2>1. \A e \in TaskEvents(r, t) : e.step \in {"write", "sync"} /\ e.step # "sync"
    BY <1>5 DEF Write, MayWrite, Resynced, TaskEvents, HostTypes
  <2> QED BY <1>7, <1>8, <1>10, <2>1 DEF HoldsSlot, SlotHoldingStates, States
<1>13. ASSUME drain[r].to = "launching" PROVE OwnTask(r, t)'
  <2>1. TaskOf(r, t).state = "prepared" /\ Quiet(r, t)
    BY <1>5, <1>13 DEF OwnTask, LaunchFits, ForLaunch
  <2>2. EventsFit(r, t)' /\ BegunFits(r, t)'
    BY <1>5, <1>9, <1>11, <2>1 DEF OwnTask, EventsFit, BegunFits, Quiet
  <2>3. LaunchFits(r, t)'
    BY <1>11, <1>12, <1>13, <2>1 DEF LaunchFits, Quiet
  <2>4. EntryFits(r, t)'
    BY <1>5, <1>8, <1>9, <1>10, <1>11, <1>13, <2>1
       DEF OwnTask, EntryFits, HoldsSlot, SlotHoldingStates, States
  <2> QED BY <2>2, <2>3, <2>4 DEF OwnTask
<1>14. ASSUME drain[r].to # "launching" PROVE OwnTask(r, t)'
  <2>1. HasEntry(t)
    BY <1>5, <1>14 DEF OwnTask, LaunchFits, ForEdge
  <2>2. EventsFit(r, t)' /\ BegunFits(r, t)'
    BY <1>5, <1>9, <1>11, <1>12, <2>1 DEF OwnTask, EventsFit, BegunFits
  <2>3. LaunchFits(r, t)' /\ EntryFits(r, t)'
    BY <1>11, <1>12, <1>14, <2>1 DEF LaunchFits, EntryFits
  <2> QED BY <2>2, <2>3 DEF OwnTask
<1>15. OthersStay(r, t)
  BY <1>6, <1>9, <1>10, MoveStays DEF OthersStay
<1> QED BY <1>5, <1>13, <1>14, <1>15, OwnStep

\* The gate's entry is made, or there is no room for it: the launch, the next row, or
\* the end of the pass.
LEMMA OwnSync ==
  ASSUME BaseInv, OwnInv, DisjointRuns, NEW r \in Runs, Sync(r)
  PROVE  OwnInv'
<1>1. PICK t : t = Task(r)
  OBVIOUS
<1>2. PICK d : d = [drain[r] EXCEPT !.pc = "launch"]
  OBVIOUS
<1>3. drain[r].pc \in Current /\ drain[r].pc = "sync"
  BY DEF Sync, At, Current
<1>4. /\ t \in TasksOf[r] /\ t \in Tasks /\ HostTypes
      /\ OwnTask(r, t) /\ Handles(r, t, "sync")
  BY <1>1, <1>3, InHandNow
<1>5. /\ UNCHANGED <<recs, events, begun, crashes>> /\ Running' = Running
      /\ \A u \in Tasks \ {t} : slots'[u] = slots[u]
      /\ HasEntry(t) => HasEntry(t)'
  BY <1>1, <1>4, DrainAssumption
     DEF Sync, Gate!ReserveTask, gateVars, hostVars, HostTypes, Running, HasEntry
<1>6. /\ TaskOf(r, t)' = TaskOf(r, t) /\ TaskEvents(r, t)' = TaskEvents(r, t)
      /\ (Begun(r, t)' <=> Begun(r, t))
  BY <1>5 DEF TaskOf, TaskEvents, Begun
<1>7. EventsFit(r, t)' /\ BegunFits(r, t)'
  BY <1>4, <1>5, <1>6 DEF OwnTask, EventsFit, BegunFits
<1>8. \/ Abandon(r) \/ NextRow(r)
      \/ Goto(r, "launch") /\ drain[r].to = "launching" /\ HasEntry(t)'
  BY <1>1, <1>4, DrainAssumption
     DEF Sync, Gate!ReserveTask, HostTypes, HasEntry
<1>9. CASE Abandon(r) \/ NextRow(r)
  <2>1. /\ \A q \in Runs, u \in Tasks : LeaderStays(q, u)
        /\ \A pc \in Current : ~Handles(r, t, pc)'
    BY <1>4, <1>9, LeaveStays
  <2>2. LaunchFits(r, t)'
    BY <2>1, NoLaunch
  <2>3. EntryFits(r, t)'
    BY <1>4, <1>5, <1>6, <2>1 DEF OwnTask, EntryFits, Current
  <2>4. OthersStay(r, t)
    BY <1>5, <2>1 DEF OthersStay
  <2>5. OwnTask(r, t)'
    BY <1>7, <2>2, <2>3 DEF OwnTask
  <2> QED BY <1>4, <2>4, <2>5, OwnStep
<1>10. CASE Goto(r, "launch") /\ drain[r].to = "launching" /\ HasEntry(t)'
  <2>1. MovesTo(r, t, d) /\ d.pc = "launch" /\ d.to = "launching"
    BY <1>1, <1>2, <1>10, Onward
  <2>2. /\ \A pc : Handles(r, t, pc)' <=> pc = "launch"
        /\ \A pc : ForLaunch(r, t, pc)' => pc = "launch"
        /\ \A pc : ~ForEdge(r, t, pc)'
    BY <2>1, MoveStays
  <2>3. TaskOf(r, t).state = "launching" /\ Quiet(r, t)
    BY <1>4, <1>10 DEF OwnTask, LaunchFits, ForLaunch
  <2>4. LaunchFits(r, t)' /\ EntryFits(r, t)'
    BY <1>6, <1>10, <2>2, <2>3 DEF LaunchFits, EntryFits, Quiet
  <2>5. OthersStay(r, t)
    BY <1>5, <2>1, MoveStays DEF OthersStay
  <2>6. OwnTask(r, t)'
    BY <1>7, <2>4 DEF OwnTask
  <2> QED BY <1>4, <2>5, <2>6, OwnStep
<1> QED BY <1>8, <1>9, <1>10

\* The child exists: its task was quiet and has its entry.
LEMMA OwnCreateChild ==
  ASSUME BaseInv, OwnInv, DisjointRuns, NEW r \in Runs, CreateChild(r)
  PROVE  OwnInv'
<1>1. PICK t : t = Task(r)
  OBVIOUS
<1>2. PICK d : d = [drain[r] EXCEPT !.pc = "launched"]
  OBVIOUS
<1>3. drain[r].pc \in Current /\ drain[r].pc = "launch"
  BY DEF CreateChild, At, Current
<1>4. /\ t \in TasksOf[r] /\ t \in Tasks /\ HostTypes /\ Request(r).child = NameOf[t]
      /\ OwnTask(r, t) /\ Handles(r, t, "launch")
  BY <1>1, <1>3, InHandNow
<1>5. MovesTo(r, t, d) /\ d.pc = "launched"
  BY <1>1, <1>2, Onward DEF CreateChild
<1>6. /\ UNCHANGED <<recs, slots, ended, events, crashes>>
      /\ live' = live \cup {NameOf[t]} /\ begun' = begun \cup {<<r, t>>}
  BY <1>1, <1>4 DEF CreateChild, Gate!ReserveChild
<1>7. TaskOf(r, t).state = "launching" /\ Quiet(r, t) /\ HasEntry(t)
  BY <1>4 DEF OwnTask, LaunchFits
<1>8. /\ TaskOf(r, t)' = TaskOf(r, t) /\ TaskEvents(r, t)' = {}
      /\ Begun(r, t)' /\ HasEntry(t)'
  BY <1>6, <1>7 DEF TaskOf, TaskEvents, Begun, HasEntry, Quiet
<1>9. /\ \A pc : Handles(r, t, pc)' <=> pc = "launched"
      /\ \A pc : ForLaunch(r, t, pc)' \/ ForEdge(r, t, pc)' => pc = "launched"
  BY <1>5, MoveStays
<1>10. EventsFit(r, t)' /\ BegunFits(r, t)' /\ LaunchFits(r, t)' /\ EntryFits(r, t)'
  BY <1>7, <1>8, <1>9
     DEF EventsFit, BegunFits, LaunchFits, EntryFits, HoldsSlot, SlotHoldingStates, States
<1>11. \A c \in Children \ {NameOf[t]} : c \in Running' => c \in Running
  BY <1>6 DEF Running
<1>12. OthersStay(r, t)
  BY <1>5, <1>6, <1>11, MoveStays DEF OthersStay
<1>13. OwnTask(r, t)'
  BY <1>10 DEF OwnTask
<1> QED BY <1>4, <1>12, <1>13, OwnStep

\* The launch returned, or threw, with its child perhaps already running, or over.
LEMMA OwnLaunched ==
  ASSUME BaseInv, OwnInv, DisjointRuns, NEW r \in Runs, LaunchReturns(r) \/ LaunchThrows(r)
  PROVE  OwnInv'
<1>1. PICK t : t = Task(r)
  OBVIOUS
<1>2. PICK d : MovesTo(r, t, d) /\ d.pc = "write" /\ d.to \in {"accepted", "unknown"}
  <2>1. PICK to : GotoWrite(r, to) /\ to \in {"accepted", "unknown"}
    BY DEF LaunchReturns, LaunchThrows
  <2>2. \E d : MovesTo(r, t, d) /\ d.pc = "write" /\ d.to = to
    BY <1>1, <2>1, OnToWrite
  <2> QED BY <2>1, <2>2
<1>3. drain[r].pc \in Current /\ drain[r].pc \in {"launch", "launched"}
  BY DEF LaunchReturns, LaunchThrows, At, Current
<1>4. /\ t \in TasksOf[r] /\ t \in Tasks /\ HostTypes
      /\ OwnTask(r, t) /\ (Handles(r, t, "launch") \/ Handles(r, t, "launched"))
  BY <1>1, <1>3, InHandNow
<1>5. UNCHANGED <<recs, slots, events, begun, crashes>> /\ Running' = Running
  BY DEF LaunchReturns, LaunchThrows, gateVars, hostVars, Running
<1>6. /\ TaskOf(r, t).state \in {"launching", "unknown"} /\ HasEntry(t)
      /\ Begun(r, t) => TaskOf(r, t).state = "launching"
      /\ \A e \in TaskEvents(r, t) : e.to = "unknown"
  BY <1>4 DEF OwnTask, LaunchFits, Quiet
<1>7. /\ TaskOf(r, t)' = TaskOf(r, t) /\ TaskEvents(r, t)' = TaskEvents(r, t)
      /\ (Begun(r, t)' <=> Begun(r, t)) /\ (HasEntry(t)' <=> HasEntry(t))
  BY <1>5 DEF TaskOf, TaskEvents, Begun, HasEntry
<1>8. /\ \A pc : Handles(r, t, pc)' <=> pc = "write"
      /\ \A pc : ~ForLaunch(r, t, pc)' /\ (ForEdge(r, t, pc)' <=> pc = "write")
  BY <1>2, MoveStays
<1>9. EventsFit(r, t)' /\ BegunFits(r, t)'
  BY <1>4, <1>5, <1>7 DEF OwnTask, EventsFit, BegunFits
<1>10. LaunchFits(r, t)' /\ EntryFits(r, t)'
  BY <1>6, <1>7, <1>8 DEF LaunchFits, EntryFits
<1>11. OthersStay(r, t)
  BY <1>2, <1>5, MoveStays DEF OthersStay
<1>12. OwnTask(r, t)'
  BY <1>9, <1>10 DEF OwnTask
<1> QED BY <1>4, <1>11, <1>12, OwnStep

\* A child's end: its owner is the one task of that name, which was launched and has
\* no other completion under way.
LEMMA OwnChildEnds ==
  ASSUME BaseInv, OwnInv, DisjointRuns, NEW c \in Children, NEW to \in Settled,
         ChildEnds(c, to)
  PROVE  OwnInv'
<1>1. PICK r, t : r = OwnerOf(c)[1] /\ t = OwnerOf(c)[2]
  OBVIOUS
<1>2. PICK e : e = [run |-> r, task |-> t, to |-> to, step |-> "write"]
  OBVIOUS
<1>3. /\ HostTypes /\ c \in live /\ c \in Running /\ to \in {"completed", "unknown"}
  BY TypeParts DEF BaseInv, ChildEnds, Running, Settled
<1>4. /\ r \in Runs /\ t \in Tasks /\ recs[r].tasks[t].child = c
  BY <1>1, <1>3, OwnerFacts DEF TaskOf
<1>5. ASSUME NEW q \in Runs, NEW u \in Tasks, recs[q].tasks[u].child = c
      PROVE  Present(recs[q], u)
  <2>1. TaskFits(q, u, recs[q].tasks[u])
    BY DEF BaseInv, RecordFits
  <2> QED BY <1>5, <2>1, TaskAssumption DEF TaskFits, Present, States
<1>6. Present(recs[r], t) /\ t \in TasksOf[r] /\ c = NameOf[t] /\ OwnTask(r, t)
  BY <1>4, <1>5, KnownTask DEF OwnInv
<1>7. /\ Begun(r, t) /\ HasEntry(t) /\ HoldsSlot(TaskOf(r, t).state)
      /\ TaskEvents(r, t) = {}
  BY <1>3, <1>6 DEF OwnTask, BegunFits, EventsFit
<1>8. /\ UNCHANGED <<recs, slots, live, crashes>> /\ ended' = ended \cup {c}
      /\ Wake(r) \/ UNCHANGED drain
      /\ events' \in {events, events \cup {e}}
      /\ e \in events' => CanTransition(TaskOf(r, t).state, to) \/ e \in events
  BY <1>1, <1>2 DEF ChildEnds, gateVars, TaskOf
<1>9. begun' = begun \ {<<r, t>>}
  <2>1. begun' = {o \in begun : recs[o[1]].tasks[o[2]].child # c}
    BY DEF ChildEnds
  <2>2. ASSUME NEW o \in begun PROVE recs[o[1]].tasks[o[2]].child = c <=> o = <<r, t>>
    <3>1. o[1] \in Runs /\ o[2] \in Tasks /\ o = <<o[1], o[2]>>
      BY <1>3 DEF HostTypes
    <3>2. ASSUME recs[o[1]].tasks[o[2]].child = c PROVE o[1] = r /\ o[2] = t
      <4>1. o[2] \in TasksOf[o[1]] /\ NameOf[o[2]] = NameOf[t]
        BY <1>5, <1>6, <3>1, <3>2, KnownTask
      <4>2. o[2] = t
        BY <1>4, <3>1, <4>1, DrainAssumption
      <4> QED BY <1>4, <1>6, <3>1, <4>1, <4>2 DEF DisjointRuns
    <3> QED BY <1>4, <3>1, <3>2
  <2> QED BY <2>1, <2>2
<1>10. /\ TaskOf(r, t)' = TaskOf(r, t) /\ ~Begun(r, t)' /\ NameOf[t] \notin Running'
       /\ (HasEntry(t)' <=> HasEntry(t))
       /\ \A f \in TaskEvents(r, t)' : f = e /\ CanTransition(TaskOf(r, t).state, to)
  BY <1>6, <1>7, <1>8, <1>9 DEF TaskOf, Begun, Running, HasEntry, TaskEvents
<1>11. e.to = to /\ e.step = "write" /\ e.run = r /\ e.task = t
  BY <1>2
<1>12. /\ \A q \in Runs, u \in Tasks : LeaderStays(q, u)
       /\ \A pc \in Current : Handles(r, t, pc)' <=> Handles(r, t, pc)
       /\ drain'[r].to = drain[r].to
  BY <1>4, <1>8, WakeStays
<1>13. EventsFit(r, t)' /\ BegunFits(r, t)'
  BY <1>7, <1>10, <1>11 DEF EventsFit, BegunFits
<1>14. LaunchFits(r, t)' /\ EntryFits(r, t)'
  <2>1. CanTransition("launching", to) => to = "unknown"
    BY <1>3 DEF CanTransition, Transitions, Unfinished
  <2>2. /\ \A pc \in Current : ForLaunch(r, t, pc)' <=> ForLaunch(r, t, pc)
        /\ \A pc \in Current : ForEdge(r, t, pc)' <=> ForEdge(r, t, pc)
    BY <1>12 DEF ForLaunch, ForEdge
  <2>3. LaunchFits(r, t)'
    BY <1>6, <1>7, <1>10, <1>11, <1>12, <2>1, <2>2
       DEF OwnTask, LaunchFits, Quiet, Current
  <2> QED BY <1>7, <1>10, <2>3 DEF EntryFits
<1>15. OthersStay(r, t)
  BY <1>6, <1>8, <1>9, <1>11, <1>12 DEF OthersStay, Running
<1>16. OwnTask(r, t)'
  BY <1>13, <1>14 DEF OwnTask
<1> QED BY <1>3, <1>4, <1>6, <1>15, <1>16, OwnStep

\* What the gate forgets had already ended.
LEMMA OwnDispose ==
  ASSUME BaseInv, OwnInv, NEW c \in Children, Dispose(c)
  PROVE  OwnInv'
<1>1. HostTypes /\ recs \in [Runs -> Record] /\ c \in live
  BY TypeParts DEF BaseInv, Dispose, HostTypes
<1>2. PICK r \in Runs : TRUE
  BY <1>1 DEF BaseInv, LiveOwned
<1>3. /\ UNCHANGED <<recs, drain, slots, events, begun, crashes>> /\ Running' = Running
      /\ recs' = [recs EXCEPT ![r] = recs[r]]
  BY <1>1 DEF Dispose, Gate!ReleaseChild, Running
<1> QED BY <1>2, <1>3, OwnPass

\* What is known of a task whose completion is under way.
LEMMA EventNow ==
  ASSUME BaseInv, OwnInv, NEW e \in events, NEW r, NEW t, r = e.run, t = e.task
  PROVE  /\ r \in Runs /\ t \in TasksOf[r] /\ t \in Tasks /\ HostTypes
         /\ e.to \in {"completed", "unknown"} /\ e.step \in {"write", "sync"}
         /\ OwnTask(r, t) /\ TaskEvents(r, t) = {e} /\ ~Begun(r, t)
         /\ NameOf[t] \notin Running
         /\ e.step = "write" => HoldsSlot(TaskOf(r, t).state) /\ HasEntry(t)
         /\ e.step = "sync" => TaskOf(r, t).state = e.to
<1>1. HostTypes
  BY TypeParts DEF BaseInv
<1>2. /\ r \in Runs /\ t \in Tasks /\ e.to \in {"completed", "unknown"}
      /\ e.step \in {"write", "sync"}
  BY <1>1, EventTypes
<1>3. t \in TasksOf[r] /\ OwnTask(r, t)
  BY <1>2 DEF OwnInv
<1>4. e \in TaskEvents(r, t)
  BY DEF TaskEvents
<1> QED BY <1>1, <1>2, <1>3, <1>4 DEF OwnTask, EventsFit, BegunFits

\* The completion is over, or has reached the gate: its task's leader was woken.
LEMMA EventStep ==
  ASSUME BaseInv, OwnInv, DisjointRuns, NEW e \in events, NEW r, NEW t,
         r = e.run, t = e.task, UNCHANGED <<begun, crashes>>, Running' = Running,
         Wake(r) \/ UNCHANGED drain,
         \A q \in Runs, u \in Tasks : q # r \/ u # t => recs'[q].tasks[u] = recs[q].tasks[u],
         \A u \in Tasks \ {t} : slots'[u] = slots[u],
         NEW f, f.run = r, f.task = t, events' \in {events \ {e}, (events \ {e}) \cup {f}},
         OwnTask(r, t)'
  PROVE  OwnInv'
<1>1. r \in Runs /\ t \in TasksOf[r] /\ HostTypes
  BY EventNow
<1>2. \A q \in Runs, u \in Tasks : LeaderStays(q, u)
  BY <1>1, WakeStays
<1>3. OthersStay(r, t)
  BY <1>2 DEF OthersStay
<1> QED BY <1>1, <1>3, OwnStep

\* The leader's places for a woken leader.
LEMMA WakePlaces ==
  ASSUME BaseInv, NEW r \in Runs, NEW t \in Tasks, Wake(r) \/ UNCHANGED drain
  PROVE  /\ drain'[r].to = drain[r].to
         /\ \A pc \in Current : /\ Handles(r, t, pc)' <=> Handles(r, t, pc)
                                /\ ForLaunch(r, t, pc)' <=> ForLaunch(r, t, pc)
                                /\ ForEdge(r, t, pc)' <=> ForEdge(r, t, pc)
BY WakeStays DEF ForLaunch, ForEdge

\* The observer's edge is written: it is the one its task's end established.
LEMMA OwnSettles ==
  ASSUME BaseInv, OwnInv, DisjointRuns, NEW e \in events, Settle(e),
         CanTransition(recs[e.run].tasks[e.task].state, e.to)
  PROVE  OwnInv'
<1>1. PICK r, t : r = e.run /\ t = e.task
  OBVIOUS
<1>2. PICK f : f = [e EXCEPT !.step = "sync"]
  OBVIOUS
<1>3. PICK y : y = Moved(recs[r], t, e.to)
  OBVIOUS
<1>4. e.step = "write" /\ MayWrite /\ UNCHANGED drain
  BY DEF Settle
<1>5. /\ r \in Runs /\ t \in TasksOf[r] /\ t \in Tasks /\ HostTypes
      /\ e.to \in {"completed", "unknown"} /\ OwnTask(r, t) /\ TaskEvents(r, t) = {e}
      /\ ~Begun(r, t) /\ NameOf[t] \notin Running /\ HasEntry(t)
  BY <1>1, <1>4, EventNow
<1>6. f.run = r /\ f.task = t /\ f.to = e.to /\ f.step = "sync"
  BY <1>1, <1>2, <1>5, EventTypes
<1>7. /\ recs[r] \in Record /\ RecordFits(r, recs[r]) /\ Present(recs[r], t) /\ e.to \in Edges
  BY <1>1, <1>5, TypeParts
     DEF BaseInv, Present, CanTransition, Transitions, Unfinished, Edges
<1>8. /\ y.tasks[t].state = e.to
      /\ \A u \in Tasks \ {t} : y.tasks[u] = recs[r].tasks[u]
  BY <1>3, <1>5, <1>7, MovedFits
<1>9. /\ recs' = [recs EXCEPT ![r] = y] /\ events' = (events \ {e}) \cup {f}
      /\ UNCHANGED <<slots, begun, crashes>> /\ Running' = Running
  BY <1>1, <1>2, <1>3 DEF Settle, Moved, gateVars, Running
<1>10. /\ TaskOf(r, t)' = y.tasks[t]
       /\ \A q \in Runs, u \in Tasks : q # r \/ u # t => recs'[q].tasks[u] = recs[q].tasks[u]
  BY <1>5, <1>8, <1>9, TypeParts DEF BaseInv, TaskOf
<1>11. /\ TaskEvents(r, t)' = {f} /\ ~Begun(r, t)' /\ HasEntry(t)' /\ NameOf[t] \notin Running'
  BY <1>5, <1>6, <1>9 DEF TaskEvents, Begun, HasEntry
<1>12. EventsFit(r, t)' /\ BegunFits(r, t)'
  BY <1>6, <1>8, <1>10, <1>11 DEF EventsFit, BegunFits
<1>13. LaunchFits(r, t)'
  <2>1. /\ drain'[r].to = drain[r].to
        /\ \A pc \in Current : /\ Handles(r, t, pc)' <=> Handles(r, t, pc)
                               /\ ForLaunch(r, t, pc)' <=> ForLaunch(r, t, pc)
                               /\ ForEdge(r, t, pc)' <=> ForEdge(r, t, pc)
    BY <1>4, <1>5, WakePlaces
  <2>2. ~Handles(r, t, "sync")
    BY <1>4, <1>5 DEF MayWrite, Resynced, Handles
  <2>3. ~Quiet(r, t)
    BY <1>5 DEF Quiet
  <2>4. /\ ~Handles(r, t, "retire") /\ ~ForLaunch(r, t, "write") /\ ~Handles(r, t, "launch")
        /\ ~ForLaunch(r, t, "sync") /\ ~ForEdge(r, t, "sync")
        /\ Handles(r, t, "launched") \/ ForEdge(r, t, "write") => e.to = "unknown"
    BY <1>5, <2>2, <2>3 DEF OwnTask, LaunchFits, ForLaunch, ForEdge
  <2> QED BY <1>6, <1>8, <1>10, <1>11, <2>1, <2>4 DEF LaunchFits, Current
<1>14. OwnTask(r, t)'
  BY <1>11, <1>12, <1>13 DEF OwnTask, EntryFits
<1> QED BY <1>1, <1>4, <1>6, <1>9, <1>10, <1>14, EventStep

\* The observer's edge is refused, or its write fails: the record stays as it is.
LEMMA OwnUnsettled ==
  ASSUME BaseInv, OwnInv, DisjointRuns, NEW e \in events,
         \/ SettleFails(e)
         \/ Settle(e) /\ ~CanTransition(recs[e.run].tasks[e.task].state, e.to)
  PROVE  OwnInv'
<1>1. PICK r, t : r = e.run /\ t = e.task
  OBVIOUS
<1>2. /\ events' = events \ {e} /\ Wake(r) /\ Running' = Running
      /\ UNCHANGED <<recs, slots, begun, crashes>> /\ e.step = "write"
  BY <1>1 DEF SettleFails, Settle, gateVars, Running
<1>3. /\ r \in Runs /\ t \in TasksOf[r] /\ t \in Tasks /\ OwnTask(r, t)
      /\ TaskEvents(r, t) = {e} /\ ~Begun(r, t) /\ NameOf[t] \notin Running /\ HasEntry(t)
  BY <1>1, <1>2, EventNow
<1>4. /\ TaskOf(r, t)' = TaskOf(r, t) /\ TaskEvents(r, t)' = {} /\ ~Begun(r, t)'
      /\ HasEntry(t)'
  BY <1>2, <1>3 DEF TaskOf, TaskEvents, Begun, HasEntry
<1>5. /\ drain'[r].to = drain[r].to
      /\ \A pc \in Current : /\ Handles(r, t, pc)' <=> Handles(r, t, pc)
                             /\ ForLaunch(r, t, pc)' <=> ForLaunch(r, t, pc)
                             /\ ForEdge(r, t, pc)' <=> ForEdge(r, t, pc)
  BY <1>2, <1>3, WakePlaces
<1>6. EventsFit(r, t)' /\ BegunFits(r, t)' /\ EntryFits(r, t)'
  BY <1>2, <1>3, <1>4 DEF EventsFit, BegunFits, EntryFits
<1>7. LaunchFits(r, t)'
  BY <1>3, <1>4, <1>5 DEF OwnTask, LaunchFits, Quiet, Current
<1>8. OwnTask(r, t)'
  BY <1>6, <1>7 DEF OwnTask
<1>9. e.run = r /\ e.task = t
  BY <1>1
<1> QED BY <1>1, <1>2, <1>8, <1>9, EventStep

\* The gate follows the settled state: a completed task's entry is given back, one
\* nobody can account for keeps its own.
LEMMA OwnSyncSettled ==
  ASSUME BaseInv, OwnInv, DisjointRuns, NEW e \in events, SyncSettled(e)
  PROVE  OwnInv'
<1>1. PICK r, t : r = e.run /\ t = e.task
  OBVIOUS
<1>2. /\ r \in Runs /\ t \in TasksOf[r] /\ t \in Tasks /\ OwnTask(r, t) /\ HostTypes
      /\ e.to \in {"completed", "unknown"}
      /\ TaskEvents(r, t) = {e} /\ ~Begun(r, t) /\ NameOf[t] \notin Running
      /\ TaskOf(r, t).state = e.to
  BY <1>1, EventNow DEF SyncSettled
<1>3. /\ events' = events \ {e} /\ Wake(r) /\ UNCHANGED <<recs, begun, crashes>>
      /\ Running' = Running /\ \A u \in Tasks \ {t} : slots'[u] = slots[u]
      /\ e.to = "unknown" /\ HasEntry(t) => HasEntry(t)'
  BY <1>1, <1>2, DrainAssumption
     DEF SyncSettled, Gate!ReleaseTask, Gate!ReserveTask, gateVars, Running, HostTypes, HasEntry
<1>4. TaskOf(r, t)' = TaskOf(r, t) /\ TaskEvents(r, t)' = {} /\ ~Begun(r, t)'
  BY <1>2, <1>3 DEF TaskOf, TaskEvents, Begun
<1>5. /\ drain'[r].to = drain[r].to
      /\ \A pc \in Current : /\ Handles(r, t, pc)' <=> Handles(r, t, pc)
                             /\ ForLaunch(r, t, pc)' <=> ForLaunch(r, t, pc)
                             /\ ForEdge(r, t, pc)' <=> ForEdge(r, t, pc)
  BY <1>2, <1>3, WakePlaces
<1>6. EventsFit(r, t)' /\ BegunFits(r, t)'
  BY <1>2, <1>3, <1>4 DEF EventsFit, BegunFits
<1>7. LaunchFits(r, t)'
  <2>1. ~Quiet(r, t)
    BY <1>2 DEF Quiet
  <2>2. ForEdge(r, t, "sync") => e.to # "completed"
    <3>1. LeaderFits(r, recs[r], drain[r])
      BY <1>2 DEF BaseInv
    <3> QED BY <1>2, <3>1 DEF OwnTask, LaunchFits, ForEdge, Handles, At, LeaderFits
  <2> QED BY <1>2, <1>3, <1>4, <1>5, <2>1, <2>2 DEF OwnTask, LaunchFits, Current
<1>8. EntryFits(r, t)'
  <2>1. Present(recs[r], t)' /\ (HoldsSlot(TaskOf(r, t).state) => e.to = "unknown")
    BY <1>2, <1>3 DEF Present, TaskOf, HoldsSlot, SlotHoldingStates
  <2> QED BY <1>2, <1>3, <1>4, <2>1 DEF OwnTask, EntryFits
<1>9. OwnTask(r, t)'
  BY <1>6, <1>7, <1>8 DEF OwnTask
<1>10. e.run = r /\ e.task = t
  BY <1>1
<1> QED BY <1>1, <1>3, <1>9, <1>10, EventStep

LEMMA OwnCommands ==
  ASSUME BaseInv, OwnInv, NEW r \in Runs, Commands(r)
  PROVE  OwnInv'
<1>1. /\ recs \in [Runs -> Record] /\ recs[r] \in Record /\ RecordFits(r, recs[r])
  BY TypeParts DEF BaseInv
<1>2. CASE Start(r)
  <2>1. /\ recs' = [recs EXCEPT ![r] = recs[r]] /\ Wake(r) /\ Running' = Running
        /\ UNCHANGED <<slots, events, begun, crashes>>
    BY <1>1, <1>2 DEF Start, gateVars, Running
  <2> QED BY <2>1, OwnPass
<1>3. ASSUME NEW t \in TasksOf[r], Submit(r, t)
      PROVE  OwnInv'
  <2>1. PICK x : x = WithRow(recs[r], t, NameOf[t], Cost)
    OBVIOUS
  <2>2. /\ recs' = [recs EXCEPT ![r] = x] /\ Wake(r) /\ Running' = Running
        /\ UNCHANGED <<slots, events, begun, crashes>>
    BY <1>1, <1>3, <2>1 DEF Submit, gateVars, hostVars, Running
  <2>3. x.tasks = recs[r].tasks
    BY <1>1, <2>1, WithRowFits
  <2> QED BY <2>2, <2>3, OwnPass
<1>4. CASE Finish(r) \/ Stop(r) \/ \E target \in Targets : SetTarget(r, target)
  <2>1. PICK x : recs' = [recs EXCEPT ![r] = x] /\ x.tasks = recs[r].tasks
    BY <1>1, <1>4 DEF Finish, Stop, SetTarget, Record
  <2>2. Running' = Running /\ UNCHANGED <<drain, slots, events, begun, crashes>>
    BY <1>4 DEF Finish, Stop, SetTarget, gateVars, hostVars, Running
  <2> QED BY <2>1, <2>2, OwnPass
<1> QED BY <1>2, <1>3, <1>4 DEF Commands

\* A restart: no child runs and no entry is held, but a launch that was not reported
\* ended keeps its slot.
LEMMA OwnCrash ==
  ASSUME BaseInv, OwnInv, Crash
  PROVE  OwnInv'
<1>1. /\ UNCHANGED <<recs, begun>> /\ events' = {} /\ Running' = {} /\ crashes' # 0
      /\ \A r \in Runs : At(r, "idle")'
  <2>1. crashes \in Nat
    BY TypeParts, DrainAssumption DEF BaseInv, HostTypes
  <2>2. \A r \in Runs : drain'[r].pc = "idle"
    BY WokenFits DEF Crash, Idle, Woken
  <2> QED BY <2>1, <2>2 DEF Crash, Running, At
<1>2. ASSUME NEW r \in Runs, NEW t \in TasksOf[r]
      PROVE  OwnTask(r, t)'
  <2>1. /\ TaskEvents(r, t)' = {} /\ (Begun(r, t)' <=> Begun(r, t))
        /\ TaskOf(r, t)' = TaskOf(r, t) /\ \A pc : Handles(r, t, pc)' => pc = "idle"
    BY <1>1 DEF TaskEvents, Begun, TaskOf, Handles, At
  <2>2. EventsFit(r, t)' /\ BegunFits(r, t)' /\ EntryFits(r, t)'
    BY <1>1, <2>1 DEF OwnInv, OwnTask, EventsFit, BegunFits, EntryFits
  <2>3. LaunchFits(r, t)'
    BY <2>1, NoLaunch DEF Current
  <2> QED BY <2>2, <2>3 DEF OwnTask
<1> QED BY <1>1, <1>2 DEF OwnInv

LEMMA OwnInit ==
  ASSUME BaseInv, Init
  PROVE  OwnInv
<1>1. ASSUME NEW r \in Runs, NEW t \in TasksOf[r]
      PROVE  OwnTask(r, t)
  <2>1. /\ TaskEvents(r, t) = {} /\ ~Begun(r, t) /\ NameOf[t] \notin Running
        /\ \A pc : Handles(r, t, pc) => pc = "idle"
    BY <1>1 DEF Init, TaskEvents, Begun, Running, Handles, At, Idle
  <2>2. ~HoldsSlot(TaskOf(r, t).state)
    <3>1. t \in Tasks
      BY DrainAssumption
    <3>2. PICK target : recs[r] = InitialRecord(target)
      BY DEF Init
    <3> QED BY <3>1, <3>2
       DEF InitialRecord, Absent, TaskOf, HoldsSlot, SlotHoldingStates, States
  <2> QED BY <2>1, <2>2
      DEF OwnTask, EventsFit, BegunFits, LaunchFits, EntryFits, ForLaunch, ForEdge
<1> QED BY <1>1 DEF OwnInv, Init

LEMMA StepOwn ==
  ASSUME BaseInv, OwnInv, DisjointRuns, [Next]_vars
  PROVE  OwnInv'
<1>1. ASSUME NEW r \in Runs, Pass(r) \/ Faults(r)
      PROVE  OwnInv'
  BY <1>1, OwnLeave, OwnTakeSlot, OwnPersist, OwnPersistFails, OwnRetire, OwnWrite, OwnSync,
     OwnCreateChild, OwnLaunched DEF Pass, Faults
<1>2. ASSUME NEW r \in Runs, Commands(r)
      PROVE  OwnInv'
  BY <1>2, OwnCommands
<1>3. ASSUME NEW e \in events, Settle(e) \/ SettleFails(e) \/ SyncSettled(e)
      PROVE  OwnInv'
  BY <1>3, OwnSettles, OwnUnsettled, OwnSyncSettled
<1>4. ASSUME NEW c \in Children, Dispose(c) \/ \E to \in Settled : ChildEnds(c, to)
      PROVE  OwnInv'
  BY <1>4, OwnDispose, OwnChildEnds
<1>5. CASE UNCHANGED vars
  BY <1>5 DEF vars, OwnInv, OwnTask, EventsFit, BegunFits, LaunchFits, EntryFits, ForLaunch,
     ForEdge, Handles, At, Task, Request, TaskEvents, Begun, HasEntry, Quiet, TaskOf, Running,
     Present
<1> QED BY <1>1, <1>2, <1>3, <1>4, <1>5, OwnCrash DEF Next, Observer

THEOREM OwnCorrect ==
  ASSUME DisjointRuns
  PROVE  Spec => []OwnInv
<1>1. Init => OwnInv
  BY InitBase, OwnInit
<1>2. BaseInv /\ OwnInv /\ [Next]_vars => OwnInv'
  BY StepOwn
<1> QED BY <1>1, <1>2, BaseCorrect, PTL DEF Spec

\* INV-C4 (completion.ts reconcileCompletedTask, host.ts drain): where no two roots
\* submit the same task, no slot is given away while work goes on in it, with faults and
\* restarts, ends that outrun their launch and unclean ends.
THEOREM SlotsFollowWork ==
  ASSUME DisjointRuns
  PROVE  Spec => []WorkUnderWayHoldsSlot
<1>1. ASSUME BaseInv, OwnInv PROVE WorkUnderWayHoldsSlot
  <2>1. ASSUME NEW c \in Running
        PROVE  \E r \in Runs, t \in Tasks :
                 TaskOf(r, t).child = c /\ HoldsSlot(TaskOf(r, t).state)
    <3>1. c \in live /\ c \in Children
      BY <1>1, TypeParts DEF BaseInv, HostTypes, Running
    <3>2. PICK r \in Runs, t \in Tasks : TaskOf(r, t).child = c
      BY <1>1, <3>1 DEF BaseInv, LiveOwned
    <3>3. TaskFits(r, t, TaskOf(r, t))
      BY <1>1 DEF BaseInv, RecordFits, TaskOf
    <3>4. t \in TasksOf[r] /\ c = NameOf[t]
      BY <3>1, <3>2, <3>3, TaskAssumption DEF TaskFits
    <3>5. HoldsSlot(TaskOf(r, t).state)
      BY <1>1, <3>4 DEF OwnInv, OwnTask, BegunFits
    <3> QED BY <3>2, <3>5
  <2>2. ASSUME NEW o \in begun
        PROVE  HoldsSlot(TaskOf(o[1], o[2]).state)
    <3>1. o[1] \in Runs /\ o = <<o[1], o[2]>> /\ o[2] \in TasksOf[o[1]]
      BY <1>1, TypeParts DEF BaseInv, HostTypes, OwnInv
    <3>2. Begun(o[1], o[2])
      BY <3>1 DEF Begun
    <3> QED BY <1>1, <3>1, <3>2 DEF OwnInv, OwnTask, BegunFits
  <2> QED BY <2>1, <2>2 DEF WorkUnderWayHoldsSlot
<1> QED BY <1>1, OwnCorrect, BaseCorrect, PTL

\* INV-D4 (host.ts tryReserveAdmission and the drain): where no two roots submit the
\* same task, one whose earlier launch was never reported ended is not launched again,
\* whatever is submitted, fails, is stopped or restarts in between.
THEOREM NeverLaunchedBlind ==
  ASSUME DisjointRuns
  PROVE  Spec => NoBlindRelaunch
<1>1. ASSUME BaseInv, OwnInv, NEW r \in Runs, At(r, "launch")
      PROVE  <<r, Task(r)>> \notin begun
  <2>1. Task(r) \in TasksOf[r] /\ Handles(r, Task(r), "launch")
    BY <1>1, CurrentTask DEF Current, At, Handles
  <2> QED BY <1>1, <2>1 DEF OwnInv, OwnTask, LaunchFits, Quiet, Begun
<1>2. BaseInv /\ OwnInv =>
        [\A r \in Runs : At(r, "launch") /\ live' # live /\ drain'[r].pc = "launched"
           => <<r, Task(r)>> \notin begun]_vars
  BY <1>1
<1> QED BY <1>2, OwnCorrect, BaseCorrect, PTL DEF NoBlindRelaunch

------------------------------------------------------------------------------
(* The gate's entries and the records, whatever the roots submit. *)

\* A step of a leader moves that leader alone, and queues no completion.
LEMMA OnlyLeader ==
  ASSUME BaseInv, NEW r \in Runs, Pass(r) \/ Faults(r)
  PROVE  /\ \A q \in Runs \ {r} : drain'[q] = drain[q]
         /\ At(r, "sync")' => Write(r)
         /\ At(r, "admitting") => Persist(r) \/ PersistFails(r)
         /\ At(r, "launched")' => CreateChild(r)
         /\ At(r, "write")' /\ drain'[r].to = "accepted" => LaunchReturns(r)
         /\ UNCHANGED events
<1>1. drain \in [Runs -> Leader] /\ drain[r] \in Leader
  BY TypeParts DEF BaseInv
<1>2. CASE TakeBatch(r) \/ NextEntry(r) \/ EndPass(r)
  BY <1>1, <1>2 DEF TakeBatch, NextEntry, EndPass, Goto, At, hostVars, Leader
<1>3. CASE NextRequest(r) \/ Refuse(r) \/ TakeSlot(r)
  BY <1>1, <1>3 DEF NextRequest, Refuse, TakeSlot, Goto, SkipRows, NextRow, At, hostVars, Leader
<1>4. CASE Persist(r) \/ PersistFails(r)
  BY <1>1, <1>4 DEF Persist, PersistFails, Goto, Abandon, Idle, At, hostVars, Leader
<1>5. CASE Drop(r) \/ Write(r)
  <2>1. /\ \A q \in Runs \ {r} : drain'[q] = drain[q]
        /\ drain'[r].pc = IF Drop(r) THEN "row" ELSE "sync"
        /\ drain[r].pc \in {"drop", "write"}
    BY <1>1, <1>5 DEF Drop, Write, Goto, NextRow, At, Leader
  <2> QED BY <1>5, <2>1 DEF Drop, Write, At, hostVars
<1>6. CASE Retire(r)
  <2>1. /\ \A q \in Runs \ {r} : drain'[q] = drain[q]
        /\ drain'[r].pc = "write" /\ drain'[r].to = "launching" /\ drain[r].pc = "retire"
    BY <1>1, <1>6 DEF Retire, GotoWrite, At, Leader
  <2> QED BY <1>6, <2>1 DEF Retire, At, hostVars
<1>7. CASE WriteRefused(r) \/ DiskFails(r)
  BY <1>1, <1>7 DEF WriteRefused, DiskFails, Abandon, Idle, At, hostVars
<1>8. CASE Sync(r) \/ CreateChild(r)
  BY <1>1, <1>8 DEF Sync, CreateChild, Goto, NextRow, Abandon, Idle, At, hostVars, Leader
<1>9. CASE LaunchReturns(r) \/ LaunchThrows(r)
  <2>1. /\ \A q \in Runs \ {r} : drain'[q] = drain[q]
        /\ drain'[r].pc = "write" /\ drain[r].pc \in {"launch", "launched"}
        /\ drain'[r].to = IF LaunchReturns(r) THEN "accepted" ELSE "unknown"
    BY <1>1, <1>9 DEF LaunchReturns, LaunchThrows, GotoWrite, At, Leader
  <2> QED BY <1>9, <2>1 DEF LaunchReturns, LaunchThrows, At, hostVars
<1> QED BY <1>2, <1>3, <1>4, <1>5, <1>6, <1>7, <1>8, <1>9 DEF Pass, Faults

\* A record is written only when the gate has caught up with what was written before.
LEMMA OnlyResynced ==
  ASSUME [Next]_vars
  PROVE  UNCHANGED recs \/ Resynced
<1>1. ASSUME NEW r \in Runs, Pass(r) \/ Faults(r)
      PROVE  UNCHANGED recs \/ Resynced
  BY <1>1 DEF Pass, Faults, TakeBatch, NextEntry, EndPass, NextRequest, Refuse, TakeSlot,
     Persist, PersistFails, Drop, Retire, Write, WriteRefused, DiskFails, Sync, CreateChild,
     LaunchReturns, LaunchThrows, MayWrite
<1>2. ASSUME NEW r \in Runs, Commands(r)
      PROVE  UNCHANGED recs \/ Resynced
  BY <1>2 DEF Commands, Submit, SetTarget, Finish, Stop, Start, MayWrite
<1>3. ASSUME NEW e \in events, Settle(e) \/ SettleFails(e) \/ SyncSettled(e)
      PROVE  UNCHANGED recs \/ Resynced
  BY <1>3 DEF Settle, SettleFails, SyncSettled, MayWrite
<1>4. ASSUME NEW c \in Children, Dispose(c) \/ \E to \in Settled : ChildEnds(c, to)
      PROVE  UNCHANGED recs \/ Resynced
  BY <1>4 DEF Dispose, ChildEnds
<1> QED BY <1>1, <1>2, <1>3, <1>4 DEF Next, Observer, Crash, vars

\* Nobody reaches the gate with a new edge, so what they wrote stands.
LEMMA SyncedKept ==
  ASSUME SyncedStates, UNCHANGED recs \/ Resynced,
         \A e \in events' : e.step = "sync" => e \in events,
         \A r \in Runs : At(r, "sync")' => /\ At(r, "sync") /\ Task(r)' = Task(r)
                                            /\ drain'[r].to = drain[r].to
  PROVE  SyncedStates'
BY DEF SyncedStates, Resynced, TaskOf, At, Task, Request

LEMMA StepSynced ==
  ASSUME BaseInv, SyncedStates, [Next]_vars
  PROVE  SyncedStates'
<1>1. UNCHANGED recs \/ Resynced
  BY OnlyResynced
<1>2. recs \in [Runs -> Record] /\ drain \in [Runs -> Leader] /\ HostTypes
  BY TypeParts DEF BaseInv
<1>3. ASSUME NEW r \in Runs, Pass(r) \/ Faults(r), ~Write(r)
      PROVE  SyncedStates'
  <2>1. /\ \A q \in Runs \ {r} : drain'[q] = drain[q]
        /\ ~At(r, "sync")' /\ UNCHANGED events
    BY <1>3, OnlyLeader
  <2>2. \A q \in Runs : At(q, "sync")' => /\ At(q, "sync") /\ Task(q)' = Task(q)
                                          /\ drain'[q].to = drain[q].to
    BY <2>1 DEF At, Task, Request
  <2> QED BY <1>1, <2>1, <2>2, SyncedKept
<1>4. ASSUME NEW r \in Runs, Write(r)
      PROVE  SyncedStates'
  <2>1. PICK t, y : t = Task(r) /\ y = Moved(recs[r], t, drain[r].to)
    OBVIOUS
  <2>2. drain[r].pc \in Current /\ drain[r].pc = "write" /\ Resynced
    BY <1>4 DEF Write, At, Current, MayWrite
  <2>3. /\ t \in Tasks /\ recs[r] \in Record /\ RecordFits(r, recs[r])
        /\ LeaderFits(r, recs[r], drain[r])
    BY <1>2, <2>1, <2>2, CurrentTask DEF BaseInv
  <2>4. Present(recs[r], t) /\ drain[r].to \in Edges
    BY <2>1, <2>2, <2>3 DEF LeaderFits, AfterAdmission, Edges, Task, Request
  <2>5. y.tasks[t].state = drain[r].to
    BY <2>1, <2>3, <2>4, MovedFits
  <2>6. /\ recs'[r] = y /\ events' = events
        /\ \A q \in Runs \ {r} : drain'[q] = drain[q]
        /\ drain'[r].queue = drain[r].queue /\ drain'[r].to = drain[r].to
    BY <1>2, <1>4, <2>1 DEF Write, Moved, Goto, hostVars, Leader
  <2> QED BY <2>1, <2>2, <2>5, <2>6 DEF SyncedStates, Resynced, TaskOf, At, Task, Request
<1>5. ASSUME NEW r \in Runs, Commands(r)
      PROVE  SyncedStates'
  <2>1. (Wake(r) \/ UNCHANGED drain) /\ UNCHANGED events
    BY <1>5 DEF Commands, Submit, SetTarget, Finish, Stop, Start, hostVars
  <2>2. \A q \in Runs : /\ At(q, "sync")' => At(q, "sync")
                      /\ Task(q)' = Task(q) /\ drain'[q].to = drain[q].to
    BY <2>1, WakeKeeps DEF At, Task, Request
  <2> QED BY <1>1, <2>1, <2>2, SyncedKept
<1>6. ASSUME NEW e \in events, Settle(e) \/ SettleFails(e) \/ SyncSettled(e)
      PROVE  SyncedStates'
  <2>1. PICK r, t, f : r = e.run /\ t = e.task /\ f = [e EXCEPT !.step = "sync"]
    OBVIOUS
  <2>2. /\ r \in Runs /\ t \in Tasks /\ e.to \in {"completed", "unknown"}
        /\ f.run = r /\ f.task = t /\ f.to = e.to
    BY <1>2, <2>1, EventTypes
  <2>3. Wake(r) \/ UNCHANGED drain
    BY <1>6, <2>1 DEF Settle, SettleFails, SyncSettled
  <2>4. \A q \in Runs : /\ At(q, "sync")' => At(q, "sync")
                      /\ Task(q)' = Task(q) /\ drain'[q].to = drain[q].to
    BY <2>2, <2>3, WakeKeeps DEF At, Task, Request
  <2>5. CASE events' = events \ {e}
    BY <1>1, <2>4, <2>5, SyncedKept
  <2>6. CASE Settle(e) /\ CanTransition(recs[r].tasks[t].state, e.to)
    <3>1. PICK y : y = Moved(recs[r], t, e.to)
      OBVIOUS
    <3>2. /\ recs[r] \in Record /\ RecordFits(r, recs[r]) /\ Present(recs[r], t)
          /\ e.to \in Edges
      BY <1>2, <2>2, <2>6
         DEF BaseInv, Present, CanTransition, Transitions, Unfinished, Edges
    <3>3. y.tasks[t].state = e.to
      BY <2>2, <3>1, <3>2, MovedFits
    <3>4. /\ recs'[r] = y /\ events' = (events \ {e}) \cup {f} /\ Resynced
          /\ UNCHANGED drain
      BY <1>2, <2>1, <2>2, <2>6, <3>1 DEF Settle, MayWrite, Moved
    <3> QED BY <2>2, <3>3, <3>4 DEF SyncedStates, Resynced, TaskOf, At, Task, Request
  <2> QED BY <1>6, <2>1, <2>5, <2>6 DEF Settle, SettleFails, SyncSettled
<1>7. ASSUME NEW c \in Children, Dispose(c) \/ \E to \in Settled : ChildEnds(c, to)
      PROVE  SyncedStates'
  <2>1. \A e \in events' : e.step = "sync" => e \in events
    BY <1>7 DEF Dispose, ChildEnds
  <2>2. \A q \in Runs : /\ At(q, "sync")' => At(q, "sync")
                      /\ Task(q)' = Task(q) /\ drain'[q].to = drain[q].to
    <3>1. CASE UNCHANGED drain
      BY <3>1, DrainStays
    <3>2. CASE \E to \in Settled : ChildEnds(c, to) /\ Wake(OwnerOf(c)[1])
      <4>1. PICK r : r = OwnerOf(c)[1]
        OBVIOUS
      <4>2. r \in Runs /\ Wake(r)
        BY <3>2, <4>1, OwnerFacts DEF ChildEnds, Running
      <4> QED BY <4>2, WakeKeeps DEF At, Task, Request
    <3> QED BY <1>7, <3>1, <3>2 DEF Dispose, ChildEnds
  <2> QED BY <1>1, <2>1, <2>2, SyncedKept
<1>8. CASE Crash
  <2>1. events' = {} /\ \A r \in Runs : drain'[r].pc = "idle"
    BY <1>8, WokenFits DEF Crash, Idle, Woken
  <2> QED BY <2>1 DEF SyncedStates, At
<1>9. CASE UNCHANGED vars
  BY <1>9 DEF vars, SyncedStates, TaskOf, At, Task, Request
<1> QED BY <1>3, <1>4, <1>5, <1>6, <1>7, <1>8, <1>9 DEF Next, Observer

\* An entry keeps standing for what it stood for.
Keeps(u) ==
  /\ HasEntry(u)' => HasEntry(u)
  /\ \A r \in Runs : HoldsSlot(TaskOf(r, u).state) => HoldsSlot(TaskOf(r, u)'.state)
  /\ \A r \in Runs : Handles(r, u, "admitting") => Handles(r, u, "admitting")'
  /\ \A e \in events : e.task = u /\ e.step = "sync" /\ e.to = "completed" => e \in events'

LEMMA StandsKept ==
  ASSUME EntriesStand, \A u \in Tasks : HasEntry(u)' => Keeps(u) \/ Stands(u)'
  PROVE  EntriesStand'
BY DEF EntriesStand, Keeps, Stands, Held, TaskOf

\* Retiring a row leaves every task as it is.
LEMMA RowsOnly ==
  ASSUME BaseInv, NEW r \in Runs, Drop(r) \/ Retire(r)
  PROVE  \A q \in Runs : recs'[q].tasks = recs[q].tasks
<1>1. recs \in [Runs -> Record] /\ recs[r] \in Record /\ RecordFits(r, recs[r])
  BY TypeParts DEF BaseInv
<1>2. Task(r) \in Tasks
  BY InHand DEF BaseInv, LeaderFits, WithRequest, Drop, Retire, At, Task, Request
<1>3. PICK x : x = WithoutRow(recs[r], Task(r))
  OBVIOUS
<1>4. x.tasks = recs[r].tasks
  BY <1>1, <1>2, <1>3, WithoutRowFits
<1>5. recs' = [recs EXCEPT ![r] = x]
  BY <1>3 DEF Drop, Retire
<1> QED BY <1>1, <1>4, <1>5

LEMMA TasksKept ==
  ASSUME BaseInv, NEW r \in Runs, Pass(r) \/ Faults(r), ~Persist(r), ~Write(r)
  PROVE  \A q \in Runs : recs'[q].tasks = recs[q].tasks
<1>1. CASE Drop(r) \/ Retire(r)
  BY <1>1, RowsOnly
<1>2. CASE ~(Drop(r) \/ Retire(r))
  <2>1. UNCHANGED recs
    BY <1>2 DEF Pass, Faults, TakeBatch, NextEntry, EndPass, NextRequest, Refuse, TakeSlot,
       PersistFails, WriteRefused, DiskFails, Sync, CreateChild, LaunchReturns, LaunchThrows
  <2> QED BY <2>1
<1> QED BY <1>1, <1>2

LEMMA CommandsKeepTasks ==
  ASSUME BaseInv, NEW r \in Runs, Commands(r)
  PROVE  \A q \in Runs : recs'[q].tasks = recs[q].tasks
<1>1. recs \in [Runs -> Record] /\ recs[r] \in Record /\ RecordFits(r, recs[r])
  BY TypeParts DEF BaseInv
<1>2. CASE Start(r)
  BY <1>2 DEF Start
<1>3. ASSUME NEW t \in TasksOf[r], Submit(r, t)
      PROVE  \A q \in Runs : recs'[q].tasks = recs[q].tasks
  <2>1. PICK x : x = WithRow(recs[r], t, NameOf[t], Cost)
    OBVIOUS
  <2>2. x.tasks = recs[r].tasks
    BY <1>1, <2>1, WithRowFits
  <2>3. recs' = [recs EXCEPT ![r] = x]
    BY <1>3, <2>1 DEF Submit
  <2> QED BY <1>1, <2>2, <2>3
<1>4. CASE Finish(r) \/ Stop(r) \/ \E target \in Targets : SetTarget(r, target)
  <2>1. PICK x : recs' = [recs EXCEPT ![r] = x] /\ x.tasks = recs[r].tasks
    BY <1>1, <1>4 DEF Finish, Stop, SetTarget, Record
  <2> QED BY <1>1, <2>1
<1> QED BY <1>2, <1>3, <1>4 DEF Commands

\* The steps of a leader that change an entry or a task.
LEMMA StandsAdmitted ==
  ASSUME BaseInv, EntriesStand, NEW r \in Runs, TakeSlot(r) \/ Persist(r) \/ PersistFails(r)
  PROVE  EntriesStand'
<1>1. PICK t : t = Task(r)
  OBVIOUS
<1>2. /\ \A q \in Runs \ {r} : drain'[q] = drain[q]
      /\ UNCHANGED events
  BY OnlyLeader DEF Pass, Faults
<1>3. /\ recs \in [Runs -> Record] /\ drain \in [Runs -> Leader] /\ HostTypes
      /\ drain[r] \in Leader /\ RecordFits(r, recs[r]) /\ recs[r] \in Record
  BY TypeParts DEF BaseInv
<1>4. CASE TakeSlot(r)
  <2>1. /\ UNCHANGED recs /\ \A u \in Tasks \ {t} : slots'[u] = slots[u]
        /\ At(r, "reserve") /\ Handles(r, t, "admitting")'
    BY <1>1, <1>3, <1>4
       DEF TakeSlot, Gate!ReserveTask, HostTypes, Goto, Handles, At, Task, Request, Leader
  <2>2. Stands(t)'
    BY <2>1 DEF Stands
  <2>3. \A u \in Tasks \ {t} : Keeps(u)
    BY <1>2, <2>1 DEF Keeps, HasEntry, TaskOf, Handles, At, Task, Request
  <2> QED BY <2>2, <2>3, StandsKept
<1>5. CASE Persist(r) \/ PersistFails(r)
  <2>1. drain[r].pc \in Current /\ At(r, "admitting") /\ Handles(r, t, "admitting")
    BY <1>1, <1>5 DEF Persist, PersistFails, At, Current, Handles
  <2>2. t \in Tasks /\ t \in TasksOf[r] /\ Request(r).child = NameOf[t] /\ Request(r).cost = Cost
    BY <1>1, <2>1, CurrentTask
  <2>3. ASSUME NEW u \in Tasks \ {t}
        PROVE  \A q \in Runs : ~Handles(q, u, "admitting")
    <3>1. \A q \in Runs : At(q, "admitting") => q = r
      BY <2>1 DEF BaseInv, ChainFits
    <3> QED BY <1>1, <3>1 DEF Handles
  <2>4. CASE Persist(r)
    <3>1. PICK y : y = Admitted(recs[r], t, NameOf[t], Cost)
      OBVIOUS
    <3>2. Refusal(recs[r], t, Cost) = "admit"
      BY <1>1, <2>1 DEF BaseInv, LeaderFits, At, Task, Request
    <3>3. y.tasks[t].state = "prepared" /\ \A u \in Tasks \ {t} : y.tasks[u] = recs[r].tasks[u]
      BY <1>3, <2>2, <3>1, <3>2, AdmittedFits
    <3>4. recs' = [recs EXCEPT ![r] = y] /\ UNCHANGED slots
      BY <1>1, <2>2, <2>4, <3>1 DEF Persist, gateVars
    <3>5. recs'[r] = y /\ \A q \in Runs \ {r} : recs'[q] = recs[q]
      BY <1>3, <3>4
    <3>6. Stands(t)'
      BY <2>2, <3>3, <3>5 DEF Stands, Held, HoldsSlot, SlotHoldingStates, States
    <3>7. \A u \in Tasks \ {t} : Keeps(u)
      BY <1>2, <2>3, <3>3, <3>4, <3>5 DEF Keeps, HasEntry, TaskOf
    <3> QED BY <3>6, <3>7, StandsKept
  <2>5. CASE PersistFails(r)
    <3>1. /\ slots'[t] = Free /\ \A u \in Tasks \ {t} : slots'[u] = slots[u]
          /\ UNCHANGED recs
      BY <1>1, <1>3, <2>2, <2>5 DEF PersistFails, Gate!ReleaseTask, HostTypes
    <3>2. \A u \in Tasks \ {t} : Keeps(u)
      BY <1>2, <2>3, <3>1 DEF Keeps, HasEntry, TaskOf
    <3> QED BY <3>1, <3>2, StandsKept DEF HasEntry
  <2> QED BY <1>5, <2>4, <2>5
<1> QED BY <1>4, <1>5

LEMMA StandsWritten ==
  ASSUME BaseInv, SyncedStates, EntriesStand, NEW r \in Runs, Write(r) \/ Sync(r)
  PROVE  EntriesStand'
<1>1. PICK t : t = Task(r)
  OBVIOUS
<1>2. /\ \A q \in Runs \ {r} : drain'[q] = drain[q]
      /\ ~At(r, "admitting") /\ UNCHANGED events
  BY OnlyLeader DEF Pass, Write, Sync, At
<1>3. /\ recs \in [Runs -> Record] /\ HostTypes /\ drain[r].pc \in Current
      /\ RecordFits(r, recs[r]) /\ recs[r] \in Record /\ LeaderFits(r, recs[r], drain[r])
  BY TypeParts DEF BaseInv, Write, Sync, At, Current
<1>4. t \in Tasks /\ \A q \in Runs, u \in Tasks : Handles(q, u, "admitting") => Handles(q, u, "admitting")'
  BY <1>1, <1>2, <1>3, CurrentTask DEF Handles, At, Task, Request
<1>5. /\ drain[r].to \in {"launching", "accepted", "unknown"} /\ HoldsSlot(drain[r].to)
      /\ drain[r].to \in Edges
  BY <1>3 DEF LeaderFits, Write, Sync, At, Edges, HoldsSlot, SlotHoldingStates, States
<1>6. \A u \in Tasks \ {t} : slots'[u] = slots[u]
  BY <1>1, <1>3, <1>4 DEF Write, Sync, Gate!ReserveTask, gateVars, HostTypes
<1>7. /\ HoldsSlot(TaskOf(r, t)'.state)
      /\ \A q \in Runs, u \in Tasks \ {t} : TaskOf(q, u)' = TaskOf(q, u)
  <2>1. CASE Sync(r)
    BY <1>1, <1>5, <2>1 DEF Sync, SyncedStates, TaskOf
  <2>2. CASE Write(r)
    <3>1. PICK y : y = Moved(recs[r], t, drain[r].to)
      OBVIOUS
    <3>2. Present(recs[r], t)
      BY <1>1, <1>3, <2>2 DEF LeaderFits, AfterAdmission, Write, At, Task, Request
    <3>3. y.tasks[t].state = drain[r].to /\ \A u \in Tasks \ {t} : y.tasks[u] = recs[r].tasks[u]
      BY <1>3, <1>4, <1>5, <3>1, <3>2, MovedFits
    <3>4. recs' = [recs EXCEPT ![r] = y]
      BY <1>1, <2>2, <3>1 DEF Write, Moved
    <3>5. recs'[r] = y /\ \A q \in Runs \ {r} : recs'[q] = recs[q]
      BY <1>3, <3>4
    <3> QED BY <1>5, <3>3, <3>5 DEF TaskOf
  <2> QED BY <2>1, <2>2
<1>8. Stands(t)'
  BY <1>4, <1>7 DEF Stands, Held, TaskOf
<1>9. \A u \in Tasks \ {t} : Keeps(u)
  BY <1>2, <1>4, <1>6, <1>7 DEF Keeps, HasEntry
<1> QED BY <1>8, <1>9, StandsKept

LEMMA StandsSettled ==
  ASSUME BaseInv, SyncedStates, EntriesStand, NEW e \in events,
         Settle(e) \/ SettleFails(e) \/ SyncSettled(e)
  PROVE  EntriesStand'
<1>1. PICK r, t : r = e.run /\ t = e.task
  OBVIOUS
<1>2. /\ HostTypes /\ r \in Runs /\ t \in Tasks /\ e.to \in {"completed", "unknown"}
      /\ recs \in [Runs -> Record] /\ RecordFits(r, recs[r]) /\ recs[r] \in Record
  BY <1>1, TypeParts, EventTypes DEF BaseInv
<1>3. Wake(r) \/ UNCHANGED drain
  BY <1>1 DEF Settle, SettleFails, SyncSettled
<1>4. \A q \in Runs, u \in Tasks : Handles(q, u, "admitting") => Handles(q, u, "admitting")'
  BY <1>2, <1>3, WakeKeeps DEF Handles, At, Task, Request
<1>5. CASE SyncSettled(e)
  <2>1. /\ UNCHANGED recs /\ events' = events \ {e} /\ TaskOf(r, t).state = e.to
        /\ \A u \in Tasks \ {t} : slots'[u] = slots[u]
        /\ e.to = "completed" => ~HasEntry(t)'
    BY <1>1, <1>2, <1>5
       DEF SyncSettled, SyncedStates, Gate!ReleaseTask, Gate!ReserveTask, gateVars, HostTypes,
           HasEntry
  <2>2. \A u \in Tasks \ {t} : Keeps(u)
    BY <1>1, <1>4, <2>1 DEF Keeps, HasEntry, TaskOf
  <2>3. e.to = "unknown" => Stands(t)'
    BY <1>2, <2>1 DEF Stands, Held, TaskOf, HoldsSlot, SlotHoldingStates, States
  <2> QED BY <1>2, <2>1, <2>2, <2>3, StandsKept
<1>6. CASE SettleFails(e) \/ (Settle(e) /\ ~CanTransition(recs[r].tasks[t].state, e.to))
  <2>1. UNCHANGED <<recs, slots>> /\ events' = events \ {e} /\ e.step # "sync"
    BY <1>1, <1>6 DEF SettleFails, Settle, gateVars
  <2>2. \A u \in Tasks : Keeps(u)
    BY <1>4, <2>1 DEF Keeps, HasEntry, TaskOf
  <2> QED BY <2>2, StandsKept
<1>7. CASE Settle(e) /\ CanTransition(recs[r].tasks[t].state, e.to)
  <2>1. PICK y, f : y = Moved(recs[r], t, e.to) /\ f = [e EXCEPT !.step = "sync"]
    OBVIOUS
  <2>2. Present(recs[r], t) /\ e.to \in Edges
    BY <1>2, <1>7 DEF Present, CanTransition, Transitions, Unfinished, Edges
  <2>3. y.tasks[t].state = e.to /\ \A u \in Tasks \ {t} : y.tasks[u] = recs[r].tasks[u]
    BY <1>2, <2>1, <2>2, MovedFits
  <2>4. /\ recs' = [recs EXCEPT ![r] = y] /\ events' = (events \ {e}) \cup {f}
        /\ UNCHANGED slots /\ e.step # "sync"
    BY <1>1, <1>7, <2>1 DEF Settle, Moved, gateVars
  <2>5. recs'[r] = y /\ \A q \in Runs \ {r} : recs'[q] = recs[q]
    BY <1>2, <2>4
  <2>6. f \in events' /\ f.task = t /\ f.step = "sync" /\ f.to = e.to
    BY <1>1, <1>2, <2>1, <2>4, EventTypes
  <2>7. e.to = "unknown" => Stands(t)'
    BY <1>2, <2>3, <2>5 DEF Stands, Held, HoldsSlot, SlotHoldingStates, States
  <2>8. e.to = "completed" => Stands(t)'
    BY <2>6 DEF Stands
  <2>9. \A u \in Tasks \ {t} : Keeps(u)
    BY <1>4, <2>3, <2>4, <2>5 DEF Keeps, HasEntry, TaskOf
  <2> QED BY <1>2, <2>7, <2>8, <2>9, StandsKept
<1> QED BY <1>1, <1>5, <1>6, <1>7

LEMMA StepStands ==
  ASSUME BaseInv, SyncedStates, EntriesStand, [Next]_vars
  PROVE  EntriesStand'
<1>1. recs \in [Runs -> Record] /\ drain \in [Runs -> Leader] /\ HostTypes
  BY TypeParts DEF BaseInv
<1>2. ASSUME UNCHANGED <<slots, events>>,
             \A q \in Runs : recs'[q].tasks = recs[q].tasks,
             \A q \in Runs, u \in Tasks :
               Handles(q, u, "admitting") => Handles(q, u, "admitting")'
      PROVE  EntriesStand'
  <2>1. \A u \in Tasks : Keeps(u)
    BY <1>2 DEF Keeps, HasEntry, TaskOf
  <2> QED BY <2>1, StandsKept
<1>3. ASSUME NEW r \in Runs, Pass(r) \/ Faults(r)
      PROVE  EntriesStand'
  <2>1. CASE TakeSlot(r) \/ Persist(r) \/ PersistFails(r) \/ Write(r) \/ Sync(r)
    BY <2>1, StandsAdmitted, StandsWritten
  <2>2. CASE ~(TakeSlot(r) \/ Persist(r) \/ PersistFails(r) \/ Write(r) \/ Sync(r))
    <3>1. UNCHANGED slots
      BY <1>3, <2>2 DEF Pass, Faults, TakeBatch, NextEntry, EndPass, NextRequest, Refuse, Drop,
         Retire, WriteRefused, DiskFails, CreateChild, LaunchReturns, LaunchThrows,
         Gate!ReserveChild, gateVars
    <3>2. \A q \in Runs : recs'[q].tasks = recs[q].tasks
      BY <1>3, <2>2, TasksKept
    <3>3. ~At(r, "admitting") /\ UNCHANGED events
          /\ \A q \in Runs \ {r} : drain'[q] = drain[q]
      BY <1>3, <2>2, OnlyLeader
    <3>4. \A q \in Runs, u \in Tasks :
            Handles(q, u, "admitting") => Handles(q, u, "admitting")'
      BY <3>3 DEF Handles, At, Task, Request
    <3> QED BY <1>2, <3>1, <3>2, <3>3, <3>4
  <2> QED BY <2>1, <2>2
<1>4. ASSUME NEW r \in Runs, Commands(r)
      PROVE  EntriesStand'
  <2>1. (Wake(r) \/ UNCHANGED drain) /\ UNCHANGED <<slots, events>>
    BY <1>4 DEF Commands, Submit, SetTarget, Finish, Stop, Start, gateVars, hostVars
  <2>2. \A q \in Runs, u \in Tasks : Handles(q, u, "admitting") => Handles(q, u, "admitting")'
    BY <2>1, WakeKeeps DEF Handles, At, Task, Request
  <2>3. \A q \in Runs : recs'[q].tasks = recs[q].tasks
    BY <1>4, CommandsKeepTasks
  <2> QED BY <1>2, <2>1, <2>2, <2>3
<1>5. ASSUME NEW c \in Children, Dispose(c) \/ \E to \in Settled : ChildEnds(c, to)
      PROVE  EntriesStand'
  <2>1. UNCHANGED <<recs, slots>> /\ events \subseteq events'
    BY <1>5 DEF Dispose, ChildEnds, Gate!ReleaseChild, gateVars
  <2>2. \A q \in Runs, u \in Tasks : Handles(q, u, "admitting") => Handles(q, u, "admitting")'
    <3>1. CASE UNCHANGED drain
      BY <3>1 DEF Handles, At, Task, Request
    <3>2. CASE \E to \in Settled : ChildEnds(c, to) /\ Wake(OwnerOf(c)[1])
      <4>1. PICK r : r = OwnerOf(c)[1]
        OBVIOUS
      <4>2. r \in Runs /\ Wake(r)
        BY <3>2, <4>1, OwnerFacts DEF ChildEnds, Running
      <4> QED BY <4>2, WakeKeeps DEF Handles, At, Task, Request
    <3> QED BY <1>5, <3>1, <3>2 DEF Dispose, ChildEnds
  <2>3. \A u \in Tasks : Keeps(u)
    BY <2>1, <2>2 DEF Keeps, HasEntry, TaskOf
  <2> QED BY <2>3, StandsKept
<1>6. CASE Crash
  BY <1>6 DEF Crash, EntriesStand, HasEntry
<1>7. CASE UNCHANGED vars
  <2>1. \A q \in Runs, u \in Tasks : Handles(q, u, "admitting") => Handles(q, u, "admitting")'
    BY <1>7 DEF vars, Handles, At, Task, Request
  <2> QED BY <1>2, <1>7, <2>1 DEF vars
<1> QED BY <1>3, <1>4, <1>5, <1>6, <1>7, StandsSettled DEF Next, Observer

\* Where two roots may submit the same task too: what was written stays until the gate
\* has followed, and no entry is left without work, an admission or a completion behind it.
THEOREM EntriesCorrect == Spec => [](SyncedStates /\ EntriesStand)
<1>1. Init => SyncedStates /\ EntriesStand
  BY DEF Init, SyncedStates, EntriesStand, HasEntry, At, Idle
<1>2. BaseInv /\ (SyncedStates /\ EntriesStand) /\ [Next]_vars
        => (SyncedStates /\ EntriesStand)'
  BY StepSynced, StepStands
<1> QED BY <1>1, <1>2, BaseCorrect, PTL DEF Spec

\* "The gate and the record agree on which tasks hold slots" (host.ts 2046): with the
\* one exception the statement names, where no two roots submit the same task.
THEOREM GateFollowsRecords ==
  ASSUME DisjointRuns
  PROVE  Spec => []GateAgreesWithRecords
<1>1. ASSUME BaseInv, OwnInv, EntriesStand PROVE GateAgreesWithRecords
  <2>1. ASSUME crashes = 0, NEW r \in Runs, NEW t \in Held(recs[r]), slots[t] = Free
        PROVE  TaskOf(r, t).attempt > 1 /\ TaskOf(r, t).state \in {"prepared", "launching"}
    <3>1. t \in Tasks /\ HoldsSlot(TaskOf(r, t).state)
      BY DEF Held, TaskOf
    <3>2. Present(recs[r], t)
      BY <3>1 DEF Present, TaskOf, HoldsSlot, SlotHoldingStates, States
    <3>3. t \in TasksOf[r]
      BY <1>1, <3>1, <3>2, KnownTask
    <3> QED BY <1>1, <2>1, <3>1, <3>3 DEF OwnInv, OwnTask, EntryFits, HasEntry
  <2>2. ASSUME \A r \in Runs : AtRest(r), NEW t \in Tasks, slots[t] # Free
        PROVE  \E r \in Runs : t \in Held(recs[r])
    <3>1. \A e \in events : e.run \in Runs
      BY <1>1, TypeParts, EventTypes DEF BaseInv
    <3>2. events = {} /\ \A r \in Runs : ~At(r, "admitting")
      BY <2>2, <3>1 DEF AtRest, At
    <3> QED BY <1>1, <2>2, <3>2 DEF EntriesStand, HasEntry, Stands, Handles
  <2> QED BY <2>1, <2>2 DEF GateAgreesWithRecords
<1> QED BY <1>1, OwnCorrect, EntriesCorrect, BaseCorrect, PTL

------------------------------------------------------------------------------
(* What is shown of a run: an accepted task and its child. *)

LEMMA ShownKept ==
  ASSUME NEW r \in Runs, NEW t \in Tasks, AcceptedShown(r, t),
         TaskOf(r, t)'.state = TaskOf(r, t).state,
         <<r, t>> \in lost => <<r, t>> \in lost',
         NameOf[t] \in Running => NameOf[t] \in Running',
         \A e \in events : e.step = "write" => e \in events',
         Handles(r, t, "launched")' => Handles(r, t, "launched"),
         Handles(r, t, "write")' /\ drain'[r].to = "accepted" =>
            Handles(r, t, "write") /\ drain[r].to = "accepted"
  PROVE  AcceptedShown(r, t)'
BY DEF AcceptedShown, TaskEvents

\* A leader's step: a task is shown as accepted once its launch returned.
LEMMA ShownPass ==
  ASSUME BaseInv, OwnInv, ShownInv, NEW r \in Runs, Pass(r)
  PROVE  ShownInv'
<1>1. /\ recs \in [Runs -> Record] /\ drain[r] \in Leader /\ HostTypes
  BY TypeParts DEF BaseInv
<1>2. /\ \A q \in Runs \ {r} : drain'[q] = drain[q]
      /\ At(r, "launched")' => CreateChild(r)
      /\ At(r, "write")' /\ drain'[r].to = "accepted" => LaunchReturns(r)
      /\ UNCHANGED events
  BY OnlyLeader
<1>3. /\ ended' = ended
      /\ lost' = lost \/ (CreateChild(r) /\ lost' = lost \ {<<r, Task(r)>>})
  BY DEF Pass, TakeBatch, NextEntry, EndPass, NextRequest, Refuse, TakeSlot, Persist, Drop,
     Retire, Write, WriteRefused, Sync, CreateChild, LaunchReturns, LaunchThrows, hostVars
<1>4. live \subseteq live'
  BY DEF Pass, TakeBatch, NextEntry, EndPass, NextRequest, Refuse, TakeSlot, Persist, Drop,
     Retire, Write, WriteRefused, Sync, CreateChild, LaunchReturns, LaunchThrows, gateVars,
     Gate!ReserveTask, Gate!ReserveChild
<1>5. Running \subseteq Running'
  BY <1>3, <1>4 DEF Running
<1>6. \A q \in Runs \ {r} : recs'[q] = recs[q]
  BY <1>1 DEF Pass, TakeBatch, NextEntry, EndPass, NextRequest, Refuse, TakeSlot, Persist, Drop,
     Retire, Write, WriteRefused, Sync, CreateChild, LaunchReturns, LaunchThrows
<1>7. ASSUME NEW q \in Runs \ {r}, NEW t \in TasksOf[q]
      PROVE  AcceptedShown(q, t)'
  <2>1. t \in Tasks /\ AcceptedShown(q, t)
    BY DrainAssumption DEF ShownInv
  <2>2. TaskOf(q, t)'.state = TaskOf(q, t).state
    BY <1>6 DEF TaskOf
  <2>3. /\ Handles(q, t, "launched")' => Handles(q, t, "launched")
        /\ Handles(q, t, "write")' /\ drain'[q].to = "accepted" =>
             Handles(q, t, "write") /\ drain[q].to = "accepted"
    BY <1>2 DEF Handles, At, Task, Request
  <2> QED BY <1>2, <1>3, <1>5, <2>1, <2>2, <2>3, ShownKept
<1>8. ASSUME NEW t \in TasksOf[r]
      PROVE  AcceptedShown(r, t)'
  <2>1. t \in Tasks /\ AcceptedShown(r, t) /\ NameOf[t] \in Children
    BY DrainAssumption DEF ShownInv
  <2>2. CASE ~Persist(r) /\ ~Write(r) /\ ~CreateChild(r) /\ ~LaunchReturns(r)
    <3>1. TaskOf(r, t)'.state = TaskOf(r, t).state
      BY <2>2, TasksKept DEF TaskOf
    <3>2. ~Handles(r, t, "launched")' /\ ~(Handles(r, t, "write")' /\ drain'[r].to = "accepted")
      BY <1>2, <2>2 DEF Handles
    <3>3. lost' = lost
      BY <1>3, <2>2
    <3> QED BY <1>2, <1>5, <2>1, <3>1, <3>2, <3>3, ShownKept
  <2>3. CASE Persist(r) \/ Write(r)
    <3>1. PICK u : u = Task(r)
      OBVIOUS
    <3>2. drain[r].pc \in Current
      BY <2>3 DEF Persist, Write, At, Current
    <3>3. /\ u \in Tasks /\ recs[r] \in Record /\ RecordFits(r, recs[r])
          /\ LeaderFits(r, recs[r], drain[r]) /\ Request(r).child = NameOf[u]
          /\ Request(r).cost = Cost /\ u \in TasksOf[r]
      BY <3>1, <3>2, InHandNow, CurrentTask
    <3>4. ~Handles(r, t, "launched")' /\ ~Handles(r, t, "write")' /\ lost' = lost
      <4>1. drain \in [Runs -> Leader] /\ (Goto(r, "retire") \/ Goto(r, "sync"))
        BY <2>3, TypeParts DEF BaseInv, Persist, Write
      <4>2. drain'[r].pc \in {"retire", "sync"}
        BY <1>1, <4>1 DEF Goto, Leader
      <4>3. lost' = lost
        BY <2>3 DEF Persist, Write, hostVars
      <4> QED BY <4>2, <4>3 DEF Handles, At
    <3>5. CASE Persist(r)
      <4>1. PICK y : y = Admitted(recs[r], u, NameOf[u], Cost)
        OBVIOUS
      <4>2. Refusal(recs[r], u, Cost) = "admit"
        BY <3>1, <3>3, <3>5 DEF Persist, At, LeaderFits, Task, Request
      <4>3. y.tasks[u].state = "prepared" /\ \A v \in Tasks \ {u} : y.tasks[v] = recs[r].tasks[v]
        BY <3>3, <4>1, <4>2, AdmittedFits
      <4>4. recs'[r] = y
        BY <1>1, <3>1, <3>3, <3>5, <4>1 DEF Persist
      <4>5. t # u => TaskOf(r, t)'.state = TaskOf(r, t).state
        BY <2>1, <4>3, <4>4 DEF TaskOf
      <4>6. t = u => TaskOf(r, t)'.state # "accepted"
        BY <4>3, <4>4 DEF TaskOf
      <4> QED BY <1>2, <1>5, <2>1, <3>4, <4>5, <4>6, ShownKept DEF AcceptedShown
    <3>6. CASE Write(r)
      <4>1. PICK y : y = Moved(recs[r], u, drain[r].to)
        OBVIOUS
      <4>2. Present(recs[r], u) /\ drain[r].to \in Edges
        BY <3>1, <3>3, <3>6 DEF Write, At, LeaderFits, AfterAdmission, Edges, Task, Request
      <4>3. y.tasks[u].state = drain[r].to /\ \A v \in Tasks \ {u} : y.tasks[v] = recs[r].tasks[v]
        BY <3>3, <4>1, <4>2, MovedFits
      <4>4. recs'[r] = y
        BY <1>1, <3>1, <3>6, <4>1 DEF Write, Moved
      <4>5. t # u => TaskOf(r, t)'.state = TaskOf(r, t).state
        BY <2>1, <4>3, <4>4 DEF TaskOf
      <4>6. /\ t = u /\ TaskOf(r, t)'.state = "accepted" =>
                 NameOf[t] \in Running' \/ <<r, t>> \in lost
        BY <1>5, <2>1, <3>1, <3>6, <4>3, <4>4 DEF AcceptedShown, Write, Handles, TaskOf
      <4> QED BY <1>2, <1>5, <2>1, <3>4, <4>5, <4>6, ShownKept DEF AcceptedShown
    <3> QED BY <2>3, <3>5, <3>6
  <2>4. CASE CreateChild(r)
    <3>1. PICK u : u = Task(r)
      OBVIOUS
    <3>2. drain[r].pc \in Current /\ drain[r].pc = "launch"
      BY <2>4 DEF CreateChild, At, Current
    <3>3. OwnTask(r, u) /\ Handles(r, u, "launch") /\ Request(r).child = NameOf[u]
      BY <3>1, <3>2, InHandNow
    <3>4. /\ UNCHANGED recs /\ drain'[r].pc = "launched" /\ drain'[r].queue = drain[r].queue
          /\ NameOf[u] \in live'
      BY <1>1, <2>4, <3>1, <3>3, TypeParts
         DEF BaseInv, CreateChild, Goto, Leader, Gate!ReserveChild
    <3>5. TaskOf(r, u).state = "launching"
      BY <3>3 DEF OwnTask, LaunchFits
    <3>6. NameOf[u] \in Running'
      BY <1>1, <1>3, <2>4, <3>1, <3>3, <3>4 DEF CreateChild, Running, HostTypes
    <3>7. Handles(r, t, "launched")' => t = u
      BY <3>1, <3>4 DEF Handles, Task, Request
    <3>8. ~Handles(r, t, "write")' /\ TaskOf(r, t)' = TaskOf(r, t)
      BY <3>4 DEF Handles, At, TaskOf
    <3>9. t # u /\ <<r, t>> \in lost => <<r, t>> \in lost'
      BY <1>3, <3>1
    <3> QED BY <1>2, <1>5, <2>1, <3>5, <3>6, <3>7, <3>8, <3>9 DEF AcceptedShown, TaskEvents
  <2>5. CASE LaunchReturns(r)
    <3>1. /\ UNCHANGED recs /\ drain'[r].pc = "write" /\ drain'[r].queue = drain[r].queue
          /\ At(r, "launched")
      BY <1>1, <2>5, TypeParts DEF BaseInv, LaunchReturns, GotoWrite, Leader
    <3>2. /\ ~Handles(r, t, "launched")' /\ TaskOf(r, t)' = TaskOf(r, t)
          /\ Handles(r, t, "write")' => Handles(r, t, "launched")
      BY <3>1 DEF Handles, At, Task, Request, TaskOf
    <3>3. lost' = lost
      BY <2>5 DEF LaunchReturns, hostVars
    <3> QED BY <1>2, <1>5, <2>1, <3>2, <3>3 DEF AcceptedShown, TaskEvents
  <2> QED BY <2>2, <2>3, <2>4, <2>5
<1> QED BY <1>7, <1>8 DEF ShownInv

\* A woken leader, with the tasks and the children as they were.
LEMMA ShownWake ==
  ASSUME BaseInv, ShownInv, NEW q \in Runs, Wake(q) \/ UNCHANGED drain,
         \A r \in Runs : recs'[r].tasks = recs[r].tasks, UNCHANGED lost,
         Running \subseteq Running', \A e \in events : e.step = "write" => e \in events'
  PROVE  ShownInv'
<1>1. ASSUME NEW r \in Runs, NEW t \in TasksOf[r]
      PROVE  AcceptedShown(r, t)'
  <2>1. t \in Tasks /\ AcceptedShown(r, t)
    BY DrainAssumption DEF ShownInv
  <2>2. /\ Handles(r, t, "launched")' => Handles(r, t, "launched")
        /\ Handles(r, t, "write")' /\ drain'[r].to = "accepted" =>
             Handles(r, t, "write") /\ drain[r].to = "accepted"
    BY WakeKeeps DEF Handles, At, Task, Request
  <2> QED BY <2>1, <2>2, ShownKept DEF TaskOf
<1> QED BY <1>1 DEF ShownInv

LEMMA ShownCommands ==
  ASSUME BaseInv, ShownInv, NEW r \in Runs, Commands(r)
  PROVE  ShownInv'
<1>1. recs \in [Runs -> Record] /\ recs[r] \in Record /\ RecordFits(r, recs[r])
  BY TypeParts DEF BaseInv
<1>2. /\ Wake(r) \/ UNCHANGED drain
      /\ lost' = lost /\ Running' = Running /\ events' = events
  BY DEF Commands, Submit, SetTarget, Finish, Stop, Start, gateVars, hostVars, Running
<1>3. \A q \in Runs : recs'[q].tasks = recs[q].tasks
  BY CommandsKeepTasks
<1> QED BY <1>2, <1>3, ShownWake

\* A completion is recorded, and the gate follows: the task is no longer accepted, and
\* no launch of it is under way.
LEMMA ShownSettles ==
  ASSUME BaseInv, OwnInv, DisjointRuns, ShownInv, NEW e \in events, Settle(e) \/ SyncSettled(e)
  PROVE  ShownInv'
<1>1. PICK q, u : q = e.run /\ u = e.task
  OBVIOUS
<1>2. /\ q \in Runs /\ u \in TasksOf[q] /\ u \in Tasks /\ HostTypes
      /\ e.to \in {"completed", "unknown"} /\ TaskEvents(q, u) = {e}
      /\ NameOf[u] \notin Running
  BY <1>1, EventNow
<1>3. /\ Wake(q) \/ UNCHANGED drain
      /\ lost' = lost /\ Running' = Running
  <2>1. CASE Settle(e)
    BY <1>1, <2>1 DEF Settle, gateVars, Running
  <2>2. CASE SyncSettled(e)
    BY <1>1, <1>2, <2>2
       DEF SyncSettled, Gate!ReleaseTask, Gate!ReserveTask, gateVars, Running
  <2> QED BY <2>1, <2>2
<1>4. CASE SyncSettled(e)
  <2>1. UNCHANGED recs /\ \A f \in events : f.step = "write" => f \in events'
    BY <1>4 DEF SyncSettled
  <2> QED BY <1>2, <1>3, <2>1, ShownWake
<1>5. CASE Settle(e)
  <2>1. /\ \A r \in Runs, t \in Tasks : r # q \/ t # u => recs'[r].tasks[t] = recs[r].tasks[t]
        /\ TaskOf(q, u)'.state # "accepted"
    <3>1. CASE CanTransition(recs[q].tasks[u].state, e.to)
      <4>1. PICK y : y = Moved(recs[q], u, e.to)
        OBVIOUS
      <4>2. /\ recs[q] \in Record /\ RecordFits(q, recs[q]) /\ Present(recs[q], u)
            /\ e.to \in Edges /\ recs \in [Runs -> Record]
        BY <1>2, <3>1, TypeParts
           DEF BaseInv, Present, CanTransition, Transitions, Unfinished, Edges
      <4>3. y.tasks[u].state = e.to /\ \A t \in Tasks \ {u} : y.tasks[t] = recs[q].tasks[t]
        BY <1>2, <4>1, <4>2, MovedFits
      <4>4. recs' = [recs EXCEPT ![q] = y]
        BY <1>1, <1>5, <3>1, <4>1 DEF Settle, Moved
      <4> QED BY <1>2, <4>2, <4>3, <4>4 DEF TaskOf
    <3>2. CASE ~CanTransition(recs[q].tasks[u].state, e.to)
      <4>1. UNCHANGED recs
        BY <1>1, <1>5, <3>2 DEF Settle
      <4>2. TaskOf(q, u).state # "accepted"
        BY <1>2, <3>2 DEF CanTransition, Transitions, Unfinished, TaskOf
      <4> QED BY <4>1, <4>2 DEF TaskOf
    <3> QED BY <3>1, <3>2
  <2>2. \A f \in events : f.step = "write" => f \in events' \/ f = e
    BY <1>1, <1>5 DEF Settle
  <2>3. ASSUME NEW r \in Runs, NEW t \in TasksOf[r], r # q \/ t # u
        PROVE  AcceptedShown(r, t)'
    <3>1. t \in Tasks /\ AcceptedShown(r, t) /\ TaskOf(r, t)'.state = TaskOf(r, t).state
      BY <2>1, <2>3, DrainAssumption DEF ShownInv, TaskOf
    <3>2. /\ Handles(r, t, "launched")' => Handles(r, t, "launched")
          /\ Handles(r, t, "write")' /\ drain'[r].to = "accepted" =>
               Handles(r, t, "write") /\ drain[r].to = "accepted"
      BY <1>2, <1>3, WakeKeeps DEF Handles, At, Task, Request
    <3>3. \A f \in TaskEvents(r, t) : f.step = "write" => f \in TaskEvents(r, t)'
      BY <1>1, <2>2, <2>3 DEF TaskEvents
    <3> QED BY <1>3, <3>1, <3>2, <3>3 DEF AcceptedShown
  <2>4. AcceptedShown(q, u)'
    <3>1. /\ Handles(q, u, "launched")' => Handles(q, u, "launched")
          /\ Handles(q, u, "write")' /\ drain'[q].to = "accepted" =>
               Handles(q, u, "write") /\ drain[q].to = "accepted"
      BY <1>2, <1>3, WakeKeeps DEF Handles, At, Task, Request
    <3>2. AcceptedShown(q, u)
      BY <1>2 DEF ShownInv
    <3> QED BY <1>2, <1>3, <2>1, <3>1, <3>2 DEF AcceptedShown
  <2> QED BY <1>2, <2>3, <2>4 DEF ShownInv
<1> QED BY <1>4, <1>5

\* A child that ends was recorded as accepted, and its end will be; or its launch was
\* still to be recorded, and its end is lost.
LEMMA ShownEnds ==
  ASSUME BaseInv, OwnInv, DisjointRuns, ShownInv, NEW c \in Children,
         NEW to \in Settled, ChildEnds(c, to)
  PROVE  ShownInv'
<1>1. PICK q, u : q = OwnerOf(c)[1] /\ u = OwnerOf(c)[2]
  OBVIOUS
<1>2. /\ HostTypes /\ c \in live /\ c \in Running /\ to \in {"completed", "unknown"}
  BY TypeParts DEF BaseInv, ChildEnds, Running, Settled
<1>3. /\ q \in Runs /\ u \in Tasks /\ recs[q].tasks[u].child = c
  BY <1>1, <1>2, OwnerFacts DEF TaskOf
<1>4. TaskFits(q, u, recs[q].tasks[u])
  BY <1>3 DEF BaseInv, RecordFits
<1>5. u \in TasksOf[q] /\ c = NameOf[u]
  BY <1>3, <1>4, TaskAssumption DEF TaskFits
<1>6. lost \subseteq lost'
  BY <1>1 DEF ChildEnds
<1>7. /\ TaskOf(q, u).state = "launching" => <<q, u>> \in lost'
      /\ Handles(q, u, "launched") \/ (Handles(q, u, "write") /\ drain[q].to = "accepted") =>
           TaskOf(q, u).state = "launching"
  <2>1. Begun(q, u) /\ LaunchFits(q, u)
    BY <1>2, <1>3, <1>5 DEF OwnInv, OwnTask, BegunFits
  <2> QED BY <1>1, <2>1 DEF ChildEnds, TaskOf, LaunchFits, ForEdge
<1>8. /\ UNCHANGED recs /\ events \subseteq events'
      /\ Wake(q) \/ UNCHANGED drain
      /\ \A d \in Children \ {c} : d \in Running => d \in Running'
  BY <1>1, <1>2 DEF ChildEnds, gateVars, Running
<1>9. ASSUME NEW r \in Runs, NEW t \in TasksOf[r]
      PROVE  /\ Handles(r, t, "launched")' => Handles(r, t, "launched")
             /\ Handles(r, t, "write")' /\ drain'[r].to = "accepted" =>
                  Handles(r, t, "write") /\ drain[r].to = "accepted"
  BY <1>3, <1>8, WakeKeeps DEF Handles, At, Task, Request
<1>10. ASSUME NEW r \in Runs, NEW t \in TasksOf[r], r # q \/ t # u
       PROVE  AcceptedShown(r, t)'
  <2>1. t # u /\ t \in Tasks
    BY <1>3, <1>5, <1>10, DrainAssumption DEF DisjointRuns
  <2>2. NameOf[t] \in Children \ {c}
    BY <1>3, <1>5, <2>1, DrainAssumption
  <2>3. AcceptedShown(r, t) /\ TaskOf(r, t)'.state = TaskOf(r, t).state
    BY <1>8 DEF ShownInv, TaskOf
  <2> QED BY <1>6, <1>8, <1>9, <2>1, <2>2, <2>3, ShownKept
<1>11. AcceptedShown(q, u)'
  <2>1. AcceptedShown(q, u) /\ TaskOf(q, u)' = TaskOf(q, u)
    BY <1>3, <1>5, <1>8 DEF ShownInv, TaskOf
  <2>2. ASSUME TaskOf(q, u).state = "accepted"
        PROVE  \E e \in TaskEvents(q, u)' : e.step = "write"
    <3>1. PICK e : e = [run |-> q, task |-> u, to |-> to, step |-> "write"]
      OBVIOUS
    <3>2. CanTransition(recs[q].tasks[u].state, to)
      BY <1>2, <2>2 DEF CanTransition, Transitions, Unfinished, TaskOf
    <3>3. e \in events'
      BY <1>1, <3>1, <3>2 DEF ChildEnds
    <3>4. e.run = q /\ e.task = u /\ e.step = "write"
      BY <3>1
    <3> QED BY <3>3, <3>4 DEF TaskEvents
  <2> QED BY <1>3, <1>5, <1>7, <1>9, <2>1, <2>2 DEF AcceptedShown
<1> QED BY <1>10, <1>11 DEF ShownInv

\* A failed write of the leader's leaves the task as it is and ends the pass.
LEMMA ShownFaults ==
  ASSUME BaseInv, ShownInv, NEW r \in Runs, Faults(r)
  PROVE  ShownInv'
<1>1. /\ UNCHANGED <<recs, events, lost>> /\ Running' = Running
      /\ drain' = [drain EXCEPT ![r] = Idle]
  BY DEF Faults, PersistFails, DiskFails, Abandon, Gate!ReleaseTask, gateVars, Running
<1>2. drain \in [Runs -> Leader]
  BY TypeParts DEF BaseInv
<1>3. ASSUME NEW q \in Runs, NEW t \in TasksOf[q]
      PROVE  AcceptedShown(q, t)'
  <2>1. t \in Tasks /\ AcceptedShown(q, t) /\ TaskOf(q, t)'.state = TaskOf(q, t).state
    BY <1>1, DrainAssumption DEF ShownInv, TaskOf
  <2>2. /\ Handles(q, t, "launched")' => Handles(q, t, "launched")
        /\ Handles(q, t, "write")' /\ drain'[q].to = "accepted" =>
             Handles(q, t, "write") /\ drain[q].to = "accepted"
    <3>1. CASE q = r
      BY <1>1, <1>2, <3>1 DEF Handles, At, Idle
    <3>2. CASE q # r
      BY <1>1, <1>2, <3>2 DEF Handles, At, Task, Request
    <3> QED BY <3>1, <3>2
  <2> QED BY <1>1, <2>1, <2>2, ShownKept
<1> QED BY <1>3 DEF ShownInv

\* The write that would have recorded an end fails: the end is lost.
LEMMA ShownSettleFails ==
  ASSUME BaseInv, OwnInv, ShownInv, DisjointRuns, NEW e \in events, SettleFails(e)
  PROVE  ShownInv'
<1>1. PICK q, u : q = e.run /\ u = e.task
  OBVIOUS
<1>2. q \in Runs /\ u \in Tasks /\ Wake(q) /\ UNCHANGED recs /\ Running' = Running
  BY <1>1, TypeParts, EventTypes DEF BaseInv, SettleFails, gateVars, Running
<1>3. events' = events \ {e} /\ lost' = lost \cup {<<q, u>>}
  BY <1>1 DEF SettleFails
<1>4. ASSUME NEW r \in Runs, NEW t \in TasksOf[r]
      PROVE  AcceptedShown(r, t)'
  <2>1. t \in Tasks /\ AcceptedShown(r, t) /\ TaskOf(r, t)' = TaskOf(r, t)
    BY <1>2, DrainAssumption DEF ShownInv, TaskOf
  <2>2. /\ Handles(r, t, "launched")' => Handles(r, t, "launched")
        /\ Handles(r, t, "write")' /\ drain'[r].to = "accepted" =>
             Handles(r, t, "write") /\ drain[r].to = "accepted"
    BY <1>2, WakeKeeps DEF Handles, At, Task, Request
  <2>3. ASSUME <<r, t>> # <<q, u>>, NEW f \in TaskEvents(r, t)
        PROVE  f \in TaskEvents(r, t)'
    BY <1>1, <1>3, <2>3 DEF TaskEvents
  <2> QED BY <1>2, <1>3, <2>1, <2>2, <2>3 DEF AcceptedShown
<1> QED BY <1>4 DEF ShownInv

\* A restart loses the ends of all that ran, and of all that was being recorded.
LEMMA ShownCrash ==
  ASSUME BaseInv, OwnInv, ShownInv, Crash
  PROVE  ShownInv'
<1>1. \A r \in Runs : ~At(r, "launched")' /\ ~At(r, "write")'
  <2>1. \A r \in Runs : drain'[r].pc = "idle"
    BY WokenFits DEF Crash, Idle, Woken
  <2> QED BY <2>1 DEF At
<1>2. UNCHANGED recs /\ lost' = lost \cup begun \cup {<<e.run, e.task>> : e \in events}
  BY DEF Crash
<1>3. ASSUME NEW r \in Runs, NEW t \in TasksOf[r], TaskOf(r, t)'.state = "accepted"
      PROVE  <<r, t>> \in lost'
  <2>1. t \in Tasks /\ AcceptedShown(r, t) /\ TaskOf(r, t).state = "accepted"
    BY <1>2, <1>3, DrainAssumption DEF ShownInv, TaskOf
  <2>2. NameOf[t] \in Running => <<r, t>> \in begun
    BY <2>1, <1>3 DEF OwnInv, OwnTask, BegunFits, Begun
  <2>3. \A e \in TaskEvents(r, t) : <<r, t>> \in {<<f.run, f.task>> : f \in events}
    BY DEF TaskEvents
  <2> QED BY <1>2, <2>1, <2>2, <2>3 DEF AcceptedShown
<1> QED BY <1>1, <1>3 DEF ShownInv, AcceptedShown, Handles

LEMMA StepShown ==
  ASSUME BaseInv, OwnInv, DisjointRuns, ShownInv, [Next]_vars
  PROVE  ShownInv'
<1>1. ASSUME NEW r \in Runs, Pass(r) \/ Faults(r) \/ Commands(r)
      PROVE  ShownInv'
  BY <1>1, ShownPass, ShownFaults, ShownCommands
<1>2. ASSUME NEW e \in events, SettleFails(e) \/ Settle(e) \/ SyncSettled(e)
      PROVE  ShownInv'
  BY <1>2, ShownSettleFails, ShownSettles
<1>3. ASSUME NEW c \in Children, Dispose(c)
      PROVE  ShownInv'
  <2>1. /\ UNCHANGED <<recs, drain, events, lost>> /\ Running' = Running
        /\ HostTypes /\ c \in live
    BY <1>3, TypeParts DEF BaseInv, HostTypes, Dispose, Gate!ReleaseChild, Running
  <2>2. PICK r \in Runs : TRUE
    BY <2>1 DEF BaseInv, LiveOwned
  <2> QED BY <2>1, <2>2, ShownWake
<1>4. CASE UNCHANGED vars
  BY <1>4 DEF vars, ShownInv, AcceptedShown, TaskOf, TaskEvents, Running, Handles, At, Task,
     Request
<1> QED BY <1>1, <1>2, <1>3, <1>4, ShownEnds, ShownCrash DEF Next, Observer

\* A task shown as accepted, in a run at rest, has a child that still runs, unless its end
\* was lost: it came while the launch was still to be recorded, the write that would have
\* recorded it failed, or the process died first (completion.ts reconcileCompletedTask).
\* Early ends, failed writes and restarts included, where no two roots submit the same
\* task.
THEOREM AcceptedMeansRunning ==
  ASSUME DisjointRuns
  PROVE  Spec => []EndsAreRecorded
<1>1. Init => ShownInv
  <2> SUFFICES ASSUME Init, NEW r \in Runs, NEW t \in TasksOf[r]
               PROVE  AcceptedShown(r, t)
    BY DEF ShownInv
  <2>1. t \in Tasks
    BY DrainAssumption
  <2>2. PICK target : recs[r] = InitialRecord(target)
    BY DEF Init
  <2> QED BY <2>1, <2>2 DEF Init, AcceptedShown, Handles, At, Idle, TaskOf, InitialRecord, Absent
<1>2. BaseInv /\ OwnInv /\ ShownInv /\ [Next]_vars => ShownInv'
  BY StepShown
<1>3. ASSUME BaseInv, ShownInv PROVE EndsAreRecorded
  <2> SUFFICES ASSUME NEW r \in Runs, AtRest(r), NEW t \in Tasks,
                      TaskOf(r, t).state = "accepted"
               PROVE  TaskOf(r, t).child \in Running \/ <<r, t>> \in lost
    BY DEF EndsAreRecorded
  <2>1. t \in TasksOf[r] /\ TaskOf(r, t).child = NameOf[t]
    BY <1>3, KnownTask DEF Present, TaskOf
  <2>2. TaskEvents(r, t) = {}
    BY DEF AtRest, TaskEvents
  <2> QED BY <1>3, <2>1, <2>2 DEF ShownInv, AcceptedShown
<1> QED BY <1>1, <1>2, <1>3, OwnCorrect, BaseCorrect, PTL DEF Spec
=============================================================================
