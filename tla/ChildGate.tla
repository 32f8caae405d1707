------------------------------ MODULE ChildGate ------------------------------
(***************************************************************************)
(* The host-wide child admission gate (capacity.ts): a process-local       *)
(* ledger of the children that exist and of the tasks that hold a place    *)
(* for one. A task's place is folded into its child once that child is     *)
(* live, so an executor is counted once.                                   *)
(***************************************************************************)
EXTENDS Naturals, FiniteSets

CONSTANTS Tasks, Children,
          NoChild,   \* an entry made without naming a child
          Free,      \* no entry for the task
          Capacity,  \* the deployment's hard child capacity
          NameOf     \* the child id a caller reserves for a task

ASSUME GateAssumption ==
  /\ IsFiniteSet(Tasks) /\ IsFiniteSet(Children)
  /\ Capacity \in Nat \ {0}
  /\ NoChild \notin Children /\ Free \notin Children \cup {NoChild}

\* The default name, child-<taskId>, gives each task a child of its own.
ASSUME OwnChild == /\ NameOf \in [Tasks -> Children]
                   /\ \A t, u \in Tasks : NameOf[t] = NameOf[u] => t = u

VARIABLES live,   \* children between agent/created and agent/disposed
          slots   \* the child each task's entry names

vars == <<live, slots>>

Init == live = {} /\ slots = [t \in Tasks |-> Free]

Entered == {t \in Tasks : slots[t] # Free}
Unbacked == {t \in Entered : slots[t] \notin live}
Occupied == Cardinality(live) + Cardinality(Unbacked)
\* Mutant: one place too many.
HasRoomForOneMore == Occupied <= Capacity
HasRoom == Occupied < Capacity

\* Mutant: a task's place is not checked against the room left.
TaskFitsAlways(t) == TRUE
TaskFits(t) == slots[t] # Free \/ HasRoom
Reserved(c) == \E t \in Entered : slots[t] = c
ChildFits(c) == c \in live \/ Reserved(c) \/ HasRoom

\* An entry is made once; a later call only fills in the child's name.
ReserveTask(t, c) ==
  /\ TaskFits(t)
  /\ slots' = [slots EXCEPT ![t] = IF @ # Free /\ c = NoChild THEN @ ELSE c]
  /\ UNCHANGED live

ReleaseTask(t) == slots' = [slots EXCEPT ![t] = Free] /\ UNCHANGED live

\* agent/created and agent/disposed.
ReserveChild(c) == ChildFits(c) /\ live' = live \cup {c} /\ UNCHANGED slots
ReleaseChild(c) == live' = live \ {c} /\ UNCHANGED slots

Next == \/ \E t \in Tasks : \/ ReserveTask(t, NameOf[t]) \/ ReserveTask(t, NoChild)
                            \/ ReleaseTask(t)
        \/ \E c \in Children : ReserveChild(c) \/ ReleaseChild(c)

Spec == Init /\ [][Next]_vars

------------------------------------------------------------------------------

\* The ledger holds children, and entries that name a task's own child or none.
TypeOK == /\ live \subseteq Children
          /\ slots \in [Tasks -> Children \cup {NoChild, Free}]
          /\ \A t \in Tasks : slots[t] \in {NameOf[t], NoChild, Free}

\* The host never counts more executors than its hard capacity, in whatever order
\* reservations are made, children appear unasked or under a reservation, die, and
\* places are given back: materializing a reserved child is exempt from the room
\* check, and losing a live child turns its task's entry back into a reservation
\* (capacity.ts classify, reserveChild, reserveTask).
OccupiedWithinCapacity == Occupied <= Capacity
=============================================================================
