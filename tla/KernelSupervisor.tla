--------------------------- MODULE KernelSupervisor ---------------------------
(***************************************************************************)
(* One kernel slot of the supervisor: the bounded queue of its cells, the  *)
(* cell that runs, the timers that stop it, and the replacement of its     *)
(* process. A handler of the supervisor chains its calls without a pause   *)
(* (settle, finish, drain), so the slot is one record and a call maps it   *)
(* to the set of records it may leave. The transport is external: it       *)
(* starts, interrupts and replaces the process, and settles a cell when it *)
(* likes.                                                                  *)
(***************************************************************************)
EXTENDS Naturals, SequencesExt

CONSTANTS Cells, None,
          MaxPendingCells,
          CanSpill,        \* may a cell's output exceed what is kept?
          Parkable,        \* the states in which an owner parks a kernel
          Kinds,           \* the commands an owner gives
          Eager,           \* may a cell be asked for while register still waits?
          EarlyCommands,   \* may an owner command a kernel whose register still waits?
          MaxCommands,     \* bound on the owner's commands
          MaxFailures      \* bound on failed starts, replacements and spills

ASSUME SupervisorAssumption ==
  /\ None \notin Cells /\ MaxPendingCells \in Nat \ {0} /\ MaxCommands \in Nat /\ MaxFailures \in Nat
  /\ CanSpill \in BOOLEAN /\ Eager \in BOOLEAN /\ EarlyCommands \in BOOLEAN

VARIABLES slot,      \* the KernelEntry
          command,   \* the reset or the change of domain under way
          closing,   \* how far a close of the slot is
          sweep,     \* reclaimParkedMemory: what it does to this slot, and the epoch it captured
          commands, failures

vars == <<slot, command, closing, sweep, commands, failures>>

\* finishing: settled, its result not yet resolved. lost: the spill failed under it.
Phases == {"new", "refused", "pending", "running", "finishing", "answered", "lost"}

\* A cell as the supervisor and the transport hold it: process is the one it was
\* handed to, owed whether its settlement is still to come from there, previous
\* the epoch captured by the escalation that gave it up. crossed is history, read by
\* RestartIsTold alone: was a replacement under way when the cell was handed over?
Cell == [phase : Phases, process : Nat, owed : BOOLEAN, startEpoch : Nat,
         grace : {"none", "armed", "fired"}, previous : Nat, told : BOOLEAN, crossed : BOOLEAN]
NewCell == [phase |-> "new", process |-> 0, owed |-> FALSE, startEpoch |-> 0,
            grace |-> "none", previous |-> 0, told |-> FALSE, crossed |-> FALSE]

States == {"starting", "idle", "busy", "parked", "wedged", "closed"}
Slot == [registered : BOOLEAN, starting : BOOLEAN, state : States, pending : Seq(Cells),
         active : Cells \cup {None}, epoch : Nat, process : Nat, cells : [Cells -> Cell]]

NoCommand == [kind |-> None, stage |-> "none", target |-> None, previous |-> 0]
NoSweep == [stage |-> "none", previous |-> 0]

Init ==
  /\ slot = [registered |-> TRUE, starting |-> TRUE, state |-> "starting", pending |-> <<>>,
             active |-> None, epoch |-> 1, process |-> 1, cells |-> [c \in Cells |-> NewCell]]
  /\ command = NoCommand /\ closing = "no" /\ sweep = NoSweep
  /\ commands = 0 /\ failures = 0

------------------------------------------------------------------------------
(* What the handlers make of the slot. *)

\* Some replacement has captured the epoch that it will write back plus one.
Replacing == command.stage = "restarting"
UnderWay(k) == Replacing \/ sweep.stage = "evicting" \/ \E d \in Cells : k.cells[d].previous # 0

\* The transport refuses the first n of the queue and is handed the next.
HandedOver(k, n) ==
  LET refused == ToSet(SubSeq(k.pending, 1, n))
      failed == [c \in Cells |-> IF c \in refused
                   THEN [k.cells[c] EXCEPT !.phase = "answered"]
                   ELSE k.cells[c]]
      rest == SubSeq(k.pending, n + 1, Len(k.pending))
  IN IF rest = <<>> THEN [k EXCEPT !.pending = rest, !.cells = failed]
     ELSE [k EXCEPT !.pending = Tail(rest), !.state = "busy", !.active = Head(rest),
                    !.cells = [failed EXCEPT ![Head(rest)].phase = "running",
                                             ![Head(rest)].process = k.process,
                                             ![Head(rest)].owed = TRUE,
                                             ![Head(rest)].startEpoch = k.epoch,
                                             ![Head(rest)].crossed = UnderWay(k)]]

\* drain
Drained(k) ==
  IF k.registered /\ k.active = None /\ k.state = "idle"
  THEN {HandedOver(k, n) : n \in 0..Len(k.pending)} ELSE {k}

\* Mutant: the queue waits for the next call.
FinishedIdle(k, c) == {[k EXCEPT !.cells[c].phase = "answered",
                                 !.cells[c].told = k.epoch # k.cells[c].startEpoch]}

\* finishCell, once the spill is written or there is none.
Finished(k, c) ==
  Drained([k EXCEPT !.cells[c].phase = "answered",
                    !.cells[c].told = k.epoch # k.cells[c].startEpoch])

\* settle, up to the write of the spill.
Freed(k, c) ==
  [k EXCEPT !.active = IF @ = c THEN None ELSE @,
            !.state = IF @ \in {"wedged", "closed"} THEN @ ELSE "idle",
            !.cells[c].phase = "finishing", !.cells[c].grace = "none"]

\* settle. Only the first settlement of a cell counts.
SettledSlot(k, c) ==
  IF k.cells[c].phase # "running" THEN {k}
  ELSE Finished(Freed(k, c), c) \cup IF CanSpill THEN {Freed(k, c)} ELSE {}

Replaced(k, previous) == [k EXCEPT !.process = @ + 1, !.epoch = previous + 1]

------------------------------------------------------------------------------
(* Running cells. *)

Failure == failures < MaxFailures /\ failures' = failures + 1

\* register resolves, and drains nothing; or throws, and the slot stays as it is.
Started ==
  /\ slot.starting
  /\ \/ slot' = [slot EXCEPT !.starting = FALSE, !.state = "idle"] /\ UNCHANGED failures
     \/ slot' = [slot EXCEPT !.starting = FALSE] /\ Failure
  /\ UNCHANGED <<command, closing, sweep, commands>>

\* Mutant: one more than the bound.
QueueOverfull(k) == (k.active # None \/ k.pending # <<>>) /\ Len(k.pending) > MaxPendingCells

QueueFull(k) == (k.active # None \/ k.pending # <<>>) /\ Len(k.pending) >= MaxPendingCells

RunCell(c) ==
  /\ slot.registered /\ slot.cells[c].phase = "new" /\ (Eager \/ ~slot.starting)
  /\ IF slot.state \in {"closed", "parked", "wedged"} \/ QueueFull(slot)
     THEN slot' = [slot EXCEPT !.cells[c].phase = "refused"]
     ELSE LET queued == [slot EXCEPT !.pending = Append(@, c), !.cells[c].phase = "pending"]
          IN slot' \in IF slot.active = None THEN Drained(queued) ELSE {queued}
  /\ UNCHANGED <<command, closing, sweep, commands, failures>>

\* handle.settlement resolves or rejects; whatever it says, the cell is settled.
TransportSettles(c) ==
  /\ slot.cells[c].owed
  /\ slot' \in SettledSlot([slot EXCEPT !.cells[c].owed = FALSE], c)
  /\ UNCHANGED <<command, closing, sweep, commands, failures>>

SpillWritten(c) ==
  /\ slot.cells[c].phase = "finishing"
  /\ slot' \in Finished(slot, c)
  /\ UNCHANGED <<command, closing, sweep, commands, failures>>

\* The rejection of the spill's write leaves the caller without a result.
SpillFails(c) ==
  /\ slot.cells[c].phase = "finishing" /\ Failure
  /\ slot' = [slot EXCEPT !.cells[c].phase = "lost"]
  /\ UNCHANGED <<command, closing, sweep, commands>>

------------------------------------------------------------------------------
(* Stopping a cell: the interrupt, its grace, and the new process. *)

Interrupted(k, c) ==
  IF k.cells[c].grace = "none" THEN [k EXCEPT !.cells[c].grace = "armed"] ELSE k

\* The caller cancels, or the wall-clock bound expires.
Stop(c) ==
  /\ slot.registered /\ slot.active = c /\ slot.cells[c].grace = "none"
  /\ slot' = Interrupted(slot, c)
  /\ UNCHANGED <<command, closing, sweep, commands, failures>>

Escalating(c) == slot.cells[c].previous # 0

\* armGrace's timer and escalateToProcessIsolation, up to transport.restart().
GraceExpires(c) ==
  /\ slot.registered /\ slot.active = c /\ slot.cells[c].grace = "armed"
  /\ slot' = [slot EXCEPT !.state = "wedged", !.cells[c].grace = "fired",
                          !.cells[c].previous = slot.epoch]
  /\ UNCHANGED <<command, closing, sweep, commands, failures>>

\* Mutant: the process is kept and the cell is only declared unknown.
GivenUpInPlace(k, c, ok) ==
  UNION {Drained([s EXCEPT !.state = "idle"]) :
           s \in SettledSlot([k EXCEPT !.cells[c].previous = 0], c)}

\* Mutant: the cell is settled before the epoch advances.
GivenUpEarly(k, c, ok) ==
  LET begun == [k EXCEPT !.cells[c].previous = 0]
  IN UNION {Drained([(IF ok THEN Replaced(s, k.cells[c].previous) ELSE s)
                       EXCEPT !.state = IF ok THEN "idle" ELSE "wedged"]) :
              s \in SettledSlot(begun, c)}

\* The rest of escalateToProcessIsolation, after a restart that took or did not.
GivenUp(k, c, ok) ==
  LET next == IF ok THEN "idle" ELSE "wedged"
      begun == [k EXCEPT !.cells[c].previous = 0]
      renewed == IF ok THEN Replaced(begun, k.cells[c].previous) ELSE begun
  IN UNION {Drained([s EXCEPT !.state = next]) : s \in SettledSlot(renewed, c)}

Escalated(c) ==
  /\ Escalating(c)
  /\ \/ slot' \in GivenUp(slot, c, TRUE) /\ UNCHANGED failures
     \/ slot' \in GivenUp(slot, c, FALSE) /\ Failure
  /\ UNCHANGED <<command, closing, sweep, commands>>

------------------------------------------------------------------------------
(* What the slot's owner does. *)

Command ==
  /\ EarlyCommands \/ ~slot.starting
  /\ commands < MaxCommands /\ commands' = commands + 1

\* reset and changeReadPermissionDomain, up to the wait for the cell.
BeginReplace(kind) ==
  LET wedged == [slot EXCEPT !.state = "wedged"]
      target == slot.active
  IN /\ kind \in Kinds /\ slot.registered /\ command = NoCommand /\ Command
     /\ command' = [kind |-> kind, stage |-> "stopping", target |-> target, previous |-> 0]
     /\ slot' = IF target = None THEN wedged ELSE Interrupted(wedged, target)
     /\ UNCHANGED <<closing, sweep, failures>>

\* The wait ended: the cell settled, or a second after its grace; the restart of its
\* escalation may still be under way. The epoch is read here.
Replace ==
  /\ command.stage = "stopping"
  /\ slot.active = command.target /\ slot.active # None
       => slot.cells[command.target].grace = "fired"
  /\ command' = [command EXCEPT !.stage = "restarting", !.previous = slot.epoch]
  /\ UNCHANGED <<slot, closing, sweep, commands, failures>>

\* Nothing drains the queue here.
ReplaceEnds ==
  /\ Replacing
  /\ slot' = [Replaced(slot, command.previous) EXCEPT !.state = "idle"]
  /\ command' = NoCommand
  /\ UNCHANGED <<closing, sweep, commands, failures>>

\* A reset throws and leaves the slot as it is.
ReplaceFails ==
  /\ Replacing /\ Failure
  /\ slot' = IF command.kind = "reset" THEN slot
             ELSE [slot EXCEPT !.epoch = command.previous + 1, !.state = "wedged"]
  /\ command' = NoCommand
  /\ UNCHANGED <<closing, sweep, commands>>

Park ==
  /\ slot.registered /\ slot.state \in Parkable \ {"busy"} /\ Command
  /\ slot' = [slot EXCEPT !.state = "parked"]
  /\ UNCHANGED <<command, closing, sweep, failures>>

Rebind ==
  /\ slot.registered /\ slot.state = "parked"
  /\ slot' = [slot EXCEPT !.state = "idle"]
  /\ UNCHANGED <<command, closing, sweep, commands, failures>>

BeginClose ==
  /\ slot.registered /\ closing = "no" /\ Command
  /\ closing' = "closing" /\ slot' = [slot EXCEPT !.state = "closed"]
  /\ UNCHANGED <<command, sweep, failures>>

\* The process is gone, and no other takes its number.
Shut(k) == [k EXCEPT !.registered = FALSE, !.process = @ + 1]

\* The shutdown of close is over, or throws and leaves the slot closed.
EndClose ==
  /\ closing = "closing"
  /\ \/ slot' = Shut(slot) /\ closing' = "closed" /\ UNCHANGED failures
     \/ UNCHANGED slot /\ closing' = "no" /\ Failure
  /\ UNCHANGED <<command, sweep, commands>>

\* reclaimParkedMemory lists the parked slots once, evicts them one by one and captures
\* the epoch of each when its turn comes, whatever became of it; or stops before.
Listed ==
  /\ slot.registered /\ slot.state = "parked" /\ sweep = NoSweep
  /\ sweep' = [stage |-> "listed", previous |-> 0]
  /\ UNCHANGED <<slot, command, closing, commands, failures>>

BeginEviction ==
  /\ sweep.stage = "listed"
  /\ \/ sweep' = [stage |-> "evicting", previous |-> slot.epoch]
     \/ sweep' = NoSweep
  /\ UNCHANGED <<slot, command, closing, commands, failures>>

EndEviction ==
  /\ sweep.stage = "evicting" /\ sweep' = NoSweep
  /\ \/ slot' = [Shut(slot) EXCEPT !.state = "closed", !.epoch = sweep.previous + 1]
        /\ UNCHANGED failures
     \/ UNCHANGED slot /\ Failure
  /\ UNCHANGED <<command, closing, commands>>

------------------------------------------------------------------------------

CellStep(c) == \/ RunCell(c) \/ TransportSettles(c) \/ SpillWritten(c) \/ SpillFails(c)
               \/ Stop(c) \/ GraceExpires(c) \/ Escalated(c)

Owner == \/ \E kind \in Kinds : BeginReplace(kind)
         \/ Replace \/ ReplaceEnds \/ ReplaceFails
         \/ Park \/ Rebind \/ BeginClose \/ EndClose
         \/ Listed \/ BeginEviction \/ EndEviction

Next == Started \/ (\E c \in Cells : CellStep(c)) \/ Owner

Spec == Init /\ [][Next]_vars

\* Timers fire, and the transport's start, restart and spill answer. A cell itself
\* may run for ever, and an owner may do nothing.
Fairness ==
  /\ WF_vars(Started)
  /\ \A c \in Cells : /\ WF_vars(Stop(c)) /\ WF_vars(GraceExpires(c)) /\ WF_vars(Escalated(c))
                      /\ WF_vars(SpillWritten(c) \/ SpillFails(c))
  /\ WF_vars(Replace) /\ WF_vars(ReplaceEnds \/ ReplaceFails)

FairSpec == Spec /\ Fairness

------------------------------------------------------------------------------

\* The variables range over their types, and the queue keeps its bound.
TypeOK ==
  /\ slot \in Slot /\ Len(slot.pending) <= MaxPendingCells
  /\ command \in [kind : Kinds \cup {None}, stage : {"none", "stopping", "restarting"},
                  target : Cells \cup {None}, previous : Nat]
  /\ closing \in {"no", "closing", "closed"}
  /\ sweep \in [stage : {"none", "listed", "evicting"}, previous : Nat]
  /\ commands \in 0..MaxCommands /\ failures \in 0..MaxFailures

\* One process runs one cell at a time, as long as nobody parks a wedged kernel: a
\* cell that was given up without an answer shares its process with no later one.
InProcess(c) == slot.cells[c].owed /\ slot.cells[c].process = slot.process
SerialInProcess == \A c, d \in Cells : InProcess(c) /\ InProcess(d) => c = d

\* A caller told that the kernel was not restarted still has the process its cell
\* ran in, variables and all, unless the kernel was closed under it. The epoch is read
\* before an await and written after it, so the promise is to the cells that were not
\* handed over between the two.
Answers(c) == slot.cells[c].phase # "answered" /\ slot'.cells[c].phase = "answered"
ToldOfRestart(c) ==
  Answers(c) /\ slot'.cells[c].process # 0 /\ ~slot'.cells[c].told
    => slot'.cells[c].process = slot'.process \/ closing' = "closed"
RestartIsTold == [][\A c \in Cells : slot.cells[c].crossed \/ ToldOfRestart(c)]_vars

Running(c) == slot.cells[c].phase = "running"
Answered(c) == slot.cells[c].phase = "answered"
SpillLost(c) == slot.cells[c].phase = "lost"

\* A cell that never comes to an end is answered all the same, whatever the owner does
\* meanwhile, unless the slot is dropped under it or the write of its spill is refused:
\* then its caller has no answer. A cell queued behind another gets its turn, unless
\* the owner intervened, or a start, a replacement or a spill failed.
Undisturbed == commands = 0 /\ failures = 0
EveryCellAnswered ==
  \A c \in Cells :
    /\ Running(c) ~> Answered(c) \/ SpillLost(c) \/ ~slot.registered
    /\ slot.cells[c].phase = "pending" /\ slot.active # None ~> Answered(c) \/ ~Undisturbed

\* What kernelRestarted promises, with no cell excepted.
EveryRestartIsTold == [][\A c \in Cells : ToldOfRestart(c)]_vars

\* What runCell promises: it always resolves.
PromiseResolves == \A c \in Cells : slot.cells[c].phase = "pending" ~> Answered(c)
=============================================================================
