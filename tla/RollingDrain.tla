---------------------------- MODULE RollingDrain -----------------------------
(***************************************************************************)
(* Rolling admission, as it runs: the root submits tasks to a run's ready  *)
(* table, one drain leader per run admits and launches them, children end  *)
(* whenever they do, and the completion observer frees their slots and     *)
(* wakes the leader again. Each action is what happens between two awaits; *)
(* every durable write is one turn of the domain's write chain, which all  *)
(* runs share with each other, as they share the host's gate and its       *)
(* launch port.                                                            *)
(***************************************************************************)
EXTENDS RunRecord

CONSTANTS Runs, NoRun, Free,
          HostCapacity,  \* the gate's hard capacity
          NameOf,        \* child-<taskId>
          TasksOf,       \* the task ids each run's root submits
          Targets,       \* targets a human may authorize or set
          Cost,          \* what the tool's submit reserves (1)
          EndsEarly,     \* may a child end before its launch is recorded?
          UncleanEnds,   \* may a child end with a stop reason other than completed?
          MaxWakes,      \* bound on the wakes kept apart; each repeats one sweep
          MaxFaults,     \* bound on failed durable writes
          MaxCrashes     \* bound on host restarts

\* The gate's capacity is at least one child; child-<taskId> is a name of its own for
\* each task; every reservation is of at least one unit.
ASSUME DrainAssumption ==
  /\ HostCapacity \in Nat \ {0} /\ IsFiniteSet(Children)
  /\ Free \notin Children \cup {NoChild}
  /\ TasksOf \in [Runs -> SUBSET Tasks] /\ NameOf \in [Tasks -> Children]
  /\ \A t, u \in Tasks : NameOf[t] = NameOf[u] => t = u
  /\ Cost \in Costs \ {0} /\ Targets \subseteq Nat /\ NoRun \notin Runs
  /\ MaxWakes \in Nat \ {0} /\ MaxFaults \in Nat /\ MaxCrashes \in Nat
  /\ EndsEarly \in BOOLEAN /\ UncleanEnds \in BOOLEAN

VARIABLES
  recs,     \* durable: each run's record
  live,     \* the gate: children that exist
  slots,    \* the gate: the child each task's entry names
  port,     \* is a launch port installed?
  chain,    \* the run whose admission write is under way
  drain,    \* each run's drain leader
  ended,    \* live children whose activation is over
  events,   \* completions between two awaits of the observer
  faults, crashes,
  begun,    \* history: <<run, task>> launched with no end reported since
  lost      \* history: those whose end nobody records, too early or its write lost

vars == <<recs, live, slots, port, chain, drain, ended, events, faults, crashes, begun, lost>>

Gate == INSTANCE ChildGate WITH Capacity <- HostCapacity

Idle == [pc |-> "idle", pending |-> 0, batch |-> 0, queue |-> <<>>, to |-> "prepared"]

Init ==
  /\ recs \in [Runs -> {InitialRecord(target) : target \in Targets}]
  /\ live = {} /\ slots = [t \in Tasks |-> Free]
  /\ port = TRUE /\ chain = NoRun
  /\ drain = [r \in Runs |-> Idle]
  /\ ended = {} /\ events = {}
  /\ faults = 0 /\ crashes = 0 /\ begun = {} /\ lost = {}

------------------------------------------------------------------------------
(* The leader's place in its pass. *)

At(r, pc) == drain[r].pc = pc
Request(r) == Head(drain[r].queue)
Task(r) == Request(r).task

Goto(r, pc) == drain' = [drain EXCEPT ![r].pc = pc]
GotoWrite(r, to) == drain' = [drain EXCEPT ![r].pc = "write", ![r].to = to]
NextRow(r) == drain' = [drain EXCEPT ![r].pc = "row", ![r].queue = Tail(@)]
SkipRows(r) == drain' = [drain EXCEPT ![r].pc = "entry", ![r].queue = <<>>]

\* An error escapes the pass: every caller waiting on the leader is rejected.
Abandon(r) == drain' = [drain EXCEPT ![r] = Idle]

Woken(d) == [d EXCEPT !.pending = Least(@ + 1, MaxWakes)]
Wake(r) == drain' = [drain EXCEPT ![r] = Woken(@)]

\* Mutant: the admission is decided outside the update that writes it.
ChainUnserialized == TRUE

\* The chain runs one write at a time. The next update's function may run before
\* the continuation of the write ahead of it has resynchronized the gate, but its
\* write becomes durable only afterwards.
ChainFree == chain = NoRun
Resynced == (\A r \in Runs : ~At(r, "sync")) /\ (\A e \in events : e.step # "sync")
MayWrite == ChainFree /\ Resynced

gateVars == <<live, slots>>
hostVars == <<port, ended, events, faults, crashes, begun, lost>>

------------------------------------------------------------------------------
(* runDrainLeader and runDrainPass. *)

TakeBatch(r) ==
  /\ At(r, "idle") /\ drain[r].pending > 0
  /\ drain' = [drain EXCEPT ![r].pc = "entry", ![r].batch = drain[r].pending,
                            ![r].pending = 0]
  /\ UNCHANGED <<recs, chain, gateVars, hostVars>>

\* One waiting caller: the ready table is read now, oldest row first. Without a
\* port the table is left as it is.
NextEntry(r) ==
  /\ At(r, "entry") /\ drain[r].batch > 0
  /\ drain' = [drain EXCEPT ![r].batch = @ - 1,
                            ![r].pc = IF port THEN "row" ELSE "entry",
                            ![r].queue = IF port THEN recs[r].ready ELSE <<>>]
  /\ UNCHANGED <<recs, chain, gateVars, hostVars>>

EndPass(r) ==
  /\ At(r, "entry") /\ drain[r].batch = 0
  /\ Goto(r, "idle")
  /\ UNCHANGED <<recs, chain, gateVars, hostVars>>

\* The head of the request loop, up to the reservation's update being queued.
NextRequest(r) ==
  /\ At(r, "row")
  /\ CASE drain[r].queue = <<>> -> SkipRows(r)
       [] drain[r].queue # <<>> /\ ~Gate!HasRoom -> NextRow(r)
       [] drain[r].queue # <<>> /\ Gate!HasRoom -> Goto(r, "reserve")
  /\ UNCHANGED <<recs, chain, gateVars, hostVars>>

\* tryReserveAdmission's update, when its turn of the chain comes.
Objection(r) ==
  LET refusal == Refusal(recs[r], Task(r), Request(r).cost)
  IN IF refusal = "admit" /\ ~Gate!TaskFits(Task(r)) THEN "host_capacity_reached" ELSE refusal

\* Mutant: a row that cannot be admitted now is dropped.
RefuseForGood(r) ==
  /\ At(r, "reserve") /\ ChainFree /\ Objection(r) # "admit"
  /\ Goto(r, "drop")
  /\ UNCHANGED <<recs, chain, gateVars, hostVars>>

Refuse(r) ==
  /\ At(r, "reserve") /\ ChainFree /\ Objection(r) # "admit"
  /\ IF Objection(r) = "slots_held_by_unconfirmed" THEN Goto(r, "drop") ELSE SkipRows(r)
  /\ UNCHANGED <<recs, chain, gateVars, hostVars>>

\* The host slot is taken inside the update, before the write is durable.
TakeSlot(r) ==
  /\ At(r, "reserve") /\ ChainFree /\ Objection(r) = "admit"
  /\ Gate!ReserveTask(Task(r), Request(r).child)
  /\ chain' = r
  /\ Goto(r, "admitting")
  /\ UNCHANGED <<recs, hostVars>>

Persist(r) ==
  /\ At(r, "admitting") /\ Resynced
  /\ recs' = [recs EXCEPT ![r] = Admitted(@, Task(r), Request(r).child, Request(r).cost)]
  /\ chain' = NoRun
  /\ Goto(r, "retire")
  /\ UNCHANGED <<gateVars, hostVars>>

PersistFails(r) ==
  /\ At(r, "admitting") /\ Resynced /\ faults < MaxFaults
  /\ Gate!ReleaseTask(Task(r))
  /\ chain' = NoRun /\ faults' = faults + 1
  /\ Abandon(r)
  /\ UNCHANGED <<recs, port, ended, events, crashes, begun, lost>>

\* clearReadyAssignment, for a stale row and for an admitted one.
Drop(r) ==
  /\ At(r, "drop") /\ MayWrite
  /\ recs' = [recs EXCEPT ![r] = WithoutRow(@, Task(r))]
  /\ NextRow(r)
  /\ UNCHANGED <<chain, gateVars, hostVars>>

Retire(r) ==
  /\ At(r, "retire") /\ MayWrite
  /\ recs' = [recs EXCEPT ![r] = WithoutRow(@, Task(r))]
  /\ GotoWrite(r, "launching")
  /\ UNCHANGED <<chain, gateVars, hostVars>>

\* transition: the durable edge, then, after the await, the gate's entry.
Write(r) ==
  /\ At(r, "write") /\ MayWrite
  /\ CanTransition(recs[r].tasks[Task(r)].state, drain[r].to)
  /\ recs' = [recs EXCEPT ![r] = Transitioned(@, Task(r), drain[r].to, FALSE, 0)]
  /\ Goto(r, "sync")
  /\ UNCHANGED <<chain, gateVars, hostVars>>

WriteRefused(r) ==
  /\ At(r, "write") /\ MayWrite
  /\ ~CanTransition(recs[r].tasks[Task(r)].state, drain[r].to)
  /\ Abandon(r)
  /\ UNCHANGED <<recs, chain, gateVars, hostVars>>

DiskFails(r) ==
  /\ drain[r].pc \in {"drop", "retire", "write"} /\ MayWrite /\ faults < MaxFaults
  /\ faults' = faults + 1
  /\ Abandon(r)
  /\ UNCHANGED <<recs, chain, gateVars, port, ended, events, crashes, begun, lost>>

Sync(r) ==
  /\ At(r, "sync")
  /\ \/ /\ Gate!ReserveTask(Task(r), NoChild)
        /\ IF drain[r].to = "launching" THEN Goto(r, "launch") ELSE NextRow(r)
     \/ ~Gate!TaskFits(Task(r)) /\ Abandon(r) /\ UNCHANGED gateVars
  /\ UNCHANGED <<recs, chain, hostVars>>

\* port.launch: the child's agent is created and enters the gate, or the launch
\* throws; it resolves at the admission edge, while the child already runs.
CreateChild(r) ==
  /\ At(r, "launch") /\ Request(r).child \notin live
  /\ Gate!ReserveChild(Request(r).child)
  /\ begun' = begun \cup {<<r, Task(r)>>} /\ lost' = lost \ {<<r, Task(r)>>}
  /\ Goto(r, "launched")
  /\ UNCHANGED <<recs, chain, port, ended, events, faults, crashes>>

LaunchReturns(r) == At(r, "launched") /\ GotoWrite(r, "accepted")
                    /\ UNCHANGED <<recs, chain, gateVars, hostVars>>

LaunchThrows(r) == drain[r].pc \in {"launch", "launched"} /\ GotoWrite(r, "unknown")
                   /\ UNCHANGED <<recs, chain, gateVars, hostVars>>

Pass(r) ==
  \/ TakeBatch(r) \/ NextEntry(r) \/ EndPass(r) \/ NextRequest(r)
  \/ Refuse(r) \/ TakeSlot(r) \/ Persist(r) \/ Drop(r) \/ Retire(r)
  \/ Write(r) \/ WriteRefused(r) \/ Sync(r)
  \/ CreateChild(r) \/ LaunchReturns(r) \/ LaunchThrows(r)

Faults(r) == PersistFails(r) \/ DiskFails(r)

------------------------------------------------------------------------------
(* Children, and the completion observer. *)

Running == live \ ended

\* findTaskByChildId: the first task, over all runs, that reserved the child.
Owners(c) == {o \in Runs \X Tasks : recs[o[1]].tasks[o[2]].child = c}
OwnerOf(c) == CHOOSE o \in Owners(c) : TRUE

Settled == {"completed"} \cup (IF UncleanEnds THEN {"unknown"} ELSE {})

\* subagent/end: the observer reads the task's state now and queues the edge it
\* establishes, or drops the event where that edge is not legal, and wakes.
ChildEnds(c, to) ==
  /\ c \in Running
  /\ EndsEarly \/ \A o \in begun : recs[o[1]].tasks[o[2]].child = c =>
                                 recs[o[1]].tasks[o[2]].state # "launching"
  /\ ended' = ended \cup {c}
  /\ begun' = {o \in begun : recs[o[1]].tasks[o[2]].child # c}
  /\ LET r == OwnerOf(c)[1]
         t == OwnerOf(c)[2]
     IN /\ lost' = IF recs[r].tasks[t].state = "launching" THEN lost \cup {<<r, t>>} ELSE lost
        /\ IF CanTransition(recs[r].tasks[t].state, to)
           THEN /\ events' = events \cup {[run |-> r, task |-> t, to |-> to, step |-> "write"]}
                /\ UNCHANGED drain
           ELSE Wake(r) /\ UNCHANGED events
  /\ UNCHANGED <<recs, chain, gateVars, port, faults, crashes>>

\* Mutant: a disposed child is never forgotten.
DisposeUnforgotten(c) ==
  /\ c \in ended
  /\ Gate!ReleaseChild(c)
  /\ UNCHANGED <<recs, chain, drain, port, ended, events, faults, crashes, begun, lost>>

Dispose(c) ==
  /\ c \in ended
  /\ Gate!ReleaseChild(c)
  /\ ended' = ended \ {c}
  /\ UNCHANGED <<recs, chain, drain, port, events, faults, crashes, begun, lost>>

\* The observer's transition commits, or is refused because the task moved on.
Settle(e) ==
  /\ e.step = "write" /\ MayWrite
  /\ IF CanTransition(recs[e.run].tasks[e.task].state, e.to)
     THEN /\ recs' = [recs EXCEPT ![e.run] = Transitioned(@, e.task, e.to, FALSE, 0)]
          /\ events' = (events \ {e}) \cup {[e EXCEPT !.step = "sync"]}
          /\ UNCHANGED drain
     ELSE /\ events' = events \ {e}
          /\ Wake(e.run)
          /\ UNCHANGED recs
  /\ UNCHANGED <<chain, gateVars, port, ended, faults, crashes, begun, lost>>

SettleFails(e) ==
  /\ e.step = "write" /\ MayWrite /\ faults < MaxFaults
  /\ faults' = faults + 1
  /\ events' = events \ {e} /\ lost' = lost \cup {<<e.run, e.task>>}
  /\ Wake(e.run)
  /\ UNCHANGED <<recs, chain, gateVars, port, ended, crashes, begun>>

\* Mutants: a settled task keeps its place; nobody is woken.
SyncSettledKeeping(e) ==
  /\ e.step = "sync"
  /\ events' = events \ {e}
  /\ Wake(e.run)
  /\ UNCHANGED <<recs, chain, gateVars, port, ended, faults, crashes, begun, lost>>
SyncSettledAsleep(e) ==
  /\ e.step = "sync"
  /\ IF e.to = "completed" THEN Gate!ReleaseTask(e.task) ELSE UNCHANGED gateVars
  /\ events' = events \ {e}
  /\ UNCHANGED <<recs, chain, drain, port, ended, faults, crashes, begun, lost>>

\* syncSlotToState after the await; it wakes the leader even where it throws.
SyncSettled(e) ==
  /\ e.step = "sync"
  /\ CASE e.to = "completed" -> Gate!ReleaseTask(e.task)
       [] e.to = "unknown" /\ Gate!TaskFits(e.task) -> Gate!ReserveTask(e.task, NoChild)
       [] e.to = "unknown" /\ ~Gate!TaskFits(e.task) -> UNCHANGED gateVars
  /\ events' = events \ {e}
  /\ Wake(e.run)
  /\ UNCHANGED <<recs, chain, port, ended, faults, crashes, begun, lost>>

Observer == \E e \in events : Settle(e) \/ SyncSettled(e)

------------------------------------------------------------------------------
(* The root's tool, the human's command, and the host. *)

\* work submit: the durable row, then the wake.
Submit(r, t) ==
  /\ MayWrite
  /\ recs' = [recs EXCEPT ![r] = WithRow(@, t, NameOf[t], Cost)]
  /\ Wake(r)
  /\ UNCHANGED <<chain, gateVars, hostVars>>

\* work finish.
Finish(r) ==
  /\ MayWrite /\ recs[r].phase = "open"
  /\ recs' = [recs EXCEPT ![r].phase = "closing"]
  /\ UNCHANGED <<chain, drain, gateVars, hostVars>>

\* /work stop.
Stop(r) ==
  /\ MayWrite /\ recs[r].phase = "open"
  /\ recs' = [recs EXCEPT ![r].phase = "paused"]
  /\ UNCHANGED <<chain, drain, gateVars, hostVars>>

\* /work target N.
SetTarget(r, target) ==
  /\ MayWrite /\ recs[r].target # target
  /\ recs' = [recs EXCEPT ![r].target = target]
  /\ UNCHANGED <<chain, drain, gateVars, hostVars>>

\* /work start on a session that has a run: the port is bound, the leader woken.
Start(r) ==
  /\ port' = TRUE
  /\ Wake(r)
  /\ UNCHANGED <<recs, chain, gateVars, ended, events, faults, crashes, begun, lost>>

\* The process dies with its children; the boot sweep wakes the runs that still
\* have ready rows, with no port until a human starts the session again.
Crash ==
  /\ crashes < MaxCrashes
  /\ crashes' = crashes + 1
  /\ live' = {} /\ ended' = {} /\ events' = {}
  /\ slots' = [t \in Tasks |-> Free]
  /\ port' = FALSE /\ chain' = NoRun
  /\ drain' = [r \in Runs |-> IF recs[r].ready = <<>> THEN Idle ELSE Woken(Idle)]
  /\ lost' = lost \cup begun \cup {<<e.run, e.task>> : e \in events}
  /\ UNCHANGED <<recs, faults, begun>>

Commands(r) == \/ \E t \in TasksOf[r] : Submit(r, t)
               \/ \E target \in Targets : SetTarget(r, target)
               \/ Finish(r) \/ Stop(r) \/ Start(r)

Next ==
  \/ \E r \in Runs : Pass(r) \/ Faults(r) \/ Commands(r)
  \/ \E c \in Children : Dispose(c) \/ \E to \in Settled : ChildEnds(c, to)
  \/ Observer \/ \E e \in events : SettleFails(e)
  \/ Crash

\* The event loop runs what is ready; a launch returns or throws; a child's turn
\* ends and its agent is disposed. Humans, the root and faults owe nothing.
Fairness ==
  /\ \A r \in Runs : WF_vars(Pass(r))
  /\ WF_vars(Observer)
  /\ \A c \in Children : /\ WF_vars(\E to \in Settled : ChildEnds(c, to))
                         /\ WF_vars(Dispose(c))

Spec == Init /\ [][Next]_vars
FairSpec == Spec /\ Fairness

------------------------------------------------------------------------------
(* What the composition promises. *)

TaskOf(r, t) == recs[r].tasks[t]

\* Nothing is under way that will still write or read this run.
AtRest(r) == At(r, "idle") /\ drain[r].pending = 0 /\ \A e \in events : e.run # r

\* Every variable keeps its shape, whatever interleaves.
TypeOK ==
  /\ recs \in [Runs -> Record]
  /\ live \subseteq Children /\ ended \subseteq live
  /\ slots \in [Tasks -> Children \cup {NoChild, Free}]
  /\ port \in BOOLEAN /\ chain \in Runs \cup {NoRun}
  /\ drain \in [Runs -> [pc : {"idle", "entry", "row", "reserve", "admitting", "drop",
                              "retire", "write", "sync", "launch", "launched"},
                        pending : 0..MaxWakes, batch : 0..MaxWakes,
                        queue : Seq(Row), to : States]]
  /\ events \subseteq [run : Runs, task : Tasks, to : {"completed", "unknown"},
                      step : {"write", "sync"}]
  /\ faults \in 0..MaxFaults /\ crashes \in 0..MaxCrashes
  /\ begun \subseteq Runs \X Tasks /\ lost \subseteq Runs \X Tasks

\* INV-C4: no slot is given away while work goes on. A child that is running is
\* behind a task that holds its slot, and a task launched in some run, whose child has
\* not been reported ended, holds a slot of that run (completion.ts
\* reconcileCompletedTask, host.ts drain).
WorkUnderWayHoldsSlot ==
  /\ \A c \in Running : \E r \in Runs, t \in Tasks :
       TaskOf(r, t).child = c /\ HoldsSlot(TaskOf(r, t).state)
  /\ \A o \in begun : HoldsSlot(TaskOf(o[1], o[2]).state)

\* The host's count never passes its capacity, with slots taken inside a write,
\* put back when it fails, and resynchronized after another await.
OccupiedWithinCapacity == Gate!Occupied <= HostCapacity

\* "The gate and the record agree on which tasks hold slots": with nothing under
\* way for a run and no restart behind it, each task it holds has its entry, save one
\* that was admitted again while its earlier completion had still to be resynchronized
\* and whose launch then failed; with nothing under way at all, each entry stands for
\* work some run holds (host.ts 2046).
GateAgreesWithRecords ==
  /\ crashes = 0 => \A r \in Runs : AtRest(r) =>
       \A t \in Held(recs[r]) : slots[t] = Free =>
          TaskOf(r, t).attempt > 1 /\ TaskOf(r, t).state \in {"prepared", "launching"}
  /\ (\A r \in Runs : AtRest(r)) => \A t \in Tasks :
       slots[t] # Free => \E r \in Runs : t \in Held(recs[r])

\* The children's commitments stay within the ceiling less the root's reserve,
\* through concurrent admissions, failed writes, readmissions and restarts.
CommittedWithinCeiling ==
  \A r \in Runs : ChildCommitted(recs[r].budget) <= ChildCeiling

\* A ready row leaves the table only once its task has been admitted: a failed
\* write, a refusal or a crash between two awaits never loses a submission.
RowLeavesOnlyAdmitted ==
  [][\A r \in Runs, t \in Tasks :
       HasRow(recs[r], t) /\ ~HasRow(recs'[r], t) => Present(recs'[r], t)]_vars

\* INV-D4: a task whose earlier launch was never reported ended is not launched
\* again, restarts and repeated submissions included.
NoBlindRelaunch ==
  [][\A r \in Runs : At(r, "launch") /\ live' # live /\ drain'[r].pc = "launched"
       => <<r, Task(r)>> \notin begun]_vars

\* A task shown as accepted, in a run at rest, has a child that still runs, unless
\* its end came while the launch was still to be recorded, or the write that would
\* have recorded the end failed or was cut off by a restart: no other end is missed,
\* whatever it meets (completion.ts reconcileCompletedTask, host.ts transition).
EndsAreRecorded ==
  \A r \in Runs : AtRest(r) => \A t \in Tasks :
     TaskOf(r, t).state = "accepted" =>
        TaskOf(r, t).child \in Running \/ <<r, t>> \in lost

\* The same without exception, for a host that was not restarted: INVARIANTS.md 13
\* has every completion release its slot.
AcceptedChildRuns ==
  crashes = 0 => \A r \in Runs : AtRest(r) => \A t \in Tasks :
     TaskOf(r, t).state = "accepted" => TaskOf(r, t).child \in Running

\* INV-C3, no missed top-up: a ready row is admitted in the end, unless the run
\* was stopped or is out of money or its target is taken up by tasks nobody can
\* account for.
Blocked(r, t) ==
  \/ recs[r].phase # "open"
  \/ ChildCommitted(recs[r].budget) + Cost > ChildCeiling
  \/ Cardinality({u \in Tasks : TaskOf(r, u).state = "unknown"}) >= recs[r].target

ReadyRowIsAdmitted ==
  \A r \in Runs, t \in Tasks :
     HasRow(recs[r], t) ~> (~HasRow(recs[r], t) \/ Blocked(r, t))

\* Whatever interleaves, what each run's record goes through is a history the
\* record's own operations allow.
Ledger(r) == INSTANCE RunLedger WITH
  rec <- recs[r], Charges <- {}, Releases <- {FALSE},
  MaxAttempts <- Ceiling, MaxCharged <- 0
RecordsFollowLedger ==
  /\ \A r \in Runs : Ledger(r)!Init
  /\ [][\A r \in Runs : Ledger(r)!Next \/ UNCHANGED recs[r]]_vars
=============================================================================
