---------------------------- MODULE KernelSession -----------------------------
(***************************************************************************)
(* The kernel of one session: the service's table of kernels, the host     *)
(* object that drives a broker over a pipe, and the broker, whose main     *)
(* thread starts, restarts and shuts the kernel down while a thread of its *)
(* own runs each cell. An action of the host is what it runs between two   *)
(* awaits, an action of the broker what a thread does between two waits.   *)
(* The kernels are processes that may die, and a restarted kernel is a new *)
(* process.                                                                *)
(***************************************************************************)
EXTENDS Naturals, FiniteSets

CONSTANTS Cells, None,
          Together,      \* may a call begin before the session's last one ended?
          Retires,       \* the owner's commands: "restart", "evict"
          MaxHosts, MaxProcesses,   \* bounds on what is spawned
          MaxCommands, MaxFaults

ASSUME SessionAssumption ==
  /\ None \notin Cells \cup {"ok", "unknown", "died", "failed"}
  /\ Retires \subseteq {"restart", "evict"}
  /\ Together \in BOOLEAN
  /\ MaxHosts \in Nat /\ MaxProcesses \in Nat /\ MaxCommands \in Nat /\ MaxFaults \in Nat

Hosts == 1..MaxHosts
Processes == 1..MaxProcesses
NoHost == 0
NoProcess == 0

VARIABLES
  entry,      \* the host in the service's table
  hosts,      \* each host object with its broker
  cells,      \* each call of runCell
  op,         \* the restart or eviction under way
  processes,  \* kernel processes started so far
  known,      \* history: the process whose namespace the session was last told of
  disturbed,  \* history of what no lock prevents: the "owner" took the kernel from a call
              \* its broker still works on; the host gave a call up that its broker was
              \* "late" with; calls were under way "together"; "twice" was a kernel started
              \* for the session at once; cells of one broker "overlap"ped
  commands, faults

vars == <<entry, hosts, cells, op, processes, known, disturbed, commands, faults>>

\* The broker's main thread is idle or in restart(); km is the process its kernel
\* manager holds, live those that run. client: "made" but not read from, or "ready".
Host == [state : {"none", "starting", "up", "stopping", "down"}, exited : BOOLEAN,
         cellActive : BOOLEAN, epoch : Nat, km : Processes \cup {NoProcess},
         live : SUBSET Processes, client : {"none", "made", "ready"},
         main : {"idle", "relaunch", "connect"}]
NoBroker == [state |-> "none", exited |-> FALSE, cellActive |-> FALSE, epoch |-> 0,
             km |-> NoProcess, live |-> {}, client |-> "none", main |-> "idle"]

\* checked: execute's tests passed, start() is awaited. thread: of the broker; number:
\* the epoch it remembers, 0 if it resets an overrun and remembers none.
Cell == [phase : {"new", "entering", "spawning", "checked", "executing", "closing", "done"},
         step : {"bind", "user"}, host : Hosts \cup {NoHost},
         thread : {"none", "run", "kill", "start", "wait", "started", "report"},
         mid : BOOLEAN, number : Nat,
         bound : Processes \cup {NoProcess}, ran : Processes \cup {NoProcess},
         result : {None, "ok", "unknown", "died", "failed"}, epoch : Nat]
NewCell == [phase |-> "new", step |-> "bind", host |-> NoHost, thread |-> "none", mid |-> FALSE,
            number |-> 0, bound |-> NoProcess, ran |-> NoProcess, result |-> None, epoch |-> 0]

\* kernel: the process of the manager that restart_kernel works on.
NoOp == [kind |-> "none", host |-> NoHost, stage |-> "none", kernel |-> NoProcess]

Init ==
  /\ entry = NoHost /\ hosts = [h \in Hosts |-> NoBroker]
  /\ cells = [c \in Cells |-> NewCell]
  /\ op = NoOp /\ processes = 0 /\ known = NoProcess /\ disturbed = {} /\ commands = 0 /\ faults = 0

------------------------------------------------------------------------------

Under(c, phase) == cells[c].phase = phase
UnderWay(c) == cells[c].phase \notin {"new", "done"}
Fault == faults < MaxFaults /\ faults' = faults + 1
Alive(h) == hosts[h].km \in hosts[h].live
Ready(h) == hosts[h].client = "ready" /\ hosts[h].main = "idle"
Serving(h) == ~hosts[h].exited /\ hosts[h].state # "down"
Executing(c, h) == Under(c, "executing") /\ cells[c].host = h

\* The cell's result is decided; its lease is closed before runCell returns.
Ended(cell, result) == [cell EXCEPT !.phase = "closing", !.result = result]

\* execute, up to its await of start(): refused if the host is stopped or a cell
\* is active.
Checked(cell, h, step) ==
  IF hosts[h].state \in {"stopping", "down"} \/ hosts[h].cellActive
  THEN Ended([cell EXCEPT !.host = h], "failed")
  ELSE [cell EXCEPT !.phase = "checked", !.host = h, !.step = step]

\* The thread has ended.
Threadless(cell) == [cell EXCEPT !.thread = "none", !.mid = FALSE, !.number = 0]

\* Mutant: the requests wait for answers that will not come.
AllFailLater(h) ==
  [c \in Cells |-> IF cells[c].host = h THEN Threadless(cells[c]) ELSE cells[c]]

\* failAll: every request of the host is rejected.
AllFail(h) ==
  [c \in Cells |-> IF Executing(c, h) THEN Ended(Threadless(cells[c]), "failed")
                   ELSE IF cells[c].host = h THEN Threadless(cells[c])
                   ELSE cells[c]]

------------------------------------------------------------------------------
(* runCell and entryFor. *)

Ask(c) ==
  /\ Under(c, "new")
  /\ Together \/ ~\E d \in Cells : UnderWay(d)
  /\ cells' = [cells EXCEPT ![c].phase = "entering"]
  /\ disturbed' = disturbed \cup (IF op # NoOp THEN {"owner"} ELSE {})
                             \cup (IF \E d \in Cells : UnderWay(d) THEN {"together"} ELSE {})
  /\ UNCHANGED <<entry, hosts, op, processes, known, commands, faults>>

\* The environment is identified: take the table's kernel.
Enter(c) ==
  /\ Under(c, "entering") /\ entry # NoHost
  /\ cells' = [cells EXCEPT ![c] = Checked(@, entry, "bind")]
  /\ UNCHANGED <<entry, hosts, op, processes, known, disturbed, commands, faults>>

\* Or start one: nothing in the table says that this is under way.
Spawn(c) ==
  /\ Under(c, "entering") /\ entry = NoHost
  /\ \E h \in Hosts :
       /\ hosts[h].state = "none" /\ \A g \in 1..(h - 1) : hosts[g].state # "none"
       /\ hosts' = [hosts EXCEPT ![h].state = "starting"]
       /\ cells' = [cells EXCEPT ![c].phase = "spawning", ![c].host = h]
  /\ disturbed' = IF \E d \in Cells : Under(d, "spawning") THEN disturbed \cup {"twice"}
                  ELSE disturbed
  /\ UNCHANGED <<entry, op, processes, known, commands, faults>>

NewProcess == processes < MaxProcesses /\ processes' = processes + 1

\* The broker's start() under the host's: the kernel is launched and awaited.
BrokerStarts(c) ==
  LET h == cells[c].host IN
  /\ Under(c, "spawning") /\ hosts[h].state = "starting" /\ NewProcess
  /\ hosts' = [hosts EXCEPT ![h].state = "up", ![h].km = processes', ![h].live = {processes'},
                            ![h].epoch = 1, ![h].client = "ready"]
  /\ UNCHANGED <<entry, cells, op, known, disturbed, commands, faults>>

\* The ledger is open as well: the insert that makes the kernel findable.
Publish(c) ==
  LET h == cells[c].host IN
  /\ Under(c, "spawning") /\ hosts[h].state = "up"
  /\ entry' = h
  /\ cells' = [cells EXCEPT ![c] = Checked(@, h, "bind")]
  /\ UNCHANGED <<hosts, op, processes, known, disturbed, commands, faults>>

\* The catch: the host is shut down and the session's place in the table cleared.
SpawnFails(c) ==
  /\ Under(c, "spawning") /\ Fault
  /\ hosts' = [hosts EXCEPT ![cells[c].host] = [@ EXCEPT !.state = "down", !.live = {}]]
  /\ entry' = NoHost
  /\ cells' = [cells EXCEPT ![c].phase = "done", ![c].result = "failed"]
  /\ UNCHANGED <<op, processes, known, disturbed, commands>>

------------------------------------------------------------------------------
(* execute and the broker's thread for it. *)

\* After start(): the cell is marked active and its request sent, if there is
\* still a broker to send it to.
Send(c) ==
  LET h == cells[c].host IN
  /\ Under(c, "checked")
  /\ IF ~Serving(h)
     THEN cells' = [cells EXCEPT ![c] = Ended(@, "failed")] /\ UNCHANGED hosts
     ELSE /\ cells' = [cells EXCEPT ![c].phase = "executing", ![c].thread = "none"]
          /\ hosts' = [hosts EXCEPT ![h].cellActive = TRUE]
  /\ UNCHANGED <<entry, op, processes, known, disturbed, commands, faults>>

\* Mutant: the user's code is sent whatever became of the bind.
AnsweredUnbound(cell, result) ==
  LET idle == [Threadless(cell) EXCEPT !.epoch = hosts'[cell.host].epoch]
  IN IF cell.step = "bind"
     THEN IF hosts[cell.host].state \in {"stopping", "down"} THEN Ended(idle, "failed")
          ELSE [idle EXCEPT !.phase = "checked", !.step = "user"]
     ELSE Ended(idle, result)

\* A reply to execute, in the host: after the bind the user's code is next.
Answered(cell, result) ==
  LET idle == [Threadless(cell) EXCEPT !.epoch = hosts'[cell.host].epoch]
  IN IF cell.step = "bind" /\ result = "ok"
     THEN IF hosts[cell.host].state \in {"stopping", "down"} THEN Ended(idle, "failed")
          ELSE [idle EXCEPT !.phase = "checked", !.step = "user"]
     ELSE Ended(idle, result)

\* A reply that the host no longer waits for is dropped.
Reply(c, result) ==
  cells' = [cells EXCEPT ![c] = IF Under(c, "executing") THEN Answered(@, result)
                                ELSE Threadless(@)]

Freed(c, broker) ==
  [broker EXCEPT !.cellActive = IF Under(c, "executing") THEN FALSE ELSE @]

Waiting(c) == Under(c, "executing") /\ cells[c].thread = "none"

\* The broker reads the request, whatever its other threads do: it has no kernel or
\* none it can talk to, a dead one, or one to run the code in.
Dispatch(c) ==
  LET h == cells[c].host
      usable == hosts[h].km # NoProcess /\ hosts[h].client # "none"
  IN /\ Waiting(c) /\ Serving(h) /\ hosts[h].main = "idle"
     /\ \/ /\ ~usable \/ (Alive(h) /\ hosts[h].client = "made")
           /\ hosts' = [hosts EXCEPT ![h] = Freed(c, @)]
           /\ Reply(c, "failed")
        \/ /\ usable /\ ~Alive(h)
           /\ cells' = [cells EXCEPT ![c].thread = "kill", ![c].number = hosts[h].epoch]
           /\ UNCHANGED hosts
        \/ /\ Alive(h) /\ Ready(h)
           /\ cells' = [cells EXCEPT ![c].thread = "run", ![c].mid = TRUE,
                          ![c].bound = IF cells[c].step = "bind" THEN hosts[h].km ELSE @,
                          ![c].ran = IF cells[c].step = "user" THEN hosts[h].km ELSE @]
           /\ UNCHANGED hosts
     /\ disturbed' = IF \E d \in Cells \ {c} : cells[d].host = h /\ cells[d].thread # "none"
                     THEN disturbed \cup {"overlap"} ELSE disturbed
     /\ UNCHANGED <<entry, op, processes, known, commands, faults>>

RunsIn(c) == IF cells[c].step = "bind" THEN cells[c].bound ELSE cells[c].ran

\* What the session knows once it has read the result: an unknown outcome and a
\* dead kernel come with the notice of a new generation, and a namespace that the
\* owner is taking away is nothing to rely on.
KnownAfter(c, result) ==
  IF op.host = cells[c].host THEN known
  ELSE IF Under(c, "executing") /\ result \in {"unknown", "died"} THEN NoProcess
  ELSE IF Under(c, "executing") /\ result = "ok" /\ cells[c].step = "user" THEN cells[c].ran
  ELSE known

\* execute_reply and idle: the cell ended in its own process. An error the code
\* raised counts as ok; a result too large for a frame is a failure.
Finish(c) ==
  LET h == cells[c].host IN
  /\ cells[c].thread = "run" /\ RunsIn(c) \in hosts[h].live
  /\ Ready(h) /\ hosts[h].km = RunsIn(c)
  /\ \E result \in {"ok", "failed"} :
       /\ hosts' = [hosts EXCEPT ![h] = Freed(c, @)]
       /\ Reply(c, result)
       /\ known' = KnownAfter(c, result)
  /\ UNCHANGED <<entry, op, processes, disturbed, commands, faults>>

\* The thread sees no live kernel, and remembers the epoch.
SeesDeath(c) ==
  LET h == cells[c].host IN
  /\ cells[c].thread = "run" /\ ~Alive(h)
  /\ cells' = [cells EXCEPT ![c].thread = "kill", ![c].number = hosts[h].epoch]
  /\ UNCHANGED <<entry, hosts, op, processes, known, disturbed, commands, faults>>

\* The cell's time is over, or an interrupt did not settle it in its grace.
Overruns(c) ==
  /\ cells[c].thread = "run"
  /\ cells' = [cells EXCEPT ![c].thread = "kill"]
  /\ UNCHANGED <<entry, hosts, op, processes, known, disturbed, commands, faults>>

\* Mutant: the old kernel is dropped and left running.
Drop(c) ==
  LET h == cells[c].host IN
  /\ cells[c].thread = "kill"
  /\ hosts' = [hosts EXCEPT ![h].km = NoProcess, ![h].client = "none"]
  /\ cells' = [cells EXCEPT ![c].thread = "start"]
  /\ UNCHANGED <<entry, op, processes, known, disturbed, commands, faults>>

\* _dead_kernel_result and _reset_kernel: first the kernel the broker holds is shut
\* down and dropped ...
Kill(c) ==
  LET h == cells[c].host IN
  /\ cells[c].thread = "kill"
  /\ hosts' = [hosts EXCEPT ![h].live = @ \ {hosts[h].km}, ![h].km = NoProcess,
                            ![h].client = "none"]
  /\ cells' = [cells EXCEPT ![c].thread = "start"]
  /\ UNCHANGED <<entry, op, processes, known, disturbed, commands, faults>>

\* Only a death is reported under an epoch that the thread has read before.
AfterStart(c) == IF cells[c].number = 0 THEN "report" ELSE "started"

\* ... then start() launches another. It looks for a kernel first, and finds one that
\* another thread has launched, if that one was quick enough.
Launch(c) ==
  LET h == cells[c].host IN
  /\ cells[c].thread = "start"
  /\ \/ /\ NewProcess
        /\ hosts' = [hosts EXCEPT ![h].km = processes', ![h].live = @ \cup {processes'},
                                  ![h].client = "made"]
        /\ cells' = [cells EXCEPT ![c].thread = "wait"]
     \/ /\ hosts[h].km # NoProcess
        /\ cells' = [cells EXCEPT ![c].thread = AfterStart(c)]
        /\ UNCHANGED <<hosts, processes>>
  /\ UNCHANGED <<entry, op, known, disturbed, commands, faults>>

\* Mutant: the replacement keeps the number of the dead kernel.
ReplaceSameEpoch(c) ==
  LET h == cells[c].host IN
  /\ cells[c].thread = "wait" /\ Alive(h)
  /\ hosts' = [hosts EXCEPT ![h].client = "ready"]
  /\ cells' = [cells EXCEPT ![c].thread = AfterStart(c)]
  /\ UNCHANGED <<entry, op, processes, known, disturbed, commands, faults>>

\* It answers.
Replace(c) ==
  LET h == cells[c].host IN
  /\ cells[c].thread = "wait" /\ Alive(h)
  /\ hosts' = [hosts EXCEPT ![h].epoch = @ + 1, ![h].client = "ready"]
  /\ cells' = [cells EXCEPT ![c].thread = AfterStart(c)]
  /\ UNCHANGED <<entry, op, processes, known, disturbed, commands, faults>>

\* A death is reported under the epoch read here ...
Note(c) ==
  /\ cells[c].thread = "started"
  /\ cells' = [cells EXCEPT ![c].thread = "report", ![c].number = hosts[cells[c].host].epoch]
  /\ UNCHANGED <<entry, hosts, op, processes, known, disturbed, commands, faults>>

\* ... and without a kernel under the one after that remembered. Either none was
\* launched, or one that died or is not trusted stays with the broker.
ReplaceFails(c) ==
  LET h == cells[c].host IN
  /\ \/ cells[c].thread = "start" /\ Fault /\ UNCHANGED hosts
     \/ /\ cells[c].thread = "wait"
        /\ Fault \/ (~Alive(h) /\ UNCHANGED faults)
        /\ \/ UNCHANGED hosts
           \/ Alive(h) /\ hosts' = [hosts EXCEPT ![h].client = "none"]
  /\ cells' = [cells EXCEPT ![c].thread = "report", ![c].number = IF @ = 0 THEN 0 ELSE @ + 1]
  /\ UNCHANGED <<entry, op, processes, known, disturbed, commands>>

\* Mutant: the broker uses a word the host does not know.
VerdictUnlisted(c) == IF cells[c].mid THEN "unknown" ELSE "dead"

\* Mutant: a death found before the code ran is repaired and not reported.
VerdictHidden(c) == IF cells[c].mid THEN "unknown" ELSE "ok"

Verdict(c) == IF cells[c].mid THEN "unknown" ELSE "died"

\* The epoch of a death is written, whatever the other thread wrote meanwhile, and the
\* cell reported.
Report(c) ==
  LET h == cells[c].host
      number == IF cells[c].number = 0 THEN hosts[h].epoch ELSE cells[c].number
  IN /\ cells[c].thread = "report"
     /\ hosts' = [hosts EXCEPT ![h] = Freed(c, [hosts[h] EXCEPT !.epoch = number])]
     /\ Reply(c, Verdict(c))
     /\ known' = KnownAfter(c, Verdict(c))
     /\ UNCHANGED <<entry, op, processes, disturbed, commands, faults>>

\* The host's own timer: the broker decides an overrun first, but its new kernel
\* may take longer than the margin.
HostTimesOut(c) ==
  LET h == cells[c].host IN
  /\ Under(c, "executing") /\ cells[c].thread # "run" /\ Fault
  /\ hosts' = [hosts EXCEPT ![h].cellActive = FALSE]
  /\ cells' = [cells EXCEPT ![c] = Ended(@, "failed")]
  /\ disturbed' = disturbed \cup {"late"}
  /\ UNCHANGED <<entry, op, processes, known, commands>>

\* The lease is closed and its calls are drained.
Return(c) ==
  /\ Under(c, "closing")
  /\ cells' = [cells EXCEPT ![c].phase = "done"]
  /\ UNCHANGED <<entry, hosts, op, processes, known, disturbed, commands, faults>>

------------------------------------------------------------------------------
(* restart, evict, and the broker's main thread. *)

\* The leases of the kernel are closed first; an eviction empties the table at once.
\* Either is the owner's way of taking the namespace away.
Begin(kind) ==
  /\ kind \in Retires /\ op = NoOp /\ entry # NoHost
  /\ commands < MaxCommands /\ commands' = commands + 1
  /\ op' = [NoOp EXCEPT !.kind = kind, !.host = entry, !.stage = "leases"]
  /\ entry' = IF kind = "evict" THEN NoHost ELSE entry
  /\ known' = NoProcess
  /\ disturbed' = IF \E c \in Cells : UnderWay(c) \/ cells[c].thread # "none"
                  THEN disturbed \cup {"owner"} ELSE disturbed
  /\ UNCHANGED <<hosts, cells, processes, faults>>

\* The restart is requested, or refused by a host that is stopped or lost its broker.
RequestRestart ==
  /\ op.kind = "restart" /\ op.stage = "leases"
  /\ op' = IF hosts[op.host].exited \/ hosts[op.host].state # "up" THEN NoOp
           ELSE [op EXCEPT !.stage = "sent"]
  /\ UNCHANGED <<entry, hosts, cells, processes, known, disturbed, commands, faults>>

\* restart_kernel ends the old process ...
RestartKills ==
  LET h == op.host IN
  /\ op.kind = "restart" /\ op.stage = "sent" /\ hosts[h].main = "idle"
  /\ IF hosts[h].km = NoProcess
     THEN op' = NoOp /\ UNCHANGED hosts
     ELSE /\ hosts' = [hosts EXCEPT ![h].live = @ \ {hosts[h].km}, ![h].main = "relaunch",
                                    ![h].client = IF @ = "none" THEN @ ELSE "made"]
          /\ op' = [op EXCEPT !.stage = "restarting", !.kernel = hosts[h].km]
  /\ UNCHANGED <<entry, cells, processes, known, disturbed, commands, faults>>

\* ... and launches one: the broker's, unless a cell's thread has put another manager
\* in the place of the one that restarts.
Relaunch ==
  LET h == op.host IN
  /\ op.stage = "restarting" /\ hosts[h].main = "relaunch" /\ NewProcess
  /\ hosts' = [hosts EXCEPT ![h].main = "connect", ![h].live = @ \cup {processes'},
                            ![h].km = IF @ = op.kernel THEN processes' ELSE @]
  /\ UNCHANGED <<entry, cells, op, known, disturbed, commands, faults>>

\* The client connects to whatever the broker holds by now.
Connect ==
  LET h == op.host IN
  /\ op.stage = "restarting" /\ hosts[h].main = "connect" /\ Alive(h)
  /\ hosts' = [hosts EXCEPT ![h].main = "idle", ![h].epoch = @ + 1, ![h].client = "ready"]
  /\ op' = NoOp
  /\ UNCHANGED <<entry, cells, processes, known, disturbed, commands, faults>>

\* Or there is nothing that answers.
ConnectFails ==
  LET h == op.host IN
  /\ op.stage = "restarting" /\ hosts[h].main = "connect"
  /\ Fault \/ (~Alive(h) /\ UNCHANGED faults)
  /\ hosts' = [hosts EXCEPT ![h].main = "idle"]
  /\ op' = NoOp
  /\ UNCHANGED <<entry, cells, processes, known, disturbed, commands>>

\* shutdown: the host is stopped before the request is sent.
Stop ==
  /\ op.kind = "evict" /\ op.stage = "leases"
  /\ hosts' = [hosts EXCEPT ![op.host].state = "stopping"]
  /\ op' = [op EXCEPT !.stage = "stopping"]
  /\ UNCHANGED <<entry, cells, processes, known, disturbed, commands, faults>>

BrokerShutsDown ==
  LET h == op.host IN
  /\ op.stage = "stopping" /\ hosts[h].main = "idle" /\ hosts[h].km # NoProcess
  /\ hosts' = [hosts EXCEPT ![h].live = @ \ {hosts[h].km}, ![h].km = NoProcess,
                            ![h].client = "none"]
  /\ UNCHANGED <<entry, cells, op, processes, known, disturbed, commands, faults>>

\* The request was answered or timed out: the broker's processes are terminated and
\* what still waits is rejected.
Terminate ==
  LET h == op.host IN
  /\ op.stage = "stopping"
  /\ hosts' = [hosts EXCEPT ![h].state = "down", ![h].live = {}, ![h].km = NoProcess,
                            ![h].client = "none", ![h].cellActive = FALSE, ![h].main = "idle"]
  /\ cells' = AllFail(h)
  /\ op' = NoOp
  /\ UNCHANGED <<entry, processes, known, disturbed, commands, faults>>

\* A kernel dies, of itself or of its code.
KernelDies(h) ==
  /\ Alive(h) /\ Fault
  /\ hosts' = [hosts EXCEPT ![h].live = @ \ {hosts[h].km}]
  /\ UNCHANGED <<entry, cells, op, processes, known, disturbed, commands>>

\* The broker dies and its kernel with it: every request is rejected, and so is each
\* later one. The callers learn of it.
BrokerExits(h) ==
  /\ hosts[h].state = "up" /\ ~hosts[h].exited /\ Fault
  /\ hosts' = [hosts EXCEPT ![h].exited = TRUE, ![h].live = {}, ![h].km = NoProcess,
                            ![h].client = "none", ![h].cellActive = FALSE, ![h].main = "idle"]
  /\ cells' = AllFail(h)
  /\ op' = IF op.host = h /\ op.stage \in {"sent", "restarting"} THEN NoOp ELSE op
  /\ known' = NoProcess
  /\ UNCHANGED <<entry, processes, disturbed, commands>>

------------------------------------------------------------------------------

CellStep(c) == \/ Ask(c) \/ Enter(c) \/ Spawn(c) \/ BrokerStarts(c) \/ Publish(c) \/ SpawnFails(c)
               \/ Send(c) \/ Dispatch(c) \/ Finish(c) \/ SeesDeath(c) \/ Overruns(c)
               \/ Kill(c) \/ Launch(c) \/ Replace(c) \/ ReplaceFails(c) \/ Note(c) \/ Report(c)
               \/ HostTimesOut(c) \/ Return(c)

OwnerStep == \/ \E kind \in Retires : Begin(kind)
             \/ RequestRestart \/ RestartKills \/ Relaunch \/ Connect \/ ConnectFails
             \/ Stop \/ BrokerShutsDown \/ Terminate

Next == \/ \E c \in Cells : CellStep(c)
        \/ OwnerStep
        \/ \E h \in Hosts : KernelDies(h) \/ BrokerExits(h)

Spec == Init /\ [][Next]_vars

\* The host's event loop and the broker's threads go on, and the broker's deadline
\* ends a cell that does not end by itself.
Fairness ==
  /\ \A c \in Cells :
       /\ WF_vars(Enter(c) \/ Spawn(c) \/ BrokerStarts(c) \/ Publish(c) \/ SpawnFails(c))
       /\ WF_vars(Send(c)) /\ WF_vars(Dispatch(c)) /\ WF_vars(Return(c))
       /\ WF_vars(Overruns(c)) /\ WF_vars(Kill(c)) /\ WF_vars(Launch(c) \/ ReplaceFails(c))
       /\ WF_vars(Replace(c) \/ ReplaceFails(c)) /\ WF_vars(Note(c)) /\ WF_vars(Report(c))
  /\ WF_vars(RequestRestart) /\ WF_vars(RestartKills) /\ WF_vars(Relaunch)
  /\ WF_vars(Connect \/ ConnectFails)
  /\ WF_vars(Stop) /\ WF_vars(Terminate)

FairSpec == Spec /\ Fairness

------------------------------------------------------------------------------

\* The variables range over their types.
TypeOK ==
  /\ entry \in Hosts \cup {NoHost}
  /\ hosts \in [Hosts -> Host] /\ cells \in [Cells -> Cell]
  /\ op \in [kind : {"none", "restart", "evict"}, host : Hosts \cup {NoHost},
             stage : {"none", "leases", "sent", "restarting", "stopping"},
             kernel : Processes \cup {NoProcess}]
  /\ processes \in Processes \cup {NoProcess} /\ known \in Processes \cup {NoProcess}
  /\ disturbed \subseteq {"owner", "late", "together", "twice", "overlap"}
  /\ commands \in 0..MaxCommands /\ faults \in 0..MaxFaults

\* The session owns one kernel: what runs outside a host that is being retired is a
\* single process. Three races alone can end that: of two first calls, of the owner
\* with a call, and of two threads that repair one broker.
Retired(h) == hosts[h].state \in {"stopping", "down"} \/ (op.kind = "evict" /\ op.host = h)
OneKernel ==
  \/ disturbed \cap {"owner", "twice", "overlap"} # {}
  \/ Cardinality(UNION {hosts[h].live : h \in {g \in Hosts : ~Retired(g)}}) <= 1

\* The epoch a result carries names a kernel. Two cells of one host that report the
\* same one shared a namespace, and a broker that is ready for the next cell under that
\* epoch still has it, although the owner's restart raises the epoch while a cell's
\* thread writes one that it remembers. Two such threads break it.
Ran(c) == Under(c, "done") /\ cells[c].result = "ok"
EpochNamesKernel ==
  \/ "overlap" \in disturbed
  \/ \A c \in Cells :
       Ran(c) => /\ \A d \in Cells : /\ Ran(d) /\ cells[d].host = cells[c].host
                                      /\ cells[d].epoch = cells[c].epoch
                                      => cells[d].ran = cells[c].ran
                 /\ LET h == cells[c].host IN
                    Ready(h) /\ hosts[h].epoch = cells[c].epoch => hosts[h].km = cells[c].ran

\* The user's code runs in the process its capability was bound in.
CellRunsWhereBound == \A c \in Cells : cells[c].ran # NoProcess => cells[c].ran = cells[c].bound

\* ... and does so whenever nobody interferes.
QuietCellRunsWhereBound == disturbed # {} \/ CellRunsWhereBound

\* A cell whose result says nothing of a new generation ran in the namespace the
\* session was last told of, unless the owner took that one away. So it is as long as
\* calls follow each other and the broker answers within the host's patience.
LostNamespaceIsTold ==
  [][\A c \in Cells : /\ Under(c, "executing") /\ cells[c].step = "user"
                      /\ cells'[c].result = "ok"
                      => \/ disturbed \cap {"late", "together"} # {}
                         \/ known \in {NoProcess, cells[c].ran}]_vars

\* Every call returns, whatever dies, overruns or is taken away.
EveryCellReturns ==
  \A c \in Cells : Under(c, "entering") ~> Under(c, "done")
=============================================================================
