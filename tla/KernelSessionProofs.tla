------------------------- MODULE KernelSessionProofs -------------------------
(***************************************************************************)
(* Theorems about KernelSession, for every set of cells and every bound on *)
(* hosts, processes, commands and faults.                                  *)
(***************************************************************************)
EXTENDS KernelSession, TLAPS, FiniteSetTheorems
------------------------------------------------------------------------------
(* What any step keeps. *)

Started(h) == hosts[h].state \notin {"none", "starting"}

\* A request belongs to a host object.
HostKnown ==
  \A c \in Cells : \/ cells[c].thread # "none"
                   \/ cells[c].phase \in {"spawning", "checked", "executing"}
                   => cells[c].host \in Hosts

\* The stages of a restart and of an eviction.
OpFits ==
  \/ op = NoOp
  \/ /\ op.host \in Hosts /\ Started(op.host)
     /\ \/ /\ op.kind = "restart" /\ op.stage \in {"leases", "sent", "restarting"}
           /\ op.stage = "restarting" => op.kernel # NoProcess
        \/ op.kind = "evict" /\ op.stage \in {"leases", "stopping"}

\* The main thread is busy with the restart under way, on no other host.
MainFits ==
  \A h \in Hosts : hosts[h].main # "idle" => op.stage = "restarting" /\ op.host = h

\* What was used once has been started, and stays so.
StartedFits ==
  /\ entry # NoHost => Started(entry)
  /\ \A c \in Cells : cells[c].host # NoHost /\ ~Under(c, "spawning") => Started(cells[c].host)

\* A cell has a result once it is decided.
ResultFits ==
  \A c \in Cells : cells[c].phase \notin {"closing", "done"} => cells[c].result = None

\* A call that has sent nothing yet has no thread, and only the thread of a dead kernel's
\* cell remembers an epoch.
FreshFits ==
  \A c \in Cells :
     /\ cells[c].phase \in {"new", "entering", "spawning", "checked"} => cells[c].thread = "none"
     /\ cells[c].thread \in {"none", "run"} => cells[c].number = 0

BaseInv == TypeOK /\ HostKnown /\ OpFits /\ MainFits /\ StartedFits /\ ResultFits /\ FreshFits

------------------------------------------------------------------------------

Reported(c) == cells[c].phase \in {"closing", "done"} /\ cells[c].result = "ok"

\* A broker works for one cell at a time.
OneThread ==
  \A c, d \in Cells : /\ cells[c].thread # "none" /\ cells[d].thread # "none"
                      /\ cells[c].host = cells[d].host
                      => c = d

\* Every epoch reported on host h is below n.
Past(h, n) == \A d \in Cells : Reported(d) /\ cells[d].host = h => cells[d].epoch < n

\* The epoch of a result is past, or the kernel the broker serves with is its own.
EpochFits ==
  \A c \in Cells :
     Reported(c) =>
       LET host == hosts[cells[c].host] IN
       /\ cells[c].host \in Hosts /\ cells[c].epoch <= host.epoch
       /\ cells[c].epoch = host.epoch /\ host.client = "ready"
             => host.main = "idle" /\ host.km = cells[c].ran

SameEpoch ==
  \A c, d \in Cells : /\ Reported(c) /\ Reported(d) /\ cells[c].host = cells[d].host
                      /\ cells[c].epoch = cells[d].epoch
                      => cells[c].ran = cells[d].ran

\* What the thread of a dead kernel's cell will write is above all that was reported.
Remembers(c) ==
  LET h == cells[c].host
      number == cells[c].number
  IN /\ cells[c].thread \in {"kill", "start", "wait"} /\ number # 0 => Past(h, number + 1)
     /\ cells[c].thread = "start" => hosts[h].km = NoProcess
     /\ cells[c].thread = "started" => Past(h, hosts[h].epoch)
     /\ cells[c].thread = "report" /\ number # 0 => Past(h, number)

RepairFits == \A c \in Cells : Remembers(c)

EpochInv == "overlap" \notin disturbed => OneThread /\ EpochFits /\ SameEpoch /\ RepairFits

------------------------------------------------------------------------------

OneUnderWay == \A c, d \in Cells : UnderWay(c) /\ UnderWay(d) => c = d

SpawnsAlone == \A c \in Cells : Under(c, "spawning") => entry = NoHost

Evicting(h) == op.kind = "evict" /\ op.host = h
Lost(h) == op = NoOp /\ ~Serving(h)

\* A call works on the kernel in the table, or on one that is being evicted; one
\* that has not sent its request yet may find it gone.
OnTheTable ==
  \A c \in Cells :
    cells[c].phase \in {"checked", "executing"} =>
      \/ cells[c].host = entry
      \/ /\ entry = NoHost
         /\ Evicting(cells[c].host) \/ (Under(c, "checked") /\ Lost(cells[c].host))

AloneFits == OneUnderWay /\ SpawnsAlone /\ OnTheTable
AloneInv == "together" \notin disturbed => AloneFits

------------------------------------------------------------------------------

Busy(c) == cells[c].thread # "none" \/ cells[c].phase \in {"checked", "executing"}

OwnerWaits ==
  /\ op # NoOp => \A c \in Cells : ~UnderWay(c) /\ cells[c].thread = "none"
  /\ op.kind = "restart" => op.host = entry
BusyOnEntry == \A c \in Cells : Busy(c) => cells[c].host = entry
OneSpawn == \A c, d \in Cells : Under(c, "spawning") /\ Under(d, "spawning") => c = d
OneEach ==
  \A h \in Hosts : /\ hosts[h].live \subseteq {hosts[h].km}
                   /\ hosts[h].main = "relaunch" => hosts[h].km = op.kernel /\ hosts[h].live = {}
Owned ==
  \A h \in Hosts : /\ hosts[h].live # {} /\ ~Retired(h)
                   => h = entry \/ \E c \in Cells : Under(c, "spawning") /\ cells[c].host = h
OwnerFits == OwnerWaits /\ BusyOnEntry /\ OneSpawn /\ SpawnsAlone /\ OneEach /\ Owned
OwnerInv == disturbed \cap {"owner", "twice", "overlap"} = {} => OwnerFits

------------------------------------------------------------------------------

ThreadsFit == \A c \in Cells : cells[c].thread # "none" => Under(c, "executing")
UserOn(c) == cells[c].step = "user" /\ cells[c].phase \in {"checked", "executing"}
\* The thread has launched another kernel.
Relaunched(c) == cells[c].thread \in {"wait", "started", "report"}
BoundFits ==
  \A c \in Cells : /\ cells[c].phase \in {"new", "entering", "spawning"} => cells[c].step = "bind"
                   /\ cells[c].step = "bind" => cells[c].ran = NoProcess
                   /\ UserOn(c) /\ ~Relaunched(c)
                         => hosts[cells[c].host].km \in {cells[c].bound, NoProcess}
                   /\ cells[c].ran # NoProcess => cells[c].ran = cells[c].bound
QuietInv == /\ "late" \notin disturbed => ThreadsFit
            /\ disturbed = {} => BoundFits

KnownFits ==
  /\ entry = NoHost => known = NoProcess
  /\ known # NoProcess => /\ op.host # entry
                          /\ \/ hosts[entry].km \in {known, NoProcess}
                             \/ \E c \in Cells : Relaunched(c) /\ cells[c].host = entry
KnownInv == disturbed \cap {"late", "together"} = {} => KnownFits

------------------------------------------------------------------------------
(* Types. *)

LEMMA InitBase == Init => BaseInv
<1> SUFFICES ASSUME Init PROVE BaseInv
  OBVIOUS
<1>1. NoBroker \in Host /\ NewCell \in Cell
  BY SessionAssumption DEF NoBroker, NewCell, Host, Cell, Processes, Hosts, NoProcess, NoHost
<1>2. TypeOK
  BY <1>1, SessionAssumption DEF Init, TypeOK, NoOp, NoHost, NoProcess
<1>3. HostKnown /\ OpFits /\ MainFits /\ StartedFits /\ ResultFits /\ FreshFits
  BY DEF Init, HostKnown, OpFits, MainFits, StartedFits, ResultFits, FreshFits, NoBroker, NewCell,
         Under
<1> QED BY <1>2, <1>3 DEF BaseInv

\* What runCell and execute do to their own cell.
LEMMA CheckedTyped ==
  ASSUME NEW cell \in Cell, NEW h \in Hosts, NEW step \in {"bind", "user"}
  PROVE  Checked(cell, h, step) \in Cell
BY DEF Checked, Ended, Cell

\* A cell whose thread has ended is otherwise as it was.
LEMMA ThreadlessFields ==
  ASSUME NEW cell \in Cell
  PROVE  LET x == Threadless(cell) IN
         /\ x \in Cell /\ x.thread = "none" /\ x.number = 0
         /\ x.host = cell.host /\ x.phase = cell.phase /\ x.step = cell.step
         /\ x.bound = cell.bound /\ x.ran = cell.ran /\ x.result = cell.result
         /\ x.epoch = cell.epoch
BY DEF Threadless, Cell

\* A reply is one of the broker's words.
Words == {"ok", "unknown", "died", "failed"}

LEMMA ReplyTyped ==
  ASSUME TypeOK, NEW c \in Cells, cells[c].host \in Hosts, hosts' \in [Hosts -> Host],
         NEW result \in Words, Reply(c, result)
  PROVE  cells' \in [Cells -> Cell]
<1> DEFINE cell == cells[c]
           quiet == Threadless(cell)
           idle == [quiet EXCEPT !.epoch = hosts'[cell.host].epoch]
<1>1. cell \in Cell /\ hosts'[cell.host] \in Host
  BY DEF TypeOK
<1>2. quiet \in Cell
  BY <1>1, ThreadlessFields
<1>3. idle \in Cell
  <2> HIDE DEF quiet
  <2> QED BY <1>1, <1>2 DEF Cell, Host
<1>4. Ended(idle, result) \in Cell /\ Ended(idle, "failed") \in Cell
      /\ [idle EXCEPT !.phase = "checked", !.step = "user"] \in Cell
  <2> HIDE DEF idle
  <2> QED BY <1>3 DEF Cell, Ended, Words
<1>5. Answered(cell, result) \in Cell
  BY <1>4 DEF Answered
<1> QED BY <1>2, <1>5 DEF Reply, TypeOK

\* What the steps below write into a broker's record.
LEMMA BrokerTyped ==
  ASSUME NEW b \in Host, NEW epoch \in Nat, NEW km \in Processes \cup {NoProcess},
         NEW live \in SUBSET Processes, NEW client \in {"none", "made", "ready"},
         NEW main \in {"idle", "relaunch", "connect"}
  PROVE  /\ [b EXCEPT !.state = "up", !.km = km, !.live = live, !.epoch = epoch,
                      !.client = client] \in Host
         /\ [b EXCEPT !.km = km, !.live = live, !.client = client] \in Host
         /\ [b EXCEPT !.live = live, !.main = main, !.client = client] \in Host
         /\ [b EXCEPT !.main = main, !.live = live, !.km = km] \in Host
         /\ [b EXCEPT !.epoch = epoch, !.client = client] \in Host
         /\ [b EXCEPT !.main = main, !.epoch = epoch, !.client = client] \in Host
         /\ [b EXCEPT !.exited = TRUE, !.live = live, !.km = km, !.client = client,
                      !.cellActive = FALSE, !.main = main] \in Host
         /\ [b EXCEPT !.state = "down", !.live = live, !.km = km, !.client = client,
                      !.cellActive = FALSE, !.main = main] \in Host
BY DEF Host

LEMMA ReplyKnown ==
  ASSUME TypeOK, HostKnown, NEW c \in Cells, NEW result, Reply(c, result), cells[c].host \in Hosts
  PROVE  HostKnown'
<1>1. \A d \in Cells : d # c => cells'[d] = cells[d]
  BY DEF Reply, TypeOK
<1>2. cells'[c].host = cells[c].host
  <2>1. Threadless(cells[c]) \in Cell /\ Threadless(cells[c]).host = cells[c].host
    BY ThreadlessFields DEF TypeOK
  <2>2. cells'[c] = IF Under(c, "executing") THEN Answered(cells[c], result)
                    ELSE Threadless(cells[c])
    BY DEF Reply, TypeOK
  <2>3. Answered(cells[c], result).host = cells[c].host
    <3> HIDE DEF Threadless
    <3> QED BY <2>1 DEF Answered, Ended, Cell
  <2> QED BY <2>1, <2>2, <2>3
<1> QED BY <1>1, <1>2 DEF HostKnown

LEMMA TypeEntering ==
  ASSUME TypeOK, HostKnown, NEW c \in Cells,
         Ask(c) \/ Enter(c) \/ Spawn(c) \/ BrokerStarts(c) \/ Publish(c) \/ SpawnFails(c)
  PROVE  TypeOK' /\ HostKnown'
<1>0. cells[c] \in Cell /\ \A h \in Hosts : hosts[h] \in Host
  BY DEF TypeOK
<1>1. CASE Ask(c)
  <2>1. [cells[c] EXCEPT !.phase = "entering"] \in Cell
    BY <1>0 DEF Cell
  <2>2. cells' \in [Cells -> Cell]
    BY <1>1, <2>1 DEF Ask, TypeOK
  <2>3. HostKnown'
    BY <1>1 DEF Ask, TypeOK, HostKnown
  <2> QED BY <1>1, <2>2, <2>3 DEF Ask, TypeOK
<1>2. CASE Enter(c)
  <2>1. entry \in Hosts
    BY <1>2 DEF Enter, TypeOK
  <2>2. Checked(cells[c], entry, "bind") \in Cell
    BY <1>0, <2>1, CheckedTyped
  <2>3. cells' \in [Cells -> Cell]
    BY <1>2, <2>2 DEF Enter, TypeOK
  <2>4. HostKnown'
    BY <1>0, <1>2, <2>1 DEF Enter, TypeOK, HostKnown, Checked, Ended, Cell
  <2> QED BY <1>2, <2>3, <2>4 DEF Enter, TypeOK
<1>3. CASE Spawn(c)
  <2>1. PICK h \in Hosts : /\ hosts' = [hosts EXCEPT ![h].state = "starting"]
                           /\ cells' = [cells EXCEPT ![c].phase = "spawning", ![c].host = h]
    BY <1>3 DEF Spawn
  <2>2. [hosts[h] EXCEPT !.state = "starting"] \in Host
    BY <1>0 DEF Host
  <2>3. [cells[c] EXCEPT !.phase = "spawning", !.host = h] \in Cell
    BY <1>0 DEF Cell
  <2>4. hosts' \in [Hosts -> Host] /\ cells' \in [Cells -> Cell]
    BY <2>1, <2>2, <2>3 DEF TypeOK
  <2>5. HostKnown'
    BY <2>1 DEF TypeOK, HostKnown
  <2> QED BY <1>3, <2>4, <2>5 DEF Spawn, TypeOK
<1>4. CASE BrokerStarts(c)
  <2> DEFINE h == cells[c].host
  <2>1. h \in Hosts /\ processes' \in Processes
    BY <1>4, SessionAssumption DEF BrokerStarts, NewProcess, Under, HostKnown, TypeOK, Processes,
                                   NoProcess
  <2>2. [hosts[h] EXCEPT !.state = "up", !.km = processes', !.live = {processes'},
                         !.epoch = 1, !.client = "ready"] \in Host
    <3>1. {processes'} \in SUBSET Processes /\ 1 \in Nat
      BY <2>1
    <3> QED BY <1>0, <2>1, <3>1, BrokerTyped
  <2>3. hosts' \in [Hosts -> Host]
    BY <1>4, <2>1, <2>2 DEF BrokerStarts, TypeOK
  <2> QED BY <1>4, <2>1, <2>3 DEF BrokerStarts, TypeOK, HostKnown
<1>5. CASE Publish(c)
  <2>1. cells[c].host \in Hosts
    BY <1>5 DEF Publish, Under, HostKnown
  <2>2. Checked(cells[c], cells[c].host, "bind") \in Cell
    BY <1>0, <2>1, CheckedTyped
  <2>3. cells' \in [Cells -> Cell]
    BY <1>5, <2>2 DEF Publish, TypeOK
  <2>4. HostKnown'
    BY <1>0, <1>5, <2>1 DEF Publish, TypeOK, HostKnown, Checked, Ended, Cell
  <2> QED BY <1>5, <2>1, <2>3, <2>4 DEF Publish, TypeOK
<1>6. CASE SpawnFails(c)
  <2> DEFINE h == cells[c].host
  <2>1. h \in Hosts
    BY <1>6 DEF SpawnFails, Under, HostKnown
  <2>2. [hosts[h] EXCEPT !.state = "down", !.live = {}] \in Host
    BY <1>0, <2>1 DEF Host
  <2>3. [cells[c] EXCEPT !.phase = "done", !.result = "failed"] \in Cell
    BY <1>0 DEF Cell
  <2>4. cells' \in [Cells -> Cell] /\ hosts' \in [Hosts -> Host]
    BY <1>6, <2>1, <2>2, <2>3 DEF SpawnFails, TypeOK
  <2>5. HostKnown'
    BY <1>6 DEF SpawnFails, TypeOK, HostKnown
  <2> QED BY <1>6, <2>4, <2>5, SessionAssumption DEF SpawnFails, Fault, TypeOK
<1> QED BY <1>1, <1>2, <1>3, <1>4, <1>5, <1>6

\* A host that a cell holds active, or frees, is otherwise as it was.
LEMMA FreedTyped ==
  ASSUME NEW c, NEW broker \in Host
  PROVE  Freed(c, broker) \in Host
BY DEF Freed, Host

LEMMA TypeServing ==
  ASSUME TypeOK, HostKnown, NEW c \in Cells,
         Send(c) \/ Dispatch(c) \/ Finish(c) \/ SeesDeath(c) \/ Overruns(c)
  PROVE  TypeOK' /\ HostKnown'
<1> DEFINE h == cells[c].host
<1>0. cells[c] \in Cell /\ \A g \in Hosts : hosts[g] \in Host
  BY DEF TypeOK
<1>1. CASE Send(c)
  <2>1. h \in Hosts
    BY <1>1 DEF Send, Under, HostKnown
  <2>2. Ended(cells[c], "failed") \in Cell /\ Ended(cells[c], "failed").host = h
        /\ [cells[c] EXCEPT !.phase = "executing", !.thread = "none"] \in Cell
    BY <1>0 DEF Ended, Cell
  <2>3. [hosts[h] EXCEPT !.cellActive = TRUE] \in Host
    BY <1>0, <2>1 DEF Host
  <2>4. cells' \in [Cells -> Cell] /\ hosts' \in [Hosts -> Host]
    BY <1>1, <2>1, <2>2, <2>3 DEF Send, TypeOK
  <2>5. HostKnown'
    <3>1. cells'[c].host = h /\ \A d \in Cells \ {c} : cells'[d] = cells[d]
      BY <1>1, <2>2 DEF Send, TypeOK, Cell
    <3> QED BY <2>1, <3>1 DEF HostKnown
  <2> QED BY <1>1, <2>4, <2>5 DEF Send, TypeOK
<1>2. CASE Dispatch(c)
  <2>1. h \in Hosts /\ hosts[h].km \in Processes \cup {NoProcess}
    BY <1>0, <1>2 DEF Dispatch, Waiting, Under, HostKnown, Host
  <2>2. CASE hosts' = [hosts EXCEPT ![h] = Freed(c, @)] /\ Reply(c, "failed")
    <3>1. hosts' \in [Hosts -> Host]
      BY <1>0, <2>1, <2>2, FreedTyped DEF TypeOK
    <3>2. cells' \in [Cells -> Cell] /\ HostKnown'
      BY <2>1, <2>2, <3>1, ReplyTyped, ReplyKnown DEF Words
    <3> QED BY <1>2, <3>1, <3>2 DEF Dispatch, TypeOK
  <2>3. CASE cells' = [cells EXCEPT ![c].thread = "kill", ![c].number = hosts[h].epoch]
             /\ UNCHANGED hosts
    <3>1. [cells[c] EXCEPT !.thread = "kill", !.number = hosts[h].epoch] \in Cell
      BY <1>0, <2>1 DEF Cell, Host
    <3>2. cells' \in [Cells -> Cell]
      BY <2>3, <3>1 DEF TypeOK
    <3>3. HostKnown'
      BY <2>1, <2>3 DEF TypeOK, HostKnown
    <3> QED BY <1>2, <2>3, <3>2, <3>3 DEF Dispatch, TypeOK
  <2>4. CASE /\ cells' = [cells EXCEPT ![c].thread = "run", ![c].mid = TRUE,
                       ![c].bound = IF cells[c].step = "bind" THEN hosts[h].km ELSE @,
                       ![c].ran = IF cells[c].step = "user" THEN hosts[h].km ELSE @]
             /\ UNCHANGED hosts
    <3> DEFINE x == [cells[c] EXCEPT !.thread = "run", !.mid = TRUE,
                       !.bound = IF cells[c].step = "bind" THEN hosts[h].km ELSE @,
                       !.ran = IF cells[c].step = "user" THEN hosts[h].km ELSE @]
    <3>1. x \in Cell /\ x.host = h
      BY <1>0, <2>1 DEF Cell
    <3>2. cells' = [cells EXCEPT ![c] = x]
      BY <2>4 DEF TypeOK
    <3>3. cells' \in [Cells -> Cell]
      BY <3>1, <3>2 DEF TypeOK
    <3>4. HostKnown'
      BY <2>1, <3>1, <3>2 DEF TypeOK, HostKnown
    <3> QED BY <1>2, <2>4, <3>3, <3>4 DEF Dispatch, TypeOK
  <2> QED BY <1>2, <2>2, <2>3, <2>4 DEF Dispatch
<1>3. CASE Finish(c)
  <2>1. h \in Hosts
    BY <1>3 DEF Finish, HostKnown
  <2>2. PICK result \in {"ok", "failed"} : /\ hosts' = [hosts EXCEPT ![h] = Freed(c, @)]
                                           /\ Reply(c, result) /\ known' = KnownAfter(c, result)
    BY <1>3 DEF Finish
  <2>3. hosts' \in [Hosts -> Host]
    BY <1>0, <2>1, <2>2, FreedTyped DEF TypeOK
  <2>4. cells' \in [Cells -> Cell] /\ HostKnown'
    BY <2>1, <2>2, <2>3, ReplyTyped, ReplyKnown DEF Words
  <2>5. known' \in Processes \cup {NoProcess}
    BY <1>0, <2>2 DEF KnownAfter, TypeOK, Cell
  <2> QED BY <1>3, <2>3, <2>4, <2>5 DEF Finish, TypeOK
<1>4. CASE SeesDeath(c) \/ Overruns(c)
  <2>1. /\ [cells[c] EXCEPT !.thread = "kill"] \in Cell
        /\ SeesDeath(c) => [cells[c] EXCEPT !.thread = "kill", !.number = hosts[h].epoch] \in Cell
    BY <1>0 DEF Cell, Host, SeesDeath, HostKnown
  <2>2. cells' \in [Cells -> Cell]
    BY <1>4, <2>1 DEF SeesDeath, Overruns, TypeOK
  <2>3. HostKnown'
    <3>1. h \in Hosts
      BY <1>4 DEF SeesDeath, Overruns, HostKnown
    <3>2. cells'[c].host = h /\ \A d \in Cells \ {c} : cells'[d] = cells[d]
      BY <1>0, <1>4 DEF SeesDeath, Overruns, TypeOK, Cell
    <3> QED BY <3>1, <3>2 DEF HostKnown
  <2> QED BY <1>4, <2>2, <2>3 DEF SeesDeath, Overruns, TypeOK
<1> QED BY <1>1, <1>2, <1>3, <1>4

LEMMA TypeResetting ==
  ASSUME TypeOK, HostKnown, NEW c \in Cells,
         \/ Kill(c) \/ Launch(c) \/ Replace(c) \/ ReplaceFails(c) \/ Note(c) \/ Report(c)
         \/ HostTimesOut(c) \/ Return(c)
  PROVE  TypeOK' /\ HostKnown'
<1> DEFINE h == cells[c].host
<1>0. cells[c] \in Cell /\ \A g \in Hosts : hosts[g] \in Host
  BY DEF TypeOK
<1>t. \A thread \in {"start", "wait", "started", "report"}, number \in Nat :
        LET x == [cells[c] EXCEPT !.thread = thread, !.number = number] IN
        x \in Cell /\ x.host = h /\ [cells[c] EXCEPT !.thread = thread] \in Cell
  BY <1>0 DEF Cell
<1>r. cells[c].number \in Nat /\ (h \in Hosts => hosts[h].epoch \in Nat)
  BY <1>0 DEF Cell, Host
<1>u. ASSUME NEW thread \in {"start", "wait", "started", "report"},
             cells[c].thread # "none",
             \/ cells' = [cells EXCEPT ![c].thread = thread]
             \/ \E number \in Nat :
                  cells' = [cells EXCEPT ![c].thread = thread, ![c].number = number]
      PROVE  h \in Hosts /\ cells' \in [Cells -> Cell] /\ HostKnown'
  <2>1. h \in Hosts
    BY <1>u DEF HostKnown
  <2>2. cells' \in [Cells -> Cell]
    <3>1. CASE cells' = [cells EXCEPT ![c].thread = thread]
      BY <1>r, <1>t, <3>1 DEF TypeOK
    <3>2. CASE \E number \in Nat :
                 cells' = [cells EXCEPT ![c].thread = thread, ![c].number = number]
      <4>1. PICK number \in Nat :
               cells' = [cells EXCEPT ![c].thread = thread, ![c].number = number]
        BY <3>2
      <4> DEFINE x == [cells[c] EXCEPT !.thread = thread, !.number = number]
      <4>2. x \in Cell
        BY <1>t
      <4>3. cells' = [cells EXCEPT ![c] = x]
        BY <4>1
      <4> HIDE DEF x
      <4> QED BY <4>2, <4>3 DEF TypeOK
    <3> QED BY <1>u, <3>1, <3>2
  <2>3. \A d \in Cells : d # c => cells'[d] = cells[d]
    BY <1>u DEF TypeOK
  <2>4. cells'[c].host = h
    BY <1>0, <1>u DEF TypeOK, Cell
  <2> QED BY <2>1, <2>2, <2>3, <2>4 DEF HostKnown
<1>1. CASE Kill(c)
  <2>1. h \in Hosts /\ cells' \in [Cells -> Cell] /\ HostKnown'
    BY <1>1, <1>u DEF Kill
  <2>2. [hosts[h] EXCEPT !.live = @ \ {hosts[h].km}, !.km = NoProcess, !.client = "none"] \in Host
    BY <1>0, <2>1 DEF Host
  <2> QED BY <1>1, <2>1, <2>2 DEF Kill, TypeOK
<1>2. CASE Launch(c)
  <2> DEFINE y == [hosts[h] EXCEPT !.km = processes', !.live = @ \cup {processes'},
                                  !.client = "made"]
  <2>1. AfterStart(c) \in {"started", "report"}
    BY DEF AfterStart
  <2>2. h \in Hosts /\ cells' \in [Cells -> Cell] /\ HostKnown'
    BY <1>2, <1>u, <2>1 DEF Launch
  <2>3. CASE NewProcess /\ hosts' = [hosts EXCEPT ![h] = y]
    <3>1. processes' \in Processes
      BY <2>3, SessionAssumption DEF NewProcess, TypeOK, Processes, NoProcess
    <3>2. hosts[h].live \cup {processes'} \in SUBSET Processes
      BY <1>0, <2>2, <3>1 DEF Host
    <3>3. y \in Host
      BY <1>0, <2>2, <3>1, <3>2, BrokerTyped
    <3> QED BY <1>2, <2>2, <2>3, <3>1, <3>3 DEF Launch, TypeOK
  <2>4. CASE UNCHANGED <<hosts, processes>>
    BY <1>2, <2>2, <2>4 DEF Launch, TypeOK
  <2> QED BY <1>2, <2>3, <2>4 DEF Launch
<1>3. CASE Replace(c)
  <2> DEFINE y == [hosts[h] EXCEPT !.epoch = @ + 1, !.client = "ready"]
  <2>1. AfterStart(c) \in {"started", "report"}
    BY DEF AfterStart
  <2>2. h \in Hosts /\ cells' \in [Cells -> Cell] /\ HostKnown'
    BY <1>3, <1>u, <2>1 DEF Replace
  <2>3. y \in Host
    <3>1. hosts[h].epoch + 1 \in Nat
      BY <1>r, <2>2
    <3> QED BY <1>0, <2>2, <3>1, BrokerTyped
  <2> QED BY <1>3, <2>2, <2>3 DEF Replace, TypeOK
<1>4. CASE ReplaceFails(c)
  <2>1. PICK number \in Nat :
          cells' = [cells EXCEPT ![c].thread = "report", ![c].number = number]
    <3>1. cells' = [cells EXCEPT ![c].thread = "report",
                      ![c].number = IF cells[c].number = 0 THEN 0 ELSE cells[c].number + 1]
      BY <1>4 DEF ReplaceFails
    <3>2. PICK number \in Nat : number = IF cells[c].number = 0 THEN 0 ELSE cells[c].number + 1
      BY <1>r
    <3> QED BY <3>1, <3>2
  <2>2. h \in Hosts /\ cells' \in [Cells -> Cell] /\ HostKnown'
    BY <1>4, <1>u, <2>1 DEF ReplaceFails
  <2>3. [hosts[h] EXCEPT !.client = "none"] \in Host
    BY <1>0, <2>2 DEF Host
  <2>4. hosts' \in [Hosts -> Host]
    BY <1>4, <2>2, <2>3 DEF ReplaceFails, TypeOK
  <2>5. faults' \in 0..MaxFaults
    BY <1>4, SessionAssumption DEF ReplaceFails, Fault, TypeOK
  <2> QED BY <1>4, <2>2, <2>4, <2>5 DEF ReplaceFails, TypeOK
<1>5. CASE Note(c)
  <2>1. h \in Hosts
    BY <1>5 DEF Note, HostKnown
  <2>2. h \in Hosts /\ cells' \in [Cells -> Cell] /\ HostKnown'
    BY <1>5, <1>r, <1>u, <2>1 DEF Note
  <2> QED BY <1>5, <2>2 DEF Note, TypeOK
<1>6. CASE Report(c)
  <2> DEFINE number == IF cells[c].number = 0 THEN hosts[h].epoch ELSE cells[c].number
             y == [hosts[h] EXCEPT !.epoch = number]
  <2>1. h \in Hosts /\ Verdict(c) \in Words
    BY <1>6 DEF Report, HostKnown, Verdict, Words
  <2>2. number \in Nat
    BY <1>r, <2>1
  <2>3. y \in Host
    <3> HIDE DEF number
    <3> QED BY <1>0, <2>1, <2>2 DEF Host
  <2>4. hosts' = [hosts EXCEPT ![h] = Freed(c, y)]
    BY <1>6 DEF Report
  <2>5. hosts' \in [Hosts -> Host]
    BY <2>1, <2>3, <2>4, FreedTyped DEF TypeOK
  <2>6. cells' \in [Cells -> Cell] /\ HostKnown'
    BY <1>6, <2>1, <2>5, ReplyTyped, ReplyKnown DEF Report
  <2>7. known' \in Processes \cup {NoProcess}
    BY <1>0, <1>6 DEF Report, KnownAfter, TypeOK, Cell
  <2> QED BY <1>6, <2>5, <2>6, <2>7 DEF Report, TypeOK
<1>7. CASE HostTimesOut(c)
  <2>1. h \in Hosts
    BY <1>7 DEF HostTimesOut, Under, HostKnown
  <2>2. [hosts[h] EXCEPT !.cellActive = FALSE] \in Host
    BY <1>0, <2>1 DEF Host
  <2>3. Ended(cells[c], "failed") \in Cell /\ Ended(cells[c], "failed").host = h
    BY <1>0 DEF Ended, Cell
  <2>4. cells' \in [Cells -> Cell] /\ hosts' \in [Hosts -> Host]
    BY <1>7, <2>1, <2>2, <2>3 DEF HostTimesOut, TypeOK
  <2>5. HostKnown'
    BY <1>7, <2>1, <2>3 DEF HostTimesOut, TypeOK, HostKnown
  <2> QED BY <1>7, <2>4, <2>5, SessionAssumption DEF HostTimesOut, Fault, TypeOK
<1>8. CASE Return(c)
  <2>1. [cells[c] EXCEPT !.phase = "done"] \in Cell
    BY <1>0 DEF Cell
  <2>2. cells' \in [Cells -> Cell]
    BY <1>8, <2>1 DEF Return, TypeOK
  <2>3. HostKnown'
    BY <1>8 DEF Return, TypeOK, HostKnown
  <2> QED BY <1>8, <2>2, <2>3 DEF Return, TypeOK
<1> QED BY <1>1, <1>2, <1>3, <1>4, <1>5, <1>6, <1>7, <1>8

\* What failAll does to each cell.
LEMMA AllFailed ==
  ASSUME TypeOK, NEW h \in Hosts, cells' = AllFail(h)
  PROVE  /\ cells' \in [Cells -> Cell]
         /\ HostKnown => HostKnown'
         /\ \A c \in Cells :
              /\ Executing(c, h) => cells'[c] = Ended(Threadless(cells[c]), "failed")
              /\ ~Executing(c, h) /\ cells[c].host = h => cells'[c] = Threadless(cells[c])
              /\ cells[c].host # h => cells'[c] = cells[c]
<1>1. \A c \in Cells : AllFail(h)[c] \in Cell
  <2> SUFFICES ASSUME NEW c \in Cells PROVE AllFail(h)[c] \in Cell
    OBVIOUS
  <2>1. cells[c] \in Cell
    BY DEF TypeOK
  <2>2. Threadless(cells[c]) \in Cell
    BY <2>1, ThreadlessFields
  <2>3. Ended(Threadless(cells[c]), "failed") \in Cell
    BY <2>2 DEF Cell, Ended
  <2> QED BY <2>1, <2>2, <2>3 DEF AllFail
<1>2. cells' \in [Cells -> Cell]
  BY <1>1 DEF AllFail
<1>3. \A c \in Cells : cells[c].host # h => ~Executing(c, h)
  BY DEF Executing
<1>4. ASSUME HostKnown, NEW c \in Cells
      PROVE  /\ cells'[c].host = cells[c].host
             /\ cells'[c].thread # "none" => cells[c].thread # "none"
             /\ cells'[c].phase \in {cells[c].phase, "closing"}
  <2> DEFINE x == Threadless(cells[c])
  <2>1. x \in Cell /\ x.host = cells[c].host /\ x.thread = "none" /\ x.phase = cells[c].phase
    BY ThreadlessFields DEF TypeOK
  <2>2. cells'[c] \in {Ended(x, "failed"), x, cells[c]}
    BY DEF AllFail
  <2>3. LET y == Ended(x, "failed") IN
        y.host = x.host /\ y.thread = "none" /\ y.phase = "closing"
    <3> HIDE DEF x
    <3> QED BY <2>1 DEF Ended, Cell
  <2> QED BY <2>1, <2>2, <2>3
<1>5. HostKnown => HostKnown'
  BY <1>4 DEF HostKnown
<1> QED BY <1>2, <1>3, <1>5 DEF AllFail

LEMMA TypeOwner ==
  ASSUME TypeOK, HostKnown, OpFits, OwnerStep
  PROVE  TypeOK' /\ HostKnown'
<1> DEFINE h == op.host
<1>0. \A g \in Hosts : hosts[g] \in Host
  BY DEF TypeOK
<1>1. CASE \E kind \in Retires : Begin(kind)
  <2>1. PICK kind \in {"restart", "evict"} : Begin(kind)
    BY <1>1, SessionAssumption
  <2>2. commands' \in 0..MaxCommands
    BY <2>1, SessionAssumption DEF Begin, TypeOK
  <2>3. op' \in [kind : {"none", "restart", "evict"}, host : Hosts \cup {NoHost},
                 stage : {"none", "leases", "sent", "restarting", "stopping"},
                 kernel : Processes \cup {NoProcess}]
    BY <2>1 DEF Begin, TypeOK, NoOp
  <2> QED BY <2>1, <2>2, <2>3 DEF Begin, TypeOK, HostKnown
<1>2. CASE RequestRestart
  <2>1. op' \in {NoOp, [op EXCEPT !.stage = "sent"]}
    BY <1>2 DEF RequestRestart
  <2> QED BY <1>2, <2>1 DEF RequestRestart, TypeOK, HostKnown, NoOp, NoHost, NoProcess
<1>3. CASE RestartKills
  <2>1. h \in Hosts
    BY <1>3 DEF RestartKills, OpFits, NoOp
  <2>2. [hosts[h] EXCEPT !.live = @ \ {hosts[h].km}, !.main = "relaunch",
                         !.client = IF @ = "none" THEN @ ELSE "made"] \in Host
    <3>1. PICK live \in SUBSET Processes : live = hosts[h].live \ {hosts[h].km}
      BY <1>0, <2>1 DEF Host
    <3>2. PICK client \in {"none", "made", "ready"} :
             client = IF hosts[h].client = "none" THEN hosts[h].client ELSE "made"
      OBVIOUS
    <3>3. [hosts[h] EXCEPT !.live = live, !.main = "relaunch", !.client = client] \in Host
      BY <1>0, <2>1, BrokerTyped
    <3> QED BY <3>1, <3>2, <3>3
  <2>3. hosts' \in [Hosts -> Host]
    BY <1>3, <2>1, <2>2 DEF RestartKills, TypeOK
  <2>4. op' \in {NoOp, [op EXCEPT !.stage = "restarting", !.kernel = hosts[h].km]}
        /\ hosts[h].km \in Processes \cup {NoProcess}
    BY <1>0, <1>3, <2>1 DEF RestartKills, Host
  <2>5. op' \in [kind : {"none", "restart", "evict"}, host : Hosts \cup {NoHost},
                 stage : {"none", "leases", "sent", "restarting", "stopping"},
                 kernel : Processes \cup {NoProcess}]
    <3>1. [op EXCEPT !.stage = "restarting", !.kernel = hosts[h].km] \in
             [kind : {"none", "restart", "evict"}, host : Hosts \cup {NoHost},
              stage : {"none", "leases", "sent", "restarting", "stopping"},
              kernel : Processes \cup {NoProcess}]
      BY <2>4 DEF TypeOK
    <3>2. NoOp \in [kind : {"none", "restart", "evict"}, host : Hosts \cup {NoHost},
                    stage : {"none", "leases", "sent", "restarting", "stopping"},
                    kernel : Processes \cup {NoProcess}]
      BY DEF NoOp
    <3> QED BY <2>4, <3>1, <3>2
  <2> QED BY <1>3, <2>3, <2>5 DEF RestartKills, TypeOK, HostKnown
<1>4. CASE Relaunch
  <2> DEFINE km == IF hosts[h].km = op.kernel THEN processes' ELSE hosts[h].km
             y == [hosts[h] EXCEPT !.main = "connect", !.live = @ \cup {processes'}, !.km = km]
  <2>1. h \in Hosts
    BY <1>4 DEF Relaunch, OpFits, NoOp
  <2>2. processes' \in Processes
    BY <1>4, SessionAssumption DEF Relaunch, NewProcess, TypeOK, Processes, NoProcess
  <2>3. y \in Host
    <3>1. km \in Processes \cup {NoProcess} /\ hosts[h].live \cup {processes'} \in SUBSET Processes
      BY <1>0, <2>1, <2>2 DEF Host
    <3> HIDE DEF km
    <3> QED BY <1>0, <2>1, <3>1, BrokerTyped
  <2>4. hosts' = [hosts EXCEPT ![h] = y]
    BY <1>0, <1>4, <2>1 DEF Relaunch, TypeOK
  <2> QED BY <1>4, <2>1, <2>2, <2>3, <2>4 DEF Relaunch, TypeOK, HostKnown
<1>5. CASE Connect
  <2> DEFINE y == [hosts[h] EXCEPT !.main = "idle", !.epoch = @ + 1, !.client = "ready"]
  <2>1. h \in Hosts
    BY <1>5 DEF Connect, OpFits, NoOp
  <2>2. y \in Host
    <3>1. hosts[h].epoch + 1 \in Nat
      BY <1>0, <2>1 DEF Host
    <3> QED BY <1>0, <2>1, <3>1, BrokerTyped
  <2> QED BY <1>5, <2>1, <2>2 DEF Connect, TypeOK, HostKnown, NoOp, NoHost, NoProcess
<1>9. CASE ConnectFails
  <2>1. h \in Hosts /\ faults' \in 0..MaxFaults
    BY <1>9, SessionAssumption DEF ConnectFails, OpFits, NoOp, Fault, TypeOK
  <2>2. [hosts[h] EXCEPT !.main = "idle"] \in Host
    BY <1>0, <2>1 DEF Host
  <2> QED BY <1>9, <2>1, <2>2 DEF ConnectFails, TypeOK, HostKnown, NoOp, NoHost, NoProcess
<1>6. CASE Stop
  <2>1. h \in Hosts
    BY <1>6 DEF Stop, OpFits, NoOp
  <2>2. [hosts[h] EXCEPT !.state = "stopping"] \in Host
    BY <1>0, <2>1 DEF Host
  <2>3. hosts' \in [Hosts -> Host]
    BY <1>6, <2>1, <2>2 DEF Stop, TypeOK
  <2> QED BY <1>6, <2>3 DEF Stop, TypeOK, HostKnown
<1>7. CASE BrokerShutsDown
  <2>1. h \in Hosts
    BY <1>7 DEF BrokerShutsDown, OpFits, NoOp
  <2>2. [hosts[h] EXCEPT !.live = @ \ {hosts[h].km}, !.km = NoProcess, !.client = "none"] \in Host
    BY <1>0, <2>1 DEF Host
  <2>3. hosts' \in [Hosts -> Host]
    BY <1>7, <2>1, <2>2 DEF BrokerShutsDown, TypeOK
  <2> QED BY <1>7, <2>3 DEF BrokerShutsDown, TypeOK, HostKnown
<1>8. CASE Terminate
  <2>1. h \in Hosts
    BY <1>8 DEF Terminate, OpFits, NoOp
  <2>2. [hosts[h] EXCEPT !.state = "down", !.live = {}, !.km = NoProcess,
                         !.client = "none", !.cellActive = FALSE, !.main = "idle"] \in Host
    <3>1. {} \in SUBSET Processes
      OBVIOUS
    <3> QED BY <1>0, <2>1, <3>1, BrokerTyped
  <2>3. hosts' \in [Hosts -> Host]
    BY <1>8, <2>1, <2>2 DEF Terminate, TypeOK
  <2>4. cells' \in [Cells -> Cell] /\ HostKnown'
    BY <1>8, <2>1, AllFailed DEF Terminate
  <2> QED BY <1>8, <2>3, <2>4 DEF Terminate, TypeOK, NoOp, NoHost, NoProcess
<1> QED BY <1>1, <1>2, <1>3, <1>4, <1>5, <1>6, <1>7, <1>8, <1>9 DEF OwnerStep

LEMMA TypeFaults ==
  ASSUME TypeOK, HostKnown, NEW h \in Hosts, KernelDies(h) \/ BrokerExits(h)
  PROVE  TypeOK' /\ HostKnown'
<1>0. hosts[h] \in Host /\ faults' \in 0..MaxFaults
  BY SessionAssumption DEF TypeOK, KernelDies, BrokerExits, Fault
<1>1. CASE KernelDies(h)
  <2>1. [hosts[h] EXCEPT !.live = @ \ {hosts[h].km}] \in Host
    BY <1>0 DEF Host
  <2>2. hosts' \in [Hosts -> Host]
    BY <1>1, <2>1 DEF KernelDies, TypeOK
  <2> QED BY <1>0, <1>1, <2>2 DEF KernelDies, TypeOK, HostKnown
<1>2. CASE BrokerExits(h)
  <2>1. [hosts[h] EXCEPT !.exited = TRUE, !.live = {}, !.km = NoProcess,
                         !.client = "none", !.cellActive = FALSE, !.main = "idle"] \in Host
    <3>1. {} \in SUBSET Processes
      OBVIOUS
    <3> QED BY <1>0, <3>1, BrokerTyped
  <2>2. hosts' \in [Hosts -> Host]
    BY <1>2, <2>1 DEF BrokerExits, TypeOK
  <2>3. cells' \in [Cells -> Cell] /\ HostKnown'
    BY <1>2, AllFailed DEF BrokerExits
  <2>4. op' \in {NoOp, op}
    BY <1>2 DEF BrokerExits
  <2> QED BY <1>0, <1>2, <2>2, <2>3, <2>4 DEF BrokerExits, TypeOK, NoOp, NoHost, NoProcess
<1> QED BY <1>1, <1>2


------------------------------------------------------------------------------
(* What becomes of a cell and of a host. *)

\* A reply touches its own cell, and only a cell that waits for it.
LEMMA Replied ==
  ASSUME TypeOK, NEW c \in Cells, cells[c].host \in Hosts, NEW result, Reply(c, result)
  PROVE  /\ \A d \in Cells \ {c} : cells'[d] = cells[d]
         /\ cells'[c].thread = "none" /\ cells'[c].number = 0 /\ cells'[c].host = cells[c].host
         /\ cells'[c].bound = cells[c].bound /\ cells'[c].ran = cells[c].ran
         /\ ~Under(c, "executing") => /\ cells'[c].phase = cells[c].phase
                                      /\ cells'[c].step = cells[c].step
                                      /\ cells'[c].result = cells[c].result
                                      /\ cells'[c].epoch = cells[c].epoch
         /\ Under(c, "executing") =>
              \/ /\ cells'[c].phase = "checked" /\ cells'[c].step = "user"
                 /\ cells[c].step = "bind" /\ result = "ok" /\ cells'[c].result = cells[c].result
              \/ /\ cells'[c].phase = "closing" /\ cells'[c].step = cells[c].step
                 /\ cells'[c].epoch = hosts'[cells[c].host].epoch
                 /\ \/ cells'[c].result = "failed"
                    \/ /\ cells'[c].result = result
                       /\ cells[c].step = "user" \/ result # "ok"
<1> DEFINE cell == cells[c]
           quiet == Threadless(cell)
           idle == [quiet EXCEPT !.epoch = hosts'[cell.host].epoch]
<1>1. cell \in Cell
  BY DEF TypeOK
<1>2. /\ \A d \in Cells \ {c} : cells'[d] = cells[d]
      /\ Under(c, "executing") => cells'[c] = Answered(cell, result)
      /\ ~Under(c, "executing") => cells'[c] = quiet
  BY DEF Reply, TypeOK
<1>3. /\ quiet \in Cell /\ quiet.thread = "none" /\ quiet.number = 0 /\ quiet.host = cell.host
      /\ quiet.bound = cell.bound /\ quiet.ran = cell.ran /\ quiet.phase = cell.phase
      /\ quiet.step = cell.step /\ quiet.result = cell.result /\ quiet.epoch = cell.epoch
  BY <1>1, ThreadlessFields
<1>4. \/ /\ Answered(cell, result) = [idle EXCEPT !.phase = "checked", !.step = "user"]
         /\ cell.step = "bind" /\ result = "ok"
      \/ Answered(cell, result) = Ended(idle, "failed")
      \/ Answered(cell, result) = Ended(idle, result) /\ (cell.step = "user" \/ result # "ok")
  <2>1. cell.step \in {"bind", "user"}
    BY <1>1 DEF Cell
  <2> HIDE DEF cell
  <2> QED BY <2>1 DEF Answered
<1>5. \A r : LET x == Ended(idle, r) IN
        /\ x.thread = "none" /\ x.number = 0 /\ x.host = cell.host /\ x.bound = cell.bound
        /\ x.ran = cell.ran /\ x.phase = "closing" /\ x.step = cell.step
        /\ x.result = r /\ x.epoch = hosts'[cell.host].epoch
  <2> HIDE DEF quiet
  <2> QED BY <1>3 DEF Cell, Ended
<1>6. LET x == [idle EXCEPT !.phase = "checked", !.step = "user"] IN
        /\ x.thread = "none" /\ x.number = 0 /\ x.host = cell.host /\ x.bound = cell.bound
        /\ x.ran = cell.ran /\ x.phase = "checked" /\ x.step = "user" /\ x.result = cell.result
  <2> HIDE DEF quiet
  <2> QED BY <1>3 DEF Cell
<1> HIDE DEF cell, idle, quiet
<1>8. CASE ~Under(c, "executing")
  BY <1>2, <1>3, <1>8 DEF cell
<1>9. CASE Under(c, "executing")
  <2>1. cells'[c] = Answered(cell, result)
    BY <1>2, <1>9
  <2>2. CASE Answered(cell, result) = [idle EXCEPT !.phase = "checked", !.step = "user"]
             /\ cell.step = "bind" /\ result = "ok"
    BY <1>2, <1>6, <1>9, <2>1, <2>2 DEF cell
  <2>3. CASE Answered(cell, result) = Ended(idle, "failed")
    BY <1>2, <1>5, <1>9, <2>1, <2>3 DEF cell
  <2>4. CASE Answered(cell, result) = Ended(idle, result) /\ (cell.step = "user" \/ result # "ok")
    BY <1>2, <1>5, <1>9, <2>1, <2>4 DEF cell
  <2> QED BY <1>4, <2>2, <2>3, <2>4
<1> QED BY <1>8, <1>9

\* A cell that freed its host changed nothing else of it.
LEMMA FreedFields ==
  ASSUME NEW c, NEW broker \in Host
  PROVE  LET freed == Freed(c, broker) IN
         /\ freed.state = broker.state /\ freed.exited = broker.exited
         /\ freed.epoch = broker.epoch /\ freed.km = broker.km /\ freed.live = broker.live
         /\ freed.client = broker.client /\ freed.main = broker.main
BY DEF Freed, Host

\* execute's tests leave a cell on the host it asked.
LEMMA CheckedFields ==
  ASSUME NEW cell \in Cell, NEW h, NEW step
  PROVE  LET x == Checked(cell, h, step) IN
         /\ x.host = h /\ x.thread = cell.thread /\ x.ran = cell.ran /\ x.bound = cell.bound
         /\ x.number = cell.number /\ x.epoch = cell.epoch
         /\ \/ x.phase = "closing" /\ x.result = "failed" /\ x.step = cell.step
            \/ x.phase = "checked" /\ x.result = cell.result /\ x.step = step
BY DEF Checked, Ended, Cell

\* What a thread does between the request and the report.
Works(c) ==
  \/ SeesDeath(c) \/ Overruns(c) \/ Kill(c) \/ Launch(c) \/ Replace(c) \/ ReplaceFails(c) \/ Note(c)

\* A step of a cell is its own business, and that of its host.
LEMMA OneCell ==
  ASSUME TypeOK, HostKnown, NEW c \in Cells, CellStep(c)
  PROVE  /\ op' = op
         /\ \A d \in Cells \ {c} : cells'[d] = cells[d]
         /\ \A h \in Hosts : h # cells'[c].host => hosts'[h] = hosts[h]
<1>0. cells[c] \in Cell
  BY DEF TypeOK
<1>1. CASE Ask(c) \/ SeesDeath(c) \/ Overruns(c) \/ Note(c) \/ Return(c)
  BY <1>1 DEF Ask, SeesDeath, Overruns, Note, Return, TypeOK
<1>2. CASE Enter(c) \/ Publish(c)
  BY <1>2 DEF Enter, Publish, TypeOK
<1>3. CASE Spawn(c)
  BY <1>0, <1>3 DEF Spawn, TypeOK, Cell
<1>4. CASE BrokerStarts(c)
  BY <1>4 DEF BrokerStarts, TypeOK
<1>5. CASE SpawnFails(c)
  BY <1>0, <1>5 DEF SpawnFails, TypeOK, Cell
<1>6. CASE Send(c) \/ HostTimesOut(c)
  <2>1. Ended(cells[c], "failed").host = cells[c].host
    BY <1>0 DEF Ended, Cell
  <2> QED BY <1>0, <1>6, <2>1 DEF Send, HostTimesOut, TypeOK, Cell
<1>7. CASE Dispatch(c)
  <2>1. cells[c].host \in Hosts
    BY <1>7 DEF Dispatch, Waiting, Under, HostKnown
  <2>2. CASE hosts' = [hosts EXCEPT ![cells[c].host] = Freed(c, @)] /\ Reply(c, "failed")
    BY <1>7, <2>1, <2>2, Replied DEF Dispatch, TypeOK
  <2>3. CASE UNCHANGED hosts
    BY <1>7, <2>1, <2>3, Replied DEF Dispatch, TypeOK
  <2> QED BY <1>7, <2>2, <2>3 DEF Dispatch
<1>8. CASE Finish(c) \/ Report(c)
  <2>1. cells[c].host \in Hosts
    BY <1>8 DEF Finish, Report, HostKnown
  <2>2. PICK result : Reply(c, result)
    BY <1>8 DEF Finish, Report
  <2>3. \A h \in Hosts : h # cells[c].host => hosts'[h] = hosts[h]
    BY <1>8 DEF Finish, Report, TypeOK
  <2> QED BY <1>8, <2>1, <2>2, <2>3, Replied DEF Finish, Report
<1>9. CASE Kill(c) \/ Launch(c) \/ Replace(c) \/ ReplaceFails(c)
  <2>1. cells'[c].host = cells[c].host
    BY <1>0, <1>9 DEF Kill, Launch, Replace, ReplaceFails, TypeOK, Cell
  <2>2. /\ \A d \in Cells \ {c} : cells'[d] = cells[d]
        /\ \A h \in Hosts : h # cells[c].host => hosts'[h] = hosts[h]
    BY <1>9 DEF Kill, Launch, Replace, ReplaceFails, TypeOK
  <2> QED BY <1>9, <2>1, <2>2 DEF Kill, Launch, Replace, ReplaceFails
<1> QED BY <1>1, <1>2, <1>3, <1>4, <1>5, <1>6, <1>7, <1>8, <1>9 DEF CellStep

\* What a cell's step does to the record of its host.
LEMMA HostOfCell ==
  ASSUME TypeOK, HostKnown, NEW c \in Cells, CellStep(c), NEW h \in Hosts
  PROVE  LET old == hosts[h]
             new == hosts'[h]
             same == new.state = old.state /\ new.exited = old.exited /\ new.main = old.main
             kept == new.km = old.km /\ new.live = old.live
             number == cells[c].number
         IN \/ same /\ kept /\ new.epoch = old.epoch /\ new.client = old.client
            \/ /\ Spawn(c) /\ h = cells'[c].host /\ kept /\ new.exited = old.exited
               /\ new.main = old.main /\ new.epoch = old.epoch /\ new.client = old.client
               /\ old.state = "none" /\ new.state = "starting"
            \/ /\ BrokerStarts(c) /\ h = cells[c].host /\ new.exited = old.exited
               /\ new.main = old.main /\ old.state = "starting" /\ new.state = "up"
               /\ new.km = processes' /\ processes' \in Processes /\ new.live = {processes'}
            \/ /\ SpawnFails(c) /\ h = cells[c].host /\ new.state = "down" /\ new.live = {}
               /\ new.exited = old.exited /\ new.main = old.main /\ new.epoch = old.epoch
               /\ new.client = old.client /\ new.km = old.km
            \/ /\ Kill(c) /\ h = cells[c].host /\ same /\ new.epoch = old.epoch
               /\ new.live = old.live \ {old.km} /\ new.km = NoProcess /\ new.client = "none"
            \/ /\ Launch(c) /\ h = cells[c].host /\ same /\ new.epoch = old.epoch
               /\ new.km = processes' /\ processes' \in Processes /\ new.client = "made"
               /\ new.live = old.live \cup {processes'}
            \/ /\ Replace(c) /\ h = cells[c].host /\ same /\ kept
               /\ new.epoch = old.epoch + 1 /\ new.client = "ready"
            \/ /\ ReplaceFails(c) /\ h = cells[c].host /\ same /\ kept
               /\ new.epoch = old.epoch /\ new.client = "none"
            \/ /\ Report(c) /\ h = cells[c].host /\ same /\ kept /\ new.client = old.client
               /\ new.epoch = IF number = 0 THEN old.epoch ELSE number
<1> DEFINE old == hosts[h]
           new == hosts'[h]
           same == new.state = old.state /\ new.exited = old.exited /\ new.main = old.main
           kept == new.km = old.km /\ new.live = old.live
           number == cells[c].number
<1>0. old \in Host /\ cells[c] \in Cell
  BY DEF TypeOK
<1>f. new = old \/ new = Freed(c, old)
      => same /\ kept /\ new.epoch = old.epoch /\ new.client = old.client
  BY <1>0, FreedFields
<1>1. CASE \/ Ask(c) \/ Enter(c) \/ Publish(c) \/ SeesDeath(c) \/ Overruns(c) \/ Note(c)
           \/ Return(c) \/ Dispatch(c) \/ Finish(c)
  <2>1. new = old \/ new = Freed(c, old)
    BY <1>1 DEF Ask, Enter, Publish, SeesDeath, Overruns, Note, Return, Dispatch, Finish, TypeOK
  <2> QED BY <1>f, <2>1
<1>2. CASE Send(c) \/ HostTimesOut(c)
  <2>1. new = old \/ \E b \in BOOLEAN : new = [old EXCEPT !.cellActive = b]
    BY <1>2 DEF Send, HostTimesOut, TypeOK
  <2> QED BY <1>0, <2>1 DEF Host
<1>3. CASE Spawn(c)
  <2>1. PICK g \in Hosts : /\ hosts[g].state = "none"
                           /\ hosts' = [hosts EXCEPT ![g].state = "starting"]
                           /\ cells' = [cells EXCEPT ![c].phase = "spawning", ![c].host = g]
    BY <1>3 DEF Spawn
  <2>2. cells'[c].host = g
    BY <1>0, <2>1 DEF TypeOK, Cell
  <2>3. h # g => new = old
    BY <2>1 DEF TypeOK
  <2>4. h = g => new = [old EXCEPT !.state = "starting"] /\ old.state = "none"
    BY <2>1 DEF TypeOK
  <2>5. LET x == [old EXCEPT !.state = "starting"] IN
          /\ x.state = "starting" /\ x.exited = old.exited /\ x.main = old.main
          /\ x.km = old.km /\ x.live = old.live /\ x.epoch = old.epoch /\ x.client = old.client
    BY <1>0 DEF Host
  <2> QED BY <1>3, <1>f, <2>2, <2>3, <2>4, <2>5
<1>4. CASE BrokerStarts(c)
  <2> DEFINE y == [old EXCEPT !.state = "up", !.km = processes', !.live = {processes'},
                              !.epoch = 1, !.client = "ready"]
  <2>1. processes' \in Processes
    BY <1>4, SessionAssumption DEF BrokerStarts, NewProcess, TypeOK, Processes, NoProcess
  <2>2. h # cells[c].host => new = old
    BY <1>4 DEF BrokerStarts, TypeOK
  <2>3. h = cells[c].host => new = y /\ old.state = "starting"
    BY <1>4 DEF BrokerStarts, TypeOK
  <2>4. /\ y.exited = old.exited /\ y.main = old.main /\ y.state = "up"
        /\ y.km = processes' /\ y.live = {processes'}
    BY <1>0 DEF Host
  <2> HIDE DEF y
  <2> QED BY <1>4, <1>f, <2>1, <2>2, <2>3, <2>4
<1>5. CASE SpawnFails(c)
  <2>1. new = old \/ (h = cells[c].host /\ new = [old EXCEPT !.state = "down", !.live = {}])
    BY <1>5 DEF SpawnFails, TypeOK
  <2> QED BY <1>0, <1>5, <2>1 DEF Host
<1>6. CASE Kill(c)
  <2>1. \/ new = old
        \/ /\ h = cells[c].host
           /\ new = [old EXCEPT !.live = @ \ {old.km}, !.km = NoProcess, !.client = "none"]
    BY <1>6 DEF Kill, TypeOK
  <2> QED BY <1>0, <1>6, <2>1 DEF Host
<1>7. CASE Launch(c)
  <2>1. PICK p, g : p = processes' /\ g = cells[c].host
    OBVIOUS
  <2>2. \/ hosts' = hosts
        \/ /\ NewProcess
           /\ hosts' = [hosts EXCEPT ![g].km = p, ![g].live = @ \cup {p}, ![g].client = "made"]
    BY <1>7, <2>1 DEF Launch
  <2>3. \/ new = old
        \/ /\ h = g /\ NewProcess
           /\ new = [old EXCEPT !.km = p, !.live = @ \cup {p}, !.client = "made"]
    <3>1. CASE h # g
      BY <2>2, <3>1 DEF TypeOK
    <3>2. CASE h = g
      <4> DEFINE y == [old EXCEPT !.km = p, !.live = @ \cup {p}, !.client = "made"]
      <4>1. hosts' = hosts \/ (NewProcess /\ hosts' = [hosts EXCEPT ![h] = y])
        BY <2>2, <3>2
      <4> HIDE DEF y
      <4>2. new = old \/ (NewProcess /\ new = y)
        BY <4>1 DEF TypeOK
      <4> QED BY <3>2, <4>2 DEF y
    <3> QED BY <3>1, <3>2
  <2>4. NewProcess => p \in Processes
    BY <2>1, SessionAssumption DEF NewProcess, TypeOK, Processes, NoProcess
  <2>5. LET x == [old EXCEPT !.km = p, !.live = @ \cup {p}, !.client = "made"] IN
          /\ x.state = old.state /\ x.exited = old.exited /\ x.main = old.main
          /\ x.epoch = old.epoch /\ x.km = p /\ x.live = old.live \cup {p}
          /\ x.client = "made"
    BY <1>0 DEF Host
  <2> QED BY <1>7, <1>f, <2>1, <2>3, <2>4, <2>5
<1>8. CASE Replace(c)
  <2>1. \/ new = old
        \/ h = cells[c].host /\ new = [old EXCEPT !.epoch = old.epoch + 1, !.client = "ready"]
    BY <1>8 DEF Replace, TypeOK
  <2>2. PICK epoch : epoch = old.epoch + 1
    OBVIOUS
  <2>3. LET x == [old EXCEPT !.epoch = epoch, !.client = "ready"] IN
          /\ x.state = old.state /\ x.exited = old.exited /\ x.main = old.main
          /\ x.km = old.km /\ x.live = old.live /\ x.epoch = epoch /\ x.client = "ready"
    BY <1>0 DEF Host
  <2> QED BY <1>8, <1>f, <2>1, <2>2, <2>3
<1>9. CASE ReplaceFails(c)
  <2>1. new = old \/ (h = cells[c].host /\ new = [old EXCEPT !.client = "none"])
    BY <1>9 DEF ReplaceFails, TypeOK
  <2> QED BY <1>0, <1>9, <2>1 DEF Host
<1>10. CASE Report(c)
  <2>1. PICK epoch : epoch = IF number = 0 THEN old.epoch ELSE number
    OBVIOUS
  <2>2. \/ new = old
        \/ h = cells[c].host /\ new = Freed(c, [old EXCEPT !.epoch = epoch])
    BY <1>10, <2>1 DEF Report, TypeOK
  <2>3. LET x == Freed(c, [old EXCEPT !.epoch = epoch]) IN
          /\ x.state = old.state /\ x.exited = old.exited /\ x.main = old.main
          /\ x.km = old.km /\ x.live = old.live /\ x.epoch = epoch /\ x.client = old.client
    BY <1>0 DEF Host, Freed
  <2> QED BY <1>10, <1>f, <2>1, <2>2, <2>3
<1> QED BY <1>1, <1>2, <1>3, <1>4, <1>5, <1>6, <1>7, <1>8, <1>9, <1>10 DEF CellStep

\* What a cell's step does to its own record.
Stays(c) == /\ cells'[c].host = cells[c].host /\ cells'[c].bound = cells[c].bound
            /\ cells'[c].ran = cells[c].ran
Moves(c, from, to) == Under(c, from) /\ cells'[c].phase = to
Fails(c, from) == /\ Moves(c, from, "closing") /\ cells'[c].result = "failed"
                  /\ cells'[c].step = cells[c].step
Rests(c) == cells'[c].thread = cells[c].thread /\ cells'[c].number = cells[c].number
Quiet(c) == /\ Rests(c) /\ cells'[c].step = cells[c].step
            /\ cells'[c].epoch = cells[c].epoch
KeepsResult(c) == cells'[c].result = cells[c].result
Passes(c, from) ==
  /\ Moves(c, from, "checked") /\ cells'[c].step = "bind" /\ KeepsResult(c)

LEMMA OwnCellEntering ==
  ASSUME TypeOK, HostKnown, NEW c \in Cells
  PROVE  /\ Ask(c) => Moves(c, "new", "entering") /\ Stays(c) /\ Quiet(c) /\ KeepsResult(c)
         /\ Enter(c) => /\ cells'[c].host = entry /\ cells'[c].bound = cells[c].bound
                        /\ cells'[c].ran = cells[c].ran /\ Rests(c)
                        /\ Fails(c, "entering") \/ Passes(c, "entering")
         /\ Spawn(c) => /\ Moves(c, "entering", "spawning") /\ Quiet(c) /\ KeepsResult(c)
                        /\ cells'[c].bound = cells[c].bound /\ cells'[c].ran = cells[c].ran
                        /\ cells'[c].host \in Hosts /\ hosts[cells'[c].host].state = "none"
         /\ BrokerStarts(c) => cells' = cells
         /\ Publish(c) => /\ Stays(c) /\ Rests(c)
                          /\ Fails(c, "spawning") \/ Passes(c, "spawning")
         /\ SpawnFails(c) => /\ Moves(c, "spawning", "done") /\ cells'[c].result = "failed"
                             /\ Stays(c) /\ Quiet(c)
<1> USE DEF Stays, Moves, Quiet, Rests, KeepsResult, Under
<1>0. cells[c] \in Cell
  BY DEF TypeOK
<1>1. ASSUME Ask(c)
      PROVE  Moves(c, "new", "entering") /\ Stays(c) /\ Quiet(c) /\ KeepsResult(c)
  <2>1. cells'[c] = [cells[c] EXCEPT !.phase = "entering"] /\ Under(c, "new")
    BY <1>1 DEF Ask, TypeOK
  <2> QED BY <1>0, <2>1 DEF Cell
<1>2. ASSUME NEW h, cells'[c] = Checked(cells[c], h, "bind"), NEW from, Under(c, from)
      PROVE  /\ cells'[c].host = h /\ cells'[c].bound = cells[c].bound
             /\ cells'[c].ran = cells[c].ran /\ Rests(c)
             /\ Fails(c, from) \/ Passes(c, from)
  BY <1>0, <1>2, CheckedFields DEF Fails, Passes
<1>3. Enter(c) => cells'[c] = Checked(cells[c], entry, "bind") /\ Under(c, "entering")
  BY DEF Enter, TypeOK
<1>4. ASSUME Spawn(c)
      PROVE  /\ Moves(c, "entering", "spawning") /\ Quiet(c) /\ KeepsResult(c)
             /\ cells'[c].bound = cells[c].bound /\ cells'[c].ran = cells[c].ran
             /\ cells'[c].host \in Hosts /\ hosts[cells'[c].host].state = "none"
  <2>1. PICK h \in Hosts : /\ hosts[h].state = "none"
                           /\ cells' = [cells EXCEPT ![c].phase = "spawning", ![c].host = h]
    BY <1>4 DEF Spawn
  <2>2. cells'[c] = [cells[c] EXCEPT !.phase = "spawning", !.host = h] /\ Under(c, "entering")
    BY <1>4, <2>1 DEF Spawn, TypeOK
  <2>3. LET x == [cells[c] EXCEPT !.phase = "spawning", !.host = h] IN
          /\ x.phase = "spawning" /\ x.host = h /\ x.thread = cells[c].thread
          /\ x.number = cells[c].number /\ x.step = cells[c].step /\ x.epoch = cells[c].epoch
          /\ x.bound = cells[c].bound /\ x.ran = cells[c].ran /\ x.result = cells[c].result
    BY <1>0 DEF Cell
  <2> QED BY <2>1, <2>2, <2>3
<1>5. BrokerStarts(c) => cells' = cells
  BY DEF BrokerStarts
<1>6. Publish(c) => cells'[c] = Checked(cells[c], cells[c].host, "bind") /\ Under(c, "spawning")
  BY DEF Publish, TypeOK
<1>7. ASSUME SpawnFails(c)
      PROVE  /\ Moves(c, "spawning", "done") /\ cells'[c].result = "failed"
             /\ Stays(c) /\ Quiet(c)
  <2>1. cells'[c] = [cells[c] EXCEPT !.phase = "done", !.result = "failed"] /\ Under(c, "spawning")
    BY <1>7 DEF SpawnFails, TypeOK
  <2> QED BY <1>0, <2>1 DEF Cell
<1> HIDE DEF Moves, Quiet, Rests, KeepsResult, Under
<1> QED BY <1>1, <1>2, <1>3, <1>4, <1>5, <1>6, <1>7

Settles(c) == \E result \in Words :
  /\ Reply(c, result)
  /\ Finish(c) \/ (result # "ok" /\ (Dispatch(c) \/ Report(c)))

\* A thread at work leaves its cell as it stands, and goes on.
AtWork(c) ==
  /\ Stays(c) /\ KeepsResult(c) /\ cells'[c].phase = cells[c].phase
  /\ cells'[c].step = cells[c].step /\ cells'[c].epoch = cells[c].epoch
  /\ cells[c].thread # "none" /\ cells'[c].thread # "none"

LEMMA OwnThread ==
  ASSUME TypeOK, HostKnown, NEW c \in Cells
  PROVE  /\ Works(c) => AtWork(c)
         /\ SeesDeath(c) => /\ cells[c].thread = "run" /\ cells'[c].thread = "kill"
                            /\ cells'[c].number = hosts[cells[c].host].epoch
         /\ Overruns(c) => /\ cells[c].thread = "run" /\ cells'[c].thread = "kill"
                           /\ cells'[c].number = cells[c].number
         /\ Kill(c) => /\ cells[c].thread = "kill" /\ cells'[c].thread = "start"
                       /\ cells'[c].number = cells[c].number
         /\ Launch(c) => /\ cells[c].thread = "start" /\ cells'[c].number = cells[c].number
                         /\ \/ cells'[c].thread = "wait"
                            \/ /\ hosts[cells[c].host].km # NoProcess
                               /\ cells'[c].thread = AfterStart(c)
         /\ Replace(c) => /\ cells[c].thread = "wait" /\ cells'[c].thread = AfterStart(c)
                          /\ cells'[c].number = cells[c].number
         /\ ReplaceFails(c) => /\ cells[c].thread \in {"start", "wait"}
                               /\ cells'[c].thread = "report"
                               /\ cells'[c].number = IF cells[c].number = 0 THEN 0
                                                     ELSE cells[c].number + 1
         /\ Note(c) => /\ cells[c].thread = "started" /\ cells'[c].thread = "report"
                       /\ cells'[c].number = hosts[cells[c].host].epoch
<1>0. cells[c] \in Cell
  BY DEF TypeOK
<1>1. ASSUME NEW thread, NEW number,
             cells'[c] = [cells[c] EXCEPT !.thread = thread, !.number = number],
             cells[c].thread # "none", thread # "none"
      PROVE  AtWork(c) /\ cells'[c].thread = thread /\ cells'[c].number = number
  BY <1>0, <1>1 DEF Cell, AtWork, Stays, KeepsResult
<1>a. ASSUME NEW thread, cells'[c] = [cells[c] EXCEPT !.thread = thread],
             cells[c].thread # "none", thread # "none"
      PROVE  AtWork(c) /\ cells'[c].thread = thread /\ cells'[c].number = cells[c].number
  BY <1>0, <1>a DEF Cell, AtWork, Stays, KeepsResult
<1>2. ASSUME SeesDeath(c)
      PROVE  /\ AtWork(c) /\ cells[c].thread = "run" /\ cells'[c].thread = "kill"
             /\ cells'[c].number = hosts[cells[c].host].epoch
  <2>1. PICK number : number = hosts[cells[c].host].epoch
    OBVIOUS
  <2>2. cells'[c] = [cells[c] EXCEPT !.thread = "kill", !.number = number] /\ cells[c].thread = "run"
    BY <1>2, <2>1 DEF SeesDeath, TypeOK
  <2>3. AtWork(c) /\ cells'[c].thread = "kill" /\ cells'[c].number = number
    BY <1>1, <2>2
  <2> QED BY <2>1, <2>2, <2>3
<1>3. ASSUME Overruns(c)
      PROVE  /\ AtWork(c) /\ cells[c].thread = "run" /\ cells'[c].thread = "kill"
             /\ cells'[c].number = cells[c].number
  <2>1. cells'[c] = [cells[c] EXCEPT !.thread = "kill"] /\ cells[c].thread = "run"
    BY <1>3 DEF Overruns, TypeOK
  <2> QED BY <1>a, <2>1
<1>4. ASSUME Kill(c)
      PROVE  /\ AtWork(c) /\ cells[c].thread = "kill" /\ cells'[c].thread = "start"
             /\ cells'[c].number = cells[c].number
  <2>1. cells'[c] = [cells[c] EXCEPT !.thread = "start"] /\ cells[c].thread = "kill"
    BY <1>4 DEF Kill, TypeOK
  <2> QED BY <1>a, <2>1
<1>5. AfterStart(c) # "none"
  BY DEF AfterStart
<1>6. ASSUME Launch(c)
      PROVE  /\ AtWork(c) /\ cells[c].thread = "start" /\ cells'[c].number = cells[c].number
             /\ \/ cells'[c].thread = "wait"
                \/ hosts[cells[c].host].km # NoProcess /\ cells'[c].thread = AfterStart(c)
  <2>1. \E thread \in {"wait", AfterStart(c)} :
          /\ cells'[c] = [cells[c] EXCEPT !.thread = thread] /\ cells[c].thread = "start"
          /\ thread = "wait" \/ hosts[cells[c].host].km # NoProcess
    BY <1>6 DEF Launch, TypeOK
  <2> QED BY <1>a, <1>5, <2>1
<1>7. ASSUME Replace(c)
      PROVE  /\ AtWork(c) /\ cells[c].thread = "wait" /\ cells'[c].thread = AfterStart(c)
             /\ cells'[c].number = cells[c].number
  <2>1. cells'[c] = [cells[c] EXCEPT !.thread = AfterStart(c)] /\ cells[c].thread = "wait"
    BY <1>7 DEF Replace, TypeOK
  <2> QED BY <1>a, <1>5, <2>1
<1>8. ASSUME ReplaceFails(c)
      PROVE  /\ AtWork(c) /\ cells[c].thread \in {"start", "wait"} /\ cells'[c].thread = "report"
             /\ cells'[c].number = IF cells[c].number = 0 THEN 0 ELSE cells[c].number + 1
  <2>1. PICK number : number = IF cells[c].number = 0 THEN 0 ELSE cells[c].number + 1
    OBVIOUS
  <2>2. cells'[c] = [cells[c] EXCEPT !.thread = "report", !.number = number]
        /\ cells[c].thread \in {"start", "wait"}
    BY <1>8, <2>1 DEF ReplaceFails, TypeOK
  <2>3. AtWork(c) /\ cells'[c].thread = "report" /\ cells'[c].number = number
    BY <1>1, <2>2
  <2> QED BY <2>1, <2>2, <2>3
<1>9. ASSUME Note(c)
      PROVE  /\ AtWork(c) /\ cells[c].thread = "started" /\ cells'[c].thread = "report"
             /\ cells'[c].number = hosts[cells[c].host].epoch
  <2>1. PICK number : number = hosts[cells[c].host].epoch
    OBVIOUS
  <2>2. cells'[c] = [cells[c] EXCEPT !.thread = "report", !.number = number] /\ cells[c].thread = "started"
    BY <1>9, <2>1 DEF Note, TypeOK
  <2>3. AtWork(c) /\ cells'[c].thread = "report" /\ cells'[c].number = number
    BY <1>1, <2>2
  <2> QED BY <2>1, <2>2, <2>3
<1> QED BY <1>2, <1>3, <1>4, <1>6, <1>7, <1>8, <1>9 DEF Works

LEMMA OwnCellServing ==
  ASSUME TypeOK, HostKnown, NEW c \in Cells
  PROVE  /\ Send(c) => /\ Stays(c) /\ cells'[c].step = cells[c].step
                       /\ cells'[c].number = cells[c].number
                       /\ \/ /\ Moves(c, "checked", "executing") /\ KeepsResult(c)
                             /\ cells'[c].thread = "none" /\ Serving(cells[c].host)
                          \/ Fails(c, "checked") /\ cells'[c].thread = cells[c].thread
         /\ Dispatch(c) =>
              \/ Settles(c)
              \/ /\ Moves(c, "executing", "executing") /\ KeepsResult(c)
                 /\ cells'[c].host = cells[c].host /\ cells'[c].step = cells[c].step
                 /\ cells'[c].epoch = cells[c].epoch /\ hosts' = hosts
                 /\ \/ /\ cells'[c].thread = "kill" /\ Stays(c)
                       /\ cells'[c].number = hosts[cells[c].host].epoch
                    \/ /\ cells'[c].thread = "run" /\ Alive(cells[c].host)
                       /\ cells'[c].number = cells[c].number
                       /\ \/ /\ cells[c].step = "bind" /\ cells'[c].ran = cells[c].ran
                             /\ cells'[c].bound = hosts[cells[c].host].km
                          \/ /\ cells[c].step = "user" /\ cells'[c].bound = cells[c].bound
                             /\ cells'[c].ran = hosts[cells[c].host].km
         /\ Finish(c) \/ Report(c) => Settles(c)
         /\ HostTimesOut(c) => Fails(c, "executing") /\ Stays(c) /\ Quiet(c)
         /\ Return(c) => Moves(c, "closing", "done") /\ Stays(c) /\ Quiet(c) /\ KeepsResult(c)
<1>0. cells[c] \in Cell
  BY DEF TypeOK
<1>1. ASSUME Send(c)
      PROVE  /\ Stays(c) /\ cells'[c].step = cells[c].step /\ cells'[c].number = cells[c].number
             /\ \/ /\ Moves(c, "checked", "executing") /\ KeepsResult(c)
                   /\ cells'[c].thread = "none" /\ Serving(cells[c].host)
                \/ Fails(c, "checked") /\ cells'[c].thread = cells[c].thread
  <2>1. CASE ~Serving(cells[c].host)
    <3>1. cells'[c] = Ended(cells[c], "failed") /\ Under(c, "checked")
      BY <1>1, <2>1 DEF Send, TypeOK
    <3> QED BY <1>0, <3>1 DEF Ended, Cell, Stays, Fails, Moves
  <2>2. CASE Serving(cells[c].host)
    <3>1. cells'[c] = [cells[c] EXCEPT !.phase = "executing", !.thread = "none"] /\ Under(c, "checked")
      BY <1>1, <2>2 DEF Send, TypeOK
    <3> QED BY <1>0, <2>2, <3>1 DEF Cell, Stays, Moves, KeepsResult
  <2> QED BY <2>1, <2>2
<1>2. ASSUME Dispatch(c), ~Settles(c)
      PROVE  /\ Moves(c, "executing", "executing") /\ KeepsResult(c)
             /\ cells'[c].host = cells[c].host /\ cells'[c].step = cells[c].step
             /\ cells'[c].epoch = cells[c].epoch /\ hosts' = hosts
             /\ \/ /\ cells'[c].thread = "kill" /\ Stays(c)
                   /\ cells'[c].number = hosts[cells[c].host].epoch
                \/ /\ cells'[c].thread = "run" /\ Alive(cells[c].host)
                   /\ cells'[c].number = cells[c].number
                   /\ \/ /\ cells[c].step = "bind" /\ cells'[c].ran = cells[c].ran
                         /\ cells'[c].bound = hosts[cells[c].host].km
                      \/ /\ cells[c].step = "user" /\ cells'[c].bound = cells[c].bound
                         /\ cells'[c].ran = hosts[cells[c].host].km
  <2> DEFINE km == hosts[cells[c].host].km
             x == [cells[c] EXCEPT !.thread = "run", !.mid = TRUE,
                       !.bound = IF cells[c].step = "bind" THEN km ELSE @,
                       !.ran = IF cells[c].step = "user" THEN km ELSE @]
             y == [cells[c] EXCEPT !.thread = "kill", !.number = hosts[cells[c].host].epoch]
  <2>1. ~Reply(c, "failed")
    BY <1>2 DEF Settles, Words
  <2>2. Under(c, "executing") /\ hosts' = hosts
    BY <1>2, <2>1 DEF Dispatch, Waiting
  <2>3. cells'[c] = y \/ (Alive(cells[c].host) /\ cells'[c] = x)
    BY <1>2, <2>1 DEF Dispatch, TypeOK
  <2>4. /\ x.thread = "run" /\ x.host = cells[c].host /\ x.step = cells[c].step
        /\ x.epoch = cells[c].epoch /\ x.phase = cells[c].phase /\ x.result = cells[c].result
        /\ x.bound = IF cells[c].step = "bind" THEN km ELSE cells[c].bound
        /\ x.ran = IF cells[c].step = "user" THEN km ELSE cells[c].ran
        /\ cells[c].step \in {"bind", "user"} /\ x.number = cells[c].number
    BY <1>0 DEF Cell
  <2>5. CASE cells'[c] = y
    BY <1>0, <2>2, <2>5 DEF Cell, Stays, Moves, KeepsResult, Under
  <2> HIDE DEF x, y
  <2>6. CASE Alive(cells[c].host) /\ cells'[c] = x
    BY <2>2, <2>4, <2>6 DEF Moves, KeepsResult, Under
  <2> QED BY <2>3, <2>5, <2>6
<1>3. Finish(c) => Settles(c)
  BY DEF Finish, Settles, Words
<1>5. Report(c) => Settles(c)
  BY DEF Report, Settles, Words, Verdict
<1>6. ASSUME HostTimesOut(c)
      PROVE  Fails(c, "executing") /\ Stays(c) /\ Quiet(c)
  <2>1. cells'[c] = Ended(cells[c], "failed") /\ Under(c, "executing")
    BY <1>6 DEF HostTimesOut, TypeOK
  <2> QED BY <1>0, <2>1 DEF Ended, Cell, Stays, Fails, Moves, Quiet, Rests
<1>7. ASSUME Return(c)
      PROVE  Moves(c, "closing", "done") /\ Stays(c) /\ Quiet(c) /\ KeepsResult(c)
  <2>1. cells'[c] = [cells[c] EXCEPT !.phase = "done"] /\ Under(c, "closing")
    BY <1>7 DEF Return, TypeOK
  <2> QED BY <1>0, <2>1 DEF Cell, Stays, Moves, Quiet, Rests, KeepsResult
<1> QED BY <1>1, <1>2, <1>3, <1>5, <1>6, <1>7

\* A reply that is awaited ends the cell, or lets it send the user's code.
LEMMA Settled ==
  ASSUME TypeOK, HostKnown, NEW c \in Cells, Settles(c)
  PROVE  /\ cells[c].host \in Hosts /\ Stays(c)
         /\ cells'[c].thread = "none" /\ cells'[c].number = 0
         /\ ~Under(c, "executing") => /\ cells'[c].phase = cells[c].phase /\ KeepsResult(c)
                                      /\ cells'[c].step = cells[c].step
                                      /\ cells'[c].epoch = cells[c].epoch
         /\ Under(c, "executing") =>
              \/ /\ Moves(c, "executing", "checked") /\ KeepsResult(c) /\ Finish(c)
                 /\ cells[c].step = "bind" /\ cells'[c].step = "user"
              \/ /\ Moves(c, "executing", "closing") /\ cells'[c].step = cells[c].step
                 /\ cells'[c].epoch = hosts'[cells[c].host].epoch
                 /\ \/ cells'[c].result \in {"failed", "unknown", "died"}
                    \/ cells'[c].result = "ok" /\ cells[c].step = "user" /\ Finish(c)
<1>1. cells[c].host \in Hosts
  BY DEF Settles, Finish, Dispatch, Waiting, Under, Report, HostKnown
<1>2. PICK result \in Words :
         Reply(c, result) /\ (Finish(c) \/ result # "ok")
  BY DEF Settles
<1> QED BY <1>1, <1>2, Replied DEF Stays, Moves, KeepsResult, Under, Words

\* What the owner's steps and the faults do to the record of a host.
LEMMA HostOfOthers ==
  ASSUME TypeOK, HostKnown, OpFits, NEW h \in Hosts,
         OwnerStep \/ \E g \in Hosts : KernelDies(g) \/ BrokerExits(g)
  PROVE  LET old == hosts[h]
             new == hosts'[h]
             open == new.state = old.state /\ new.exited = old.exited
             quiet == new.epoch = old.epoch /\ new.client = old.client
         IN \/ new = old
            \/ /\ RestartKills /\ h = op.host /\ op'.stage = "restarting" /\ op'.host = op.host
               /\ op'.kernel = old.km /\ open /\ new.epoch = old.epoch /\ new.client # "ready"
               /\ old.main = "idle" /\ new.main = "relaunch"
               /\ old.km # NoProcess /\ new.km = old.km /\ new.live = old.live \ {old.km}
            \/ /\ Relaunch /\ h = op.host /\ open /\ quiet
               /\ old.main = "relaunch" /\ new.main = "connect" /\ processes' \in Processes
               /\ new.live = old.live \cup {processes'}
               /\ new.km = IF old.km = op.kernel THEN processes' ELSE old.km
            \/ /\ Connect /\ h = op.host /\ open /\ new.km = old.km /\ new.live = old.live
               /\ old.main = "connect" /\ new.main = "idle" /\ Alive(h)
               /\ new.epoch = old.epoch + 1 /\ new.client = "ready"
            \/ /\ ConnectFails /\ h = op.host /\ open /\ new.km = old.km /\ new.live = old.live
               /\ old.main = "connect" /\ new.main = "idle" /\ quiet
            \/ /\ Stop /\ h = op.host /\ new.state = "stopping" /\ new.exited = old.exited
               /\ new.main = old.main /\ new.km = old.km /\ new.live = old.live /\ quiet
            \/ /\ BrokerShutsDown /\ h = op.host /\ open /\ new.main = old.main
               /\ new.epoch = old.epoch /\ new.km = NoProcess /\ new.live = old.live \ {old.km}
               /\ new.client = "none"
            \/ /\ Terminate /\ h = op.host /\ new.state = "down" /\ new.exited = old.exited
               /\ new.epoch = old.epoch /\ new.main = "idle" /\ new.km = NoProcess /\ new.live = {}
               /\ new.client = "none"
            \/ /\ KernelDies(h) /\ open /\ new.main = old.main /\ quiet
               /\ new.km = old.km /\ new.live = old.live \ {old.km}
            \/ /\ BrokerExits(h) /\ old.state = "up" /\ new.state = "up" /\ new.exited
               /\ new.epoch = old.epoch /\ new.main = "idle" /\ new.km = NoProcess /\ new.live = {}
               /\ new.client = "none"
<1> DEFINE old == hosts[h]
           new == hosts'[h]
           open == new.state = old.state /\ new.exited = old.exited
           quiet == new.epoch = old.epoch /\ new.client = old.client
<1>0. old \in Host
  BY DEF TypeOK
<1>1. CASE (\E kind \in Retires : Begin(kind)) \/ RequestRestart
  BY <1>1 DEF Begin, RequestRestart
<1>2. CASE RestartKills
  <2>1. CASE h = op.host /\ old.km # NoProcess
    <3> DEFINE client == IF old.client = "none" THEN old.client ELSE "made"
    <3>1. /\ new = [old EXCEPT !.live = old.live \ {old.km}, !.main = "relaunch",
                               !.client = client]
          /\ old.main = "idle"
      BY <1>2, <2>1 DEF RestartKills, TypeOK
    <3>2. op'.stage = "restarting" /\ op'.host = op.host /\ op'.kernel = old.km
      <4>1. op' = [op EXCEPT !.stage = "restarting", !.kernel = old.km]
        BY <1>2, <2>1 DEF RestartKills
      <4> QED BY <4>1 DEF TypeOK
    <3>3. client # "ready"
      OBVIOUS
    <3> HIDE DEF client
    <3>4. /\ open /\ new.epoch = old.epoch /\ new.client = client /\ new.main = "relaunch"
          /\ new.km = old.km /\ new.live = old.live \ {old.km}
      BY <1>0, <3>1 DEF Host
    <3> QED BY <1>2, <2>1, <3>1, <3>2, <3>3, <3>4
  <2>2. CASE ~(h = op.host /\ old.km # NoProcess)
    BY <1>2, <2>2 DEF RestartKills, TypeOK
  <2> QED BY <2>1, <2>2
<1>3. CASE Relaunch
  <2>1. CASE h = op.host
    <3> DEFINE km == IF old.km = op.kernel THEN processes' ELSE old.km
    <3>1. /\ new = [old EXCEPT !.main = "connect", !.live = @ \cup {processes'}, !.km = km]
          /\ old.main = "relaunch" /\ NewProcess
      BY <1>3, <2>1 DEF Relaunch, TypeOK
    <3>2. processes' \in Processes
      BY <3>1, SessionAssumption DEF NewProcess, TypeOK, Processes, NoProcess
    <3> HIDE DEF km
    <3>3. /\ open /\ quiet /\ new.main = "connect" /\ new.km = km
          /\ new.live = old.live \cup {processes'}
      BY <1>0, <3>1 DEF Host
    <3> QED BY <1>3, <2>1, <3>1, <3>2, <3>3 DEF km
  <2>2. CASE h # op.host
    BY <1>3, <2>2 DEF Relaunch, TypeOK
  <2> QED BY <2>1, <2>2
<1>4. CASE Connect
  <2>1. CASE h = op.host
    <3>1. PICK epoch : epoch = old.epoch + 1
      OBVIOUS
    <3>2. /\ new = [old EXCEPT !.main = "idle", !.epoch = epoch, !.client = "ready"]
          /\ old.main = "connect" /\ Alive(h)
      BY <1>4, <2>1, <3>1 DEF Connect, TypeOK
    <3>3. /\ open /\ new.epoch = epoch /\ new.main = "idle" /\ new.km = old.km
          /\ new.live = old.live /\ new.client = "ready"
      BY <1>0, <3>2 DEF Host
    <3> QED BY <1>4, <2>1, <3>1, <3>2, <3>3
  <2>2. CASE h # op.host
    BY <1>4, <2>2 DEF Connect, TypeOK
  <2> QED BY <2>1, <2>2
<1>10. CASE ConnectFails
  <2>1. \/ new = old
        \/ h = op.host /\ new = [old EXCEPT !.main = "idle"] /\ old.main = "connect"
    BY <1>10 DEF ConnectFails, TypeOK
  <2> QED BY <1>0, <1>10, <2>1 DEF Host
<1>5. CASE Stop
  <2>1. new = old \/ (h = op.host /\ new = [old EXCEPT !.state = "stopping"])
    BY <1>5 DEF Stop, TypeOK
  <2> QED BY <1>0, <1>5, <2>1 DEF Host
<1>6. CASE BrokerShutsDown
  <2>1. \/ new = old
        \/ /\ h = op.host
           /\ new = [old EXCEPT !.live = @ \ {old.km}, !.km = NoProcess, !.client = "none"]
    BY <1>6 DEF BrokerShutsDown, TypeOK
  <2> QED BY <1>0, <1>6, <2>1 DEF Host
<1>g. ASSUME NEW state, NEW exited
      PROVE  LET x == [old EXCEPT !.state = state, !.exited = exited, !.live = {},
                                  !.km = NoProcess, !.client = "none", !.cellActive = FALSE,
                                  !.main = "idle"]
             IN /\ x.state = state /\ x.exited = exited /\ x.live = {} /\ x.km = NoProcess
                /\ x.client = "none" /\ x.main = "idle" /\ x.epoch = old.epoch
  BY <1>0, Zenon DEF Host
<1>7. CASE Terminate
  <2>1. \/ new = old
        \/ /\ h = op.host
           /\ new = [old EXCEPT !.state = "down", !.live = {}, !.km = NoProcess,
                                !.client = "none", !.cellActive = FALSE, !.main = "idle"]
    BY <1>7 DEF Terminate, TypeOK
  <2>2. LET x == [old EXCEPT !.state = "down", !.live = {}, !.km = NoProcess,
                             !.client = "none", !.cellActive = FALSE, !.main = "idle"]
        IN /\ x.state = "down" /\ x.exited = old.exited /\ x.live = {} /\ x.km = NoProcess
           /\ x.client = "none" /\ x.main = "idle" /\ x.epoch = old.epoch
    BY <1>0, Zenon DEF Host
  <2> QED BY <1>7, <2>1, <2>2
<1>8. ASSUME NEW g \in Hosts, KernelDies(g)
      PROVE  \/ new = old
             \/ /\ KernelDies(h) /\ open /\ new.main = old.main /\ quiet
                /\ new.km = old.km /\ new.live = old.live \ {old.km}
  <2>1. CASE h = g
    <3>1. new = [old EXCEPT !.live = @ \ {old.km}]
      BY <1>8, <2>1 DEF KernelDies, TypeOK
    <3>2. open /\ new.main = old.main /\ quiet /\ new.km = old.km
          /\ new.live = old.live \ {old.km}
      BY <1>0, <3>1 DEF Host
    <3> QED BY <1>8, <2>1, <3>2
  <2>2. CASE h # g
    BY <1>8, <2>2 DEF KernelDies, TypeOK
  <2> QED BY <2>1, <2>2
<1>9. ASSUME NEW g \in Hosts, BrokerExits(g)
      PROVE  \/ new = old
             \/ /\ BrokerExits(h) /\ old.state = "up" /\ new.state = "up" /\ new.exited
                /\ new.epoch = old.epoch /\ new.main = "idle" /\ new.km = NoProcess
                /\ new.live = {} /\ new.client = "none"
  <2>1. \/ new = old
        \/ h = g /\ new = [old EXCEPT !.exited = TRUE, !.live = {}, !.km = NoProcess,
                                      !.client = "none", !.cellActive = FALSE, !.main = "idle"]
    BY <1>9 DEF BrokerExits, TypeOK
  <2>2. hosts[g].state = "up"
    BY <1>9 DEF BrokerExits
  <2>3. LET x == [old EXCEPT !.exited = TRUE, !.live = {}, !.km = NoProcess,
                             !.client = "none", !.cellActive = FALSE, !.main = "idle"]
        IN /\ x.state = old.state /\ x.exited /\ x.live = {} /\ x.km = NoProcess
           /\ x.client = "none" /\ x.main = "idle" /\ x.epoch = old.epoch
    BY <1>0, Zenon DEF Host
  <2> QED BY <1>9, <2>1, <2>2, <2>3
<1> QED
  BY <1>1, <1>2, <1>3, <1>4, <1>5, <1>6, <1>7, <1>8, <1>9, <1>10 DEF OwnerStep

Others == OwnerStep \/ \E g \in Hosts : KernelDies(g) \/ BrokerExits(g)

\* ... and to a cell: nothing, unless its host's broker is gone.
LEMMA CellOfOthers ==
  ASSUME TypeOK, HostKnown, OpFits, Others, NEW c \in Cells
  PROVE  \/ cells'[c] = cells[c]
         \/ /\ Stays(c) /\ cells'[c].step = cells[c].step /\ cells'[c].epoch = cells[c].epoch
            /\ cells'[c].thread = "none" /\ cells'[c].number = 0 /\ cells[c].host \in Hosts
            /\ (Terminate /\ cells[c].host = op.host) \/ BrokerExits(cells[c].host)
            /\ \/ Fails(c, "executing")
               \/ /\ ~Under(c, "executing") /\ cells'[c].phase = cells[c].phase /\ KeepsResult(c)
<1> DEFINE quiet == Threadless(cells[c])
<1>0. /\ cells[c] \in Cell /\ quiet \in Cell /\ quiet.thread = "none" /\ quiet.number = 0
      /\ quiet.host = cells[c].host /\ quiet.phase = cells[c].phase /\ quiet.step = cells[c].step
      /\ quiet.bound = cells[c].bound /\ quiet.ran = cells[c].ran
      /\ quiet.result = cells[c].result /\ quiet.epoch = cells[c].epoch
  BY ThreadlessFields DEF TypeOK
<1>1. ASSUME NEW h \in Hosts, cells' = AllFail(h), cells'[c] # cells[c]
      PROVE  /\ Stays(c) /\ cells'[c].step = cells[c].step /\ cells'[c].epoch = cells[c].epoch
             /\ cells'[c].thread = "none" /\ cells'[c].number = 0 /\ cells[c].host = h
             /\ \/ Fails(c, "executing")
                \/ /\ ~Under(c, "executing") /\ cells'[c].phase = cells[c].phase /\ KeepsResult(c)
  <2>1. cells[c].host = h
    BY <1>1, AllFailed
  <2>2. CASE Executing(c, h)
    <3>1. cells'[c] = Ended(quiet, "failed")
      BY <1>1, <2>2, AllFailed
    <3>2. LET x == Ended(quiet, "failed") IN
            /\ x.thread = "none" /\ x.number = 0 /\ x.host = quiet.host /\ x.phase = "closing"
            /\ x.step = quiet.step /\ x.bound = quiet.bound /\ x.ran = quiet.ran
            /\ x.result = "failed" /\ x.epoch = quiet.epoch
      <4> HIDE DEF quiet
      <4> QED BY <1>0 DEF Ended, Cell
    <3> HIDE DEF quiet
    <3> QED BY <1>0, <2>1, <2>2, <3>1, <3>2 DEF Stays, Fails, Moves, Executing
  <2>3. CASE ~Executing(c, h)
    <3>1. cells'[c] = quiet
      BY <1>1, <2>1, <2>3, AllFailed
    <3> HIDE DEF quiet
    <3> QED BY <1>0, <2>1, <2>3, <3>1 DEF Stays, KeepsResult, Executing
  <2> QED BY <2>2, <2>3
<1>2. \/ cells' = cells
      \/ Terminate /\ cells' = AllFail(op.host) /\ op.host \in Hosts
      \/ \E h \in Hosts : BrokerExits(h) /\ cells' = AllFail(h)
  <2>1. CASE Terminate
    BY <2>1 DEF Terminate, OpFits, NoOp
  <2>2. CASE \E h \in Hosts : BrokerExits(h)
    BY <2>2 DEF BrokerExits
  <2>3. CASE \/ \E kind \in Retires : Begin(kind)
             \/ RequestRestart \/ RestartKills \/ Relaunch \/ Connect \/ ConnectFails \/ Stop
             \/ BrokerShutsDown
             \/ \E h \in Hosts : KernelDies(h)
    BY <2>3 DEF Begin, RequestRestart, RestartKills, Relaunch, Connect, ConnectFails, Stop,
                BrokerShutsDown, KernelDies
  <2> QED BY <2>1, <2>2, <2>3 DEF Others, OwnerStep
<1> QED BY <1>1, <1>2

------------------------------------------------------------------------------
(* The base. *)

LEMMA StaysStarted ==
  ASSUME TypeOK, HostKnown, OpFits, Next, NEW h \in Hosts, Started(h)
  PROVE  Started(h)'
<1>1. ASSUME NEW c \in Cells, CellStep(c)
      PROVE  Started(h)'
  BY <1>1, HostOfCell DEF Started
<1>2. CASE Others
  BY <1>2, HostOfOthers DEF Started, Others
<1> QED BY <1>1, <1>2 DEF Next, Others

LEMMA StepOp ==
  ASSUME BaseInv, Next
  PROVE  OpFits'
<1> USE DEF BaseInv
<1>0. \A h \in Hosts : Started(h) => hosts'[h].state \notin {"none", "starting"}
  BY StaysStarted DEF Started
<1>1. ASSUME op' = op
      PROVE  OpFits'
  BY <1>0, <1>1 DEF OpFits, Started
<1>2. ASSUME NEW c \in Cells, CellStep(c)
      PROVE  OpFits'
  BY <1>1, <1>2, OneCell
<1>3. ASSUME NEW kind \in Retires, Begin(kind)
      PROVE  OpFits'
  <2>1. kind \in {"restart", "evict"} /\ entry \in Hosts /\ Started(entry)
    BY <1>3, SessionAssumption DEF Begin, StartedFits, TypeOK
  <2>2. op'.kind = kind /\ op'.host = entry /\ op'.stage = "leases" /\ hosts' = hosts
    BY <1>3 DEF Begin, NoOp
  <2> QED BY <2>1, <2>2 DEF OpFits, Started
<1>4. CASE RequestRestart \/ RestartKills \/ Stop
  <2>1. op.host \in Hosts /\ hosts'[op.host].state \notin {"none", "starting"}
    BY <1>0, <1>4 DEF RequestRestart, RestartKills, Stop, OpFits, NoOp
  <2>2. \/ op' = NoOp
        \/ op.kind = "restart" /\ op' = [op EXCEPT !.stage = "sent"]
        \/ /\ op.kind = "restart" /\ hosts[op.host].km # NoProcess
           /\ op' = [op EXCEPT !.stage = "restarting", !.kernel = hosts[op.host].km]
        \/ op.kind = "evict" /\ op' = [op EXCEPT !.stage = "stopping"]
    BY <1>4 DEF RequestRestart, RestartKills, Stop
  <2>3. \/ op' = NoOp
        \/ /\ op'.host = op.host /\ op'.kind = op.kind
           /\ op.kind = "restart" => /\ op'.stage \in {"sent", "restarting"}
                                     /\ op'.stage = "restarting" => op'.kernel # NoProcess
           /\ op.kind = "evict" => op'.stage = "stopping"
           /\ op.kind \in {"restart", "evict"}
    BY <2>2 DEF TypeOK
  <2> QED BY <2>1, <2>3 DEF OpFits, Started
<1>5. CASE Connect \/ ConnectFails \/ Terminate
  BY <1>5 DEF Connect, ConnectFails, Terminate, OpFits
<1>6. CASE Relaunch \/ BrokerShutsDown
  BY <1>1, <1>6 DEF Relaunch, BrokerShutsDown
<1>7. ASSUME NEW h \in Hosts, KernelDies(h) \/ BrokerExits(h)
      PROVE  OpFits'
  <2>1. op' = op \/ op' = NoOp
    BY <1>7 DEF KernelDies, BrokerExits
  <2> QED BY <1>1, <2>1 DEF OpFits
<1> QED BY <1>2, <1>3, <1>4, <1>5, <1>6, <1>7 DEF Next, OwnerStep

LEMMA StepMain ==
  ASSUME BaseInv, Next
  PROVE  MainFits'
<1> USE DEF BaseInv
<1> SUFFICES ASSUME NEW h \in Hosts, hosts'[h].main # "idle"
             PROVE  op'.stage = "restarting" /\ op'.host = h
  BY DEF MainFits
<1>1. ASSUME NEW c \in Cells, CellStep(c)
      PROVE  op'.stage = "restarting" /\ op'.host = h
  <2>1. hosts'[h].main = hosts[h].main /\ op' = op
    BY <1>1, HostOfCell, OneCell DEF BrokerStarts
  <2> QED BY <2>1 DEF MainFits
<1>2. CASE Others
  <2>0. hosts[h].main # "idle" => op.stage = "restarting" /\ op.host = h
    BY DEF MainFits
  <2>1. CASE RestartKills
    <3>1. op.stage = "sent" /\ hosts[h].main = "idle"
      BY <2>0, <2>1 DEF RestartKills
    <3>2. h = op.host /\ hosts' # hosts
      <4>1. h # op.host => hosts'[h] = hosts[h]
        BY <2>1 DEF RestartKills, TypeOK
      <4> QED BY <3>1, <4>1
    <3>3. PICK km : km = hosts[op.host].km
      OBVIOUS
    <3>4. op' = [op EXCEPT !.stage = "restarting", !.kernel = km]
      BY <2>1, <3>2, <3>3 DEF RestartKills
    <3> QED BY <3>2, <3>4 DEF TypeOK
  <2>2. CASE Relaunch
    <3>1. op' = op /\ (h # op.host => hosts'[h] = hosts[h])
      BY <2>2 DEF Relaunch, TypeOK
    <3> QED BY <2>2, <3>1 DEF Relaunch, MainFits
  <2>3. CASE Connect \/ ConnectFails \/ Terminate
    <3>1. h # op.host => hosts'[h] = hosts[h]
      BY <2>3 DEF Connect, ConnectFails, Terminate, TypeOK
    <3>2. h = op.host
      BY <2>0, <3>1
    <3>3. hosts'[h].main = "idle"
      <4>1. hosts[h] \in Host
        BY DEF TypeOK
      <4>2. CASE Connect
        <5>1. PICK epoch : epoch = hosts[h].epoch + 1
          OBVIOUS
        <5>2. hosts'[h] = [hosts[h] EXCEPT !.main = "idle", !.epoch = epoch, !.client = "ready"]
          BY <3>2, <4>2, <5>1 DEF Connect, TypeOK
        <5> QED BY <4>1, <5>2 DEF Host
      <4>3. CASE ConnectFails
        <5>1. hosts'[h] = [hosts[h] EXCEPT !.main = "idle"]
          BY <3>2, <4>3 DEF ConnectFails, TypeOK
        <5> QED BY <4>1, <5>1 DEF Host
      <4>4. CASE Terminate
        <5>1. hosts'[h] = [hosts[h] EXCEPT !.state = "down", !.live = {}, !.km = NoProcess,
                            !.client = "none", !.cellActive = FALSE, !.main = "idle"]
          BY <3>2, <4>4 DEF Terminate, TypeOK
        <5> QED BY <4>1, <5>1 DEF Host
      <4> QED BY <2>3, <4>2, <4>3, <4>4
    <3> QED BY <3>3
  <2>4. CASE (\E kind \in Retires : Begin(kind)) \/ RequestRestart \/ Stop
    <3>1. hosts[h].main # "idle"
      <4>1. hosts[h] \in Host
        BY DEF TypeOK
      <4>2. hosts'[h] \in {hosts[h], [hosts[h] EXCEPT !.state = "stopping"]}
        BY <2>4 DEF Begin, RequestRestart, Stop, TypeOK
      <4> QED BY <4>1, <4>2 DEF Host
    <3>2. op.stage = "restarting"
      BY <2>0, <3>1
    <3>3. op = NoOp \/ op.stage = "leases"
      BY <2>4 DEF Begin, RequestRestart, Stop
    <3> QED BY <3>2, <3>3 DEF NoOp
  <2>5. CASE BrokerShutsDown \/ \E g \in Hosts : KernelDies(g)
    <3>1. hosts'[h].main = hosts[h].main /\ op' = op
      BY <2>5 DEF BrokerShutsDown, KernelDies, TypeOK, Host
    <3> QED BY <2>0, <3>1
  <2>6. ASSUME NEW g \in Hosts, BrokerExits(g)
        PROVE  op'.stage = "restarting" /\ op'.host = h
    <3>1. g # h
      <4>1. g = h => hosts'[h] = [hosts[h] EXCEPT !.exited = TRUE, !.live = {}, !.km = NoProcess,
                                   !.client = "none", !.cellActive = FALSE, !.main = "idle"]
        BY <2>6 DEF BrokerExits, TypeOK
      <4>2. hosts[h] \in Host
        BY DEF TypeOK
      <4> QED BY <4>1, <4>2 DEF Host
    <3>2. hosts'[h] = hosts[h]
      BY <2>6, <3>1 DEF BrokerExits, TypeOK
    <3>3. op.host = h
      BY <2>0, <3>2
    <3> QED BY <2>0, <2>6, <3>1, <3>2, <3>3 DEF BrokerExits
  <2> QED BY <1>2, <2>1, <2>2, <2>3, <2>4, <2>5, <2>6 DEF Others, OwnerStep
<1> QED BY <1>1, <1>2 DEF Next, Others

\* A cell's host changes only where it is given one; it stays where it was otherwise.
LEMMA HostStays ==
  ASSUME TypeOK, HostKnown, NEW c \in Cells, CellStep(c), ~Enter(c), ~Spawn(c)
  PROVE  /\ Stays(c) \/ Dispatch(c)
         /\ cells'[c].host = cells[c].host
         /\ cells'[c].phase = "spawning" => cells[c].phase = "spawning"
         /\ cells'[c].phase # "spawning" /\ cells[c].phase = "spawning" => Publish(c) \/ SpawnFails(c)
<1>1. CASE Ask(c) \/ BrokerStarts(c) \/ Publish(c) \/ SpawnFails(c)
  BY <1>1, OwnCellEntering DEF Stays, Moves, Fails, Passes, Under
<1>2. CASE Send(c) \/ HostTimesOut(c) \/ Return(c)
  BY <1>2, OwnCellServing DEF Stays, Moves, Fails, Under
<1>3. CASE Settles(c)
  BY <1>3, Settled DEF Stays, Moves, Under
<1>4. CASE Dispatch(c) /\ ~Settles(c)
  BY <1>4, OwnCellServing DEF Moves, Under
<1>5. CASE Finish(c) \/ Report(c)
  BY <1>3, <1>5, OwnCellServing
<1>6. CASE Works(c)
  BY <1>6, OwnThread DEF AtWork, Stays
<1> QED BY <1>1, <1>2, <1>3, <1>4, <1>5, <1>6 DEF CellStep, Works

\* The steps of a cell that write the table.
LEMMA EntrySteps ==
  ASSUME NEW c \in Cells, CellStep(c)
  PROVE  entry' = entry \/ Publish(c) \/ SpawnFails(c)
<1>1. Ask(c) \/ Enter(c) \/ Spawn(c) \/ BrokerStarts(c) \/ Send(c) => entry' = entry
  BY DEF Ask, Enter, Spawn, BrokerStarts, Send
<1>2. Dispatch(c) \/ Finish(c) \/ SeesDeath(c) \/ Overruns(c) \/ Kill(c) => entry' = entry
  BY DEF Dispatch, Finish, SeesDeath, Overruns, Kill
<1>3. Launch(c) \/ Replace(c) \/ ReplaceFails(c) \/ Note(c) => entry' = entry
  BY DEF Launch, Replace, ReplaceFails, Note
<1>4. Report(c) \/ HostTimesOut(c) \/ Return(c) => entry' = entry
  BY DEF Report, HostTimesOut, Return
<1> QED BY <1>1, <1>2, <1>3, <1>4 DEF CellStep

\* An owner's step or a fault leaves the table as it is, or empties it.
LEMMA EntryOthers ==
  ASSUME Others
  PROVE  entry' = entry \/ entry' = NoHost
<1>1. CASE OwnerStep
  BY <1>1 DEF OwnerStep, Begin, RequestRestart, RestartKills, Relaunch, Connect, ConnectFails, Stop,
              BrokerShutsDown, Terminate
<1>2. CASE \E g \in Hosts : KernelDies(g) \/ BrokerExits(g)
  BY <1>2 DEF KernelDies, BrokerExits
<1> QED BY <1>1, <1>2 DEF Others

LEMMA StepStarted ==
  ASSUME BaseInv, Next, TypeOK'
  PROVE  StartedFits'
<1> USE DEF BaseInv
<1>0. \A h \in Hosts : Started(h) => Started(h)'
  BY StaysStarted
<1>a. ASSUME NEW c \in Cells, cells'[c].host # NoHost, cells'[c].host = cells[c].host,
             cells[c].phase # "spawning"
      PROVE  Started(cells[c].host)'
  <2>1. cells[c].host \in Hosts /\ Started(cells[c].host)
    BY <1>a DEF StartedFits, TypeOK, Cell, Under
  <2> QED BY <1>0, <1>a, <2>1 DEF Started
<1>b. ASSUME entry' = entry \/ entry' = NoHost
      PROVE  entry' # NoHost => Started(entry)'
  BY <1>0, <1>b DEF StartedFits, TypeOK, Started
<1>1. ASSUME NEW c \in Cells, CellStep(c)
      PROVE  StartedFits'
  <2>1. entry' # NoHost => Started(entry)'
    <3>1. CASE Publish(c)
      BY <3>1 DEF Publish, Started
    <3>2. CASE ~Publish(c)
      <4>1. entry' = entry \/ entry' = NoHost
        BY <1>1, <3>2, EntrySteps DEF SpawnFails
      <4> QED BY <1>b, <4>1
    <3> QED BY <3>1, <3>2
  <2>2. ASSUME NEW d \in Cells, cells'[d].host # NoHost, cells'[d].phase # "spawning"
        PROVE  Started(cells[d].host)'
    <3>1. CASE d # c
      <4>1. cells'[d] = cells[d]
        BY <1>1, <3>1, OneCell
      <4> QED BY <1>a, <2>2, <4>1 DEF Started
    <3>2. CASE d = c /\ Enter(c)
      <4>1. cells'[d].host = entry /\ hosts' = hosts /\ entry # NoHost
        BY <3>2, OwnCellEntering DEF Enter
      <4> QED BY <4>1 DEF StartedFits, Started
    <3>3. CASE d = c /\ Spawn(c)
      BY <2>2, <3>3, OwnCellEntering DEF Moves
    <3>4. CASE d = c /\ ~Enter(c) /\ ~Spawn(c)
      <4>1. /\ cells'[c].host = cells[c].host
            /\ cells[c].phase = "spawning" => Publish(c) \/ SpawnFails(c)
        BY <1>1, <2>2, <3>4, HostStays
      <4>2. CASE cells[c].phase # "spawning"
        BY <1>a, <2>2, <3>4, <4>1, <4>2 DEF Started
      <4>3. CASE Publish(c)
        BY <3>4, <4>1, <4>3 DEF Publish, Started
      <4>4. CASE SpawnFails(c)
        <5>1. cells[c].host \in Hosts /\ hosts[cells[c].host] \in Host
          BY <4>4 DEF SpawnFails, Under, HostKnown, TypeOK
        <5>2. hosts'[cells[c].host].state = "down"
          BY <4>4, <5>1 DEF SpawnFails, TypeOK, Host
        <5> QED BY <3>4, <4>1, <5>2 DEF Started
      <4> QED BY <4>1, <4>2, <4>3, <4>4
    <3> QED BY <3>1, <3>2, <3>3, <3>4
  <2> QED BY <2>1, <2>2 DEF StartedFits, Under
<1>2. CASE Others
  <2>1. entry' = entry \/ entry' = NoHost
    BY <1>2, EntryOthers
  <2>2. ASSUME NEW c \in Cells, cells'[c].host # NoHost, cells'[c].phase # "spawning"
        PROVE  Started(cells[c].host)'
    <3>1. cells'[c].host = cells[c].host /\ cells[c].phase # "spawning"
      BY <1>2, <2>2, CellOfOthers DEF Stays, Fails, Moves, Under
    <3> QED BY <1>a, <2>2, <3>1 DEF Started
  <2> QED BY <1>b, <2>1, <2>2 DEF StartedFits, Under
<1> QED BY <1>1, <1>2 DEF Next, Others

LEMMA StepResults ==
  ASSUME BaseInv, Next
  PROVE  ResultFits'
<1> USE DEF BaseInv
<1>1. ASSUME NEW c \in Cells, CellStep(c), NEW d \in Cells, cells'[d].phase \notin {"closing", "done"}
      PROVE  cells'[d].result = None
  <2>1. CASE d # c
    <3>1. cells'[d] = cells[d]
      BY <1>1, <2>1, OneCell
    <3> QED BY <1>1, <3>1 DEF ResultFits
  <2>2. CASE d = c
    <3>1. CASE Ask(c) \/ Enter(c) \/ Spawn(c) \/ BrokerStarts(c) \/ Publish(c) \/ SpawnFails(c)
      BY <1>1, <2>2, <3>1, OwnCellEntering DEF Moves, Fails, Passes, KeepsResult, Under, ResultFits
    <3>2. CASE Settles(c)
      BY <1>1, <2>2, <3>2, Settled DEF Moves, KeepsResult, Under, ResultFits
    <3>3. CASE \/ Send(c) \/ HostTimesOut(c) \/ Return(c)
               \/ (Dispatch(c) /\ ~Settles(c))
      BY <1>1, <2>2, <3>3, OwnCellServing DEF Moves, Fails, KeepsResult, Under, ResultFits
    <3>4. CASE Finish(c) \/ Report(c)
      BY <3>2, <3>4, OwnCellServing
    <3>5. CASE Works(c)
      BY <1>1, <2>2, <3>5, OwnThread DEF AtWork, KeepsResult, ResultFits
    <3> QED BY <1>1, <3>1, <3>2, <3>3, <3>4, <3>5 DEF CellStep, Works
  <2> QED BY <2>1, <2>2
<1>2. ASSUME Others, NEW c \in Cells, cells'[c].phase \notin {"closing", "done"}
      PROVE  cells'[c].result = None
  BY <1>2, CellOfOthers DEF Fails, Moves, KeepsResult, ResultFits
<1> QED BY <1>1, <1>2 DEF Next, Others, ResultFits

LEMMA StepFresh ==
  ASSUME BaseInv, Next
  PROVE  FreshFits'
<1> USE DEF BaseInv
<1> SUFFICES ASSUME NEW d \in Cells
             PROVE  /\ cells'[d].phase \in {"new", "entering", "spawning", "checked"}
                          => cells'[d].thread = "none"
                    /\ cells'[d].thread \in {"none", "run"} => cells'[d].number = 0
  BY DEF FreshFits
<1>0. /\ cells[d].phase \in {"new", "entering", "spawning", "checked"} => cells[d].thread = "none"
      /\ cells[d].thread \in {"none", "run"} => cells[d].number = 0
  BY DEF FreshFits
<1>1. CASE Ask(d) \/ Enter(d) \/ Spawn(d) \/ BrokerStarts(d) \/ Publish(d) \/ SpawnFails(d)
  BY <1>0, <1>1, OwnCellEntering DEF Moves, Fails, Passes, Quiet, Rests, Under
<1>2. CASE Settles(d)
  BY <1>2, Settled
<1>3. CASE Send(d) \/ HostTimesOut(d) \/ Return(d)
  BY <1>0, <1>3, OwnCellServing DEF Moves, Fails, Quiet, Rests, Under
<1>4. CASE Dispatch(d) /\ ~Settles(d)
  <2>1. cells[d].thread = "none"
    BY <1>4 DEF Dispatch, Waiting
  <2> QED BY <1>0, <1>4, <2>1, OwnCellServing DEF Moves, Under
<1>5. CASE Finish(d) \/ Report(d)
  BY <1>2, <1>5, OwnCellServing
<1>6. CASE Works(d)
  <2>1. cells'[d].thread \notin {"none", "run"}
    BY <1>6, OwnThread DEF Works, AfterStart
  <2> QED BY <1>0, <1>6, <2>1, OwnThread DEF AtWork
<1>7. CASE \E c \in Cells : CellStep(c) /\ c # d
  BY <1>0, <1>7, OneCell
<1>8. CASE Others
  BY <1>0, <1>8, CellOfOthers
<1>9. CASE CellStep(d)
  BY <1>1, <1>2, <1>3, <1>4, <1>5, <1>6, <1>9 DEF CellStep, Works
<1> QED BY <1>7, <1>8, <1>9 DEF Next, Others

LEMMA StepBase ==
  ASSUME BaseInv, [Next]_vars
  PROVE  BaseInv'
<1>1. CASE Next
  <2>1. TypeOK' /\ HostKnown'
    BY <1>1, TypeEntering, TypeServing, TypeResetting, TypeOwner, TypeFaults
       DEF BaseInv, Next, CellStep
  <2> QED BY <1>1, <2>1, StepOp, StepMain, StepStarted, StepResults, StepFresh DEF BaseInv
<1>2. CASE UNCHANGED vars
  <2>1. TypeOK' /\ HostKnown'
    BY <1>2 DEF BaseInv, vars, TypeOK, HostKnown
  <2>2. OpFits' /\ MainFits' /\ StartedFits' /\ ResultFits' /\ FreshFits'
    BY <1>2 DEF BaseInv, vars, OpFits, MainFits, StartedFits, ResultFits, FreshFits, Started, Under
  <2> QED BY <2>1, <2>2 DEF BaseInv
<1> QED BY <1>1, <1>2

\* The types, and what any step keeps beside them.
THEOREM BaseCorrect == Spec => []BaseInv
BY InitBase, StepBase, PTL DEF Spec

\* The session's kernel keeps its types, whatever dies, overruns or is taken away: a reply,
\* a reset or a restart always finds a host object to work on, although a call that was
\* given up leaves its broker's thread behind (kernel-plugin.ts runCell, restart, evict;
\* kernel.ts execute; broker.py _reset_kernel).
THEOREM SessionTypeCorrect == Spec => []TypeOK
<1>1. BaseInv => TypeOK
  BY DEF BaseInv
<1> QED BY <1>1, BaseCorrect, PTL

------------------------------------------------------------------------------
(* Epochs. *)

\* What happened once is not forgotten.
LEMMA DisturbedGrows ==
  ASSUME Next
  PROVE  disturbed \subseteq disturbed'
<1>1. ASSUME NEW c \in Cells, CellStep(c)
      PROVE  disturbed \subseteq disturbed'
  <2>1. Ask(c) \/ HostTimesOut(c) \/ Spawn(c) \/ Dispatch(c) => disturbed \subseteq disturbed'
    BY DEF Ask, HostTimesOut, Spawn, Dispatch
  <2>2. Enter(c) \/ BrokerStarts(c) \/ Publish(c) \/ SpawnFails(c) => disturbed' = disturbed
    BY DEF Enter, BrokerStarts, Publish, SpawnFails
  <2>3. Send(c) \/ Finish(c) \/ SeesDeath(c) \/ Overruns(c) => disturbed' = disturbed
    BY DEF Send, Finish, SeesDeath, Overruns
  <2>4. Kill(c) \/ Launch(c) \/ Replace(c) \/ ReplaceFails(c) => disturbed' = disturbed
    BY DEF Kill, Launch, Replace, ReplaceFails
  <2>5. Note(c) \/ Report(c) \/ Return(c) => disturbed' = disturbed
    BY DEF Note, Report, Return
  <2> QED BY <1>1, <2>1, <2>2, <2>3, <2>4, <2>5 DEF CellStep
<1>2. CASE OwnerStep
  BY <1>2 DEF OwnerStep, Begin, RequestRestart, RestartKills, Relaunch, Connect, ConnectFails, Stop,
              BrokerShutsDown, Terminate
<1>3. ASSUME NEW h \in Hosts, KernelDies(h) \/ BrokerExits(h)
      PROVE  disturbed \subseteq disturbed'
  BY <1>3 DEF KernelDies, BrokerExits
<1> QED BY <1>1, <1>2, <1>3 DEF Next

\* Only a request that the broker reads starts a thread.
LEMMA ThreadKept ==
  ASSUME BaseInv, Next, NEW c \in Cells, cells'[c].thread # "none"
  PROVE  /\ cells'[c].host = cells[c].host
         /\ cells[c].thread # "none" \/ (Dispatch(c) /\ ~Settles(c))
<1> USE DEF BaseInv
<1>1. CASE Ask(c) \/ Enter(c) \/ Spawn(c) \/ Publish(c) \/ SpawnFails(c)
  BY <1>1, OwnCellEntering DEF Moves, Fails, Passes, Quiet, Rests, FreshFits, Under
<1>2. CASE BrokerStarts(c)
  BY <1>2, OwnCellEntering
<1>3. CASE Settles(c)
  BY <1>3, Settled
<1>4. CASE Send(c) \/ HostTimesOut(c) \/ Return(c)
  BY <1>4, OwnCellServing DEF Quiet, Rests, Stays
<1>5. CASE Dispatch(c) /\ ~Settles(c)
  BY <1>5, OwnCellServing
<1>6. CASE Finish(c) \/ Report(c)
  BY <1>3, <1>6, OwnCellServing
<1>7. CASE Works(c)
  BY <1>7, OwnThread DEF AtWork, Stays
<1>8. CASE \E d \in Cells : CellStep(d) /\ d # c
  BY <1>8, OneCell
<1>9. CASE Others
  BY <1>9, CellOfOthers
<1>10. CASE CellStep(c)
  BY <1>1, <1>2, <1>3, <1>4, <1>5, <1>6, <1>7, <1>10 DEF CellStep, Works
<1> QED BY <1>8, <1>9, <1>10 DEF Next, Others

LEMMA StepOneThread ==
  ASSUME BaseInv, OneThread, Next, "overlap" \notin disturbed'
  PROVE  OneThread'
<1> USE DEF BaseInv
<1>1. ASSUME NEW c \in Cells, NEW d \in Cells, c # d, cells'[d].thread # "none",
             cells'[c].host = cells'[d].host, Dispatch(c), ~Settles(c)
      PROVE  FALSE
  <2>1. cells'[d] = cells[d] /\ cells'[c].host = cells[c].host
    BY <1>1, OneCell, OwnCellServing DEF CellStep
  <2> QED BY <1>1, <2>1 DEF Dispatch
<1> SUFFICES ASSUME NEW c \in Cells, NEW d \in Cells, c # d,
                    cells'[c].thread # "none", cells'[d].thread # "none",
                    cells'[c].host = cells'[d].host
             PROVE  FALSE
  BY DEF OneThread
<1>2. /\ cells'[c].host = cells[c].host
      /\ cells[c].thread # "none" \/ (Dispatch(c) /\ ~Settles(c))
  BY ThreadKept
<1>3. /\ cells'[d].host = cells[d].host
      /\ cells[d].thread # "none" \/ (Dispatch(d) /\ ~Settles(d))
  BY ThreadKept
<1> QED BY <1>1, <1>2, <1>3 DEF OneThread

\* A host whose epoch rises, or whose kernel is taken, keeps what was reported of it.
EpochHolds(h, epoch, ran) ==
  /\ epoch <= hosts[h].epoch
  /\ epoch = hosts[h].epoch /\ hosts[h].client = "ready"
       => hosts[h].main = "idle" /\ hosts[h].km = ran

LEMMA EpochHeld ==
  ASSUME BaseInv, Next, NEW h \in Hosts, Started(h), NEW epoch \in Nat, NEW ran,
         EpochHolds(h, epoch, ran),
         \A c \in Cells : /\ cells[c].host = h /\ cells[c].thread = "report" /\ cells[c].number # 0
                          => epoch < cells[c].number
  PROVE  EpochHolds(h, epoch, ran)'
<1> USE DEF BaseInv
<1>0. hosts[h].epoch \in Nat /\ \A c \in Cells : cells[c].number \in Nat
  BY DEF TypeOK, Host, Cell
<1>1. ASSUME NEW c \in Cells, CellStep(c)
      PROVE  EpochHolds(h, epoch, ran)'
  <2>1. Report(c) => cells[c].thread = "report"
    BY DEF Report
  <2> QED BY <1>0, <1>1, <2>1, HostOfCell DEF EpochHolds, Started
<1>2. CASE Others
  BY <1>0, <1>2, HostOfOthers DEF EpochHolds, Others
<1> QED BY <1>1, <1>2 DEF Next, Others

\* A report is made by the end of a cell in its own process, and stays as it was made.
Reports(c) ==
  /\ Finish(c) /\ cells'[c].host = cells[c].host /\ cells'[c].ran = cells[c].ran
  /\ cells'[c].epoch = hosts'[cells[c].host].epoch /\ cells[c].step = "user"
  /\ cells'[c].thread = "none"

LEMMA ReportSteps ==
  ASSUME BaseInv, Next, NEW c \in Cells, Reported(c)'
  PROVE  \/ /\ Reported(c) /\ cells'[c].host = cells[c].host
            /\ cells'[c].epoch = cells[c].epoch /\ cells'[c].ran = cells[c].ran
         \/ Reports(c)
<1> USE DEF BaseInv
<1>0. cells'[c].phase \in {"closing", "done"} /\ cells'[c].result = "ok"
  BY DEF Reported
<1>1. CASE Ask(c) \/ Enter(c) \/ Spawn(c) \/ Publish(c) \/ SpawnFails(c)
  BY <1>0, <1>1, OwnCellEntering DEF Moves, Fails, Passes
<1>2. CASE BrokerStarts(c)
  BY <1>0, <1>2, OwnCellEntering DEF Reported
<1>3. CASE Settles(c)
  BY <1>0, <1>3, Settled DEF Moves, KeepsResult, Stays, Reported, Reports
<1>4. CASE Send(c) \/ HostTimesOut(c) \/ Return(c) \/ (Dispatch(c) /\ ~Settles(c))
  BY <1>0, <1>4, OwnCellServing DEF Moves, Fails, KeepsResult, Quiet, Stays, Under, Reported
<1>5. CASE Finish(c) \/ Report(c)
  BY <1>3, <1>5, OwnCellServing
<1>6. CASE Works(c)
  BY <1>0, <1>6, OwnThread DEF AtWork, KeepsResult, Stays, Reported
<1>7. CASE Others
  BY <1>0, <1>7, CellOfOthers DEF Fails, Moves, KeepsResult, Stays, Reported
<1>8. CASE CellStep(c)
  BY <1>1, <1>2, <1>3, <1>4, <1>5, <1>6, <1>8 DEF CellStep, Works
<1>9. CASE \E d \in Cells : CellStep(d) /\ d # c
  <2>1. cells'[c] = cells[c]
    BY <1>9, OneCell
  <2> QED BY <1>0, <2>1 DEF Reported
<1> QED BY <1>7, <1>8, <1>9 DEF Next, Others

\* The kernel that a cell ends in is the one its broker serves with.
LEMMA ReportHolds ==
  ASSUME BaseInv, Next, NEW c \in Cells, Reports(c)
  PROVE  /\ cells[c].host \in Hosts /\ cells[c].ran # NoProcess
         /\ hosts'[cells[c].host].km = cells[c].ran /\ hosts'[cells[c].host].main = "idle"
         /\ hosts'[cells[c].host].client = "ready"
         /\ hosts[cells[c].host].km = cells[c].ran /\ Ready(cells[c].host)
         /\ hosts'[cells[c].host].epoch = hosts[cells[c].host].epoch
<1> DEFINE h == cells[c].host
<1> USE DEF BaseInv
<1>1. h \in Hosts /\ hosts[h] \in Host
  BY DEF Reports, Finish, HostKnown, TypeOK
<1>2. /\ hosts[h].km = cells[c].ran /\ Ready(h) /\ cells[c].ran \in hosts[h].live
      /\ hosts'[h] = Freed(c, hosts[h])
  BY <1>1 DEF Reports, Finish, RunsIn, TypeOK
<1>3. cells[c].ran # NoProcess
  BY <1>1, <1>2 DEF Host, Processes, NoProcess
<1> QED BY <1>1, <1>2, <1>3, FreedFields DEF Ready

\* While a thread works on a host nobody reports of it.
LEMMA PastKept ==
  ASSUME BaseInv, OneThread, Next, NEW c \in Cells, cells'[c].thread # "none",
         NEW h \in Hosts, cells'[c].host = h, NEW n \in Nat, Past(h, n)
  PROVE  Past(h, n)'
<1> SUFFICES ASSUME NEW d \in Cells, Reported(d)', cells'[d].host = h
             PROVE  cells'[d].epoch < n
  BY DEF Past
<1>1. ~Reports(d)
  <2> SUFFICES ASSUME Reports(d) PROVE FALSE
    OBVIOUS
  <2>1. d # c
    BY DEF Reports
  <2>2. cells'[c] = cells[c]
    BY <2>1, OneCell DEF Reports, CellStep, BaseInv
  <2>3. cells[d].thread # "none" /\ cells[d].host = cells[c].host
    BY <2>2 DEF Reports, Finish
  <2> QED BY <2>1, <2>2, <2>3 DEF OneThread
<1> QED BY <1>1, ReportSteps DEF Past

\* Nobody else launches a kernel where a thread is about to, or lowers the epoch.
LEMMA UnderThread ==
  ASSUME BaseInv, OneThread, Next, NEW c \in Cells, cells[c].thread # "none",
         (\E d \in Cells : d # c /\ CellStep(d)) \/ Others
  PROVE  LET h == cells[c].host IN
         /\ h \in Hosts /\ hosts'[h].epoch \in Nat
         /\ hosts[h].epoch = hosts'[h].epoch \/ hosts'[h].epoch = hosts[h].epoch + 1
         /\ hosts[h].km = NoProcess => hosts'[h].km = NoProcess
<1> DEFINE h == cells[c].host
<1> USE DEF BaseInv
<1>1. h \in Hosts /\ Started(h) /\ hosts[h].epoch \in Nat
  <2>1. h \in Hosts /\ ~Under(c, "spawning")
    BY DEF HostKnown, FreshFits, Under
  <2> QED BY <2>1 DEF StartedFits, Hosts, NoHost, TypeOK, Host
<1>2. ASSUME NEW d \in Cells, d # c, CellStep(d)
      PROVE  /\ hosts[h].epoch = hosts'[h].epoch \/ hosts'[h].epoch = hosts[h].epoch + 1
             /\ hosts[h].km = NoProcess => hosts'[h].km = NoProcess
  <2>1. (Launch(d) \/ Report(d)) => cells[d].host # h
    BY <1>2 DEF OneThread, Launch, Report
  <2> QED BY <1>1, <1>2, <2>1, HostOfCell DEF Started
<1>3. ASSUME Others
      PROVE  /\ hosts[h].epoch = hosts'[h].epoch \/ hosts'[h].epoch = hosts[h].epoch + 1
             /\ hosts[h].km = NoProcess => hosts'[h].km = NoProcess
  <2>1. Relaunch => op.kernel # NoProcess
    BY DEF Relaunch, OpFits, NoOp
  <2> QED BY <1>1, <1>3, <2>1, HostOfOthers DEF Others
<1> QED BY <1>1, <1>2, <1>3

\* A later number is above what an earlier one was above.
LEMMA PastGrows ==
  ASSUME TypeOK, NEW h, NEW n \in Nat, Past(h, n)
  PROVE  Past(h, n + 1)
BY DEF Past, TypeOK, Cell

LEMMA PastOfHost ==
  ASSUME BaseInv, EpochFits, NEW h \in Hosts
  PROVE  Past(h, hosts[h].epoch + 1) /\ hosts[h].epoch \in Nat
<1>1. hosts[h].epoch \in Nat /\ \A d \in Cells : cells[d].epoch \in Nat
  BY DEF BaseInv, TypeOK, Host, Cell
<1> QED BY <1>1 DEF EpochFits, Past
LEMMA RemembersOwn ==
  ASSUME BaseInv, OneThread, EpochFits, RepairFits, Next, NEW c \in Cells, CellStep(c)
  PROVE  Remembers(c)'
<1> USE DEF BaseInv
<1> SUFFICES ASSUME cells'[c].thread # "none" PROVE Remembers(c)'
  BY DEF Remembers
<1>0. cells[c].host \in Hosts /\ cells'[c].host = cells[c].host
  <2>1. cells[c].thread # "none" \/ Under(c, "executing")
    BY ThreadKept DEF Dispatch, Waiting
  <2> QED BY <2>1, ThreadKept DEF HostKnown, Under
<1>h. PICK h \in Hosts : h = cells[c].host
  BY <1>0
<1>e. PICK e \in Nat : e = hosts[h].epoch
  BY DEF TypeOK, Host
<1>m. PICK m \in Nat : m = cells[c].number
  BY DEF TypeOK, Cell
<1>1. cells'[c].host = h /\ hosts[h] \in Host
  BY <1>0, <1>h DEF TypeOK
<1>2. Past(h, e + 1)
  BY <1>e, PastOfHost
<1>3. \A n \in Nat : Past(h, n) => Past(h, n)'
  BY <1>1, PastKept
<1>4. /\ cells[c].thread \in {"kill", "start", "wait"} /\ m # 0 => Past(h, m + 1)
      /\ cells[c].thread = "start" => hosts[h].km = NoProcess
      /\ cells[c].thread = "started" => Past(h, e)
      /\ cells[c].thread = "report" /\ m # 0 => Past(h, m)
  BY <1>h, <1>e, <1>m DEF RepairFits, Remembers
<1>14. e + 1 \in Nat /\ m + 1 \in Nat
  OBVIOUS
<1>5. CASE Dispatch(c) \/ SeesDeath(c) \/ Overruns(c)
  <2>1. ~Settles(c)
    BY Settled
  <2>2. SeesDeath(c) \/ Overruns(c) => Works(c)
    BY DEF Works
  <2>3. \/ cells'[c].thread = "run"
        \/ cells'[c].thread = "kill" /\ cells'[c].number \in {e, 0}
    BY <1>h, <1>e, <1>5, <2>1, OwnCellServing, OwnThread DEF FreshFits
  <2>4. Past(h, e + 1)'
    BY <1>2, <1>3, <1>14
  <2> QED BY <1>1, <2>3, <2>4 DEF Remembers
<1>6. CASE Kill(c)
  <2>1. cells[c].thread = "kill" /\ cells'[c].thread = "start" /\ cells'[c].number = m
    BY <1>6, <1>m, OwnThread
  <2>2. hosts'[h].km = NoProcess
    <3>1. hosts'[h] = [hosts[h] EXCEPT !.live = @ \ {hosts[h].km}, !.km = NoProcess,
                                       !.client = "none"]
      BY <1>h, <1>6 DEF Kill, TypeOK
    <3> QED BY <1>1, <3>1 DEF Host
  <2>3. m # 0 => Past(h, m + 1)'
    BY <1>3, <1>4, <1>14, <2>1
  <2> QED BY <1>1, <2>1, <2>2, <2>3 DEF Remembers
<1>7. CASE Launch(c)
  <2>1. cells[c].thread = "start" /\ cells'[c].thread = "wait" /\ cells'[c].number = m
    BY <1>4, <1>7, <1>h, <1>m, OwnThread
  <2>2. m # 0 => Past(h, m + 1)'
    BY <1>3, <1>4, <1>14, <2>1
  <2> QED BY <1>1, <2>1, <2>2 DEF Remembers
<1>8. CASE Replace(c)
  <2>1. /\ cells'[c].thread = IF m = 0 THEN "report" ELSE "started"
        /\ cells'[c].number = m
    BY <1>8, <1>m, OwnThread DEF AfterStart
  <2>2. hosts'[h].epoch = e + 1
    <3>1. PICK epoch : epoch = e + 1
      OBVIOUS
    <3>2. hosts'[h] = [hosts[h] EXCEPT !.epoch = epoch, !.client = "ready"]
      BY <1>h, <1>e, <1>8, <3>1 DEF Replace, TypeOK
    <3>3. hosts'[h].epoch = epoch
      BY <1>1, <3>2 DEF Host
    <3> QED BY <3>1, <3>3
  <2>3. Past(h, e + 1)'
    BY <1>2, <1>3, <1>14
  <2> QED BY <1>1, <2>1, <2>2, <2>3 DEF Remembers
<1>9. CASE ReplaceFails(c)
  <2>1. /\ cells[c].thread \in {"start", "wait"} /\ cells'[c].thread = "report"
        /\ cells'[c].number = IF m = 0 THEN 0 ELSE m + 1
    BY <1>9, <1>m, OwnThread
  <2>2. m # 0 => Past(h, m + 1)'
    BY <1>3, <1>4, <1>14, <2>1
  <2> QED BY <1>1, <2>1, <2>2 DEF Remembers
<1>10. CASE Note(c)
  <2>1. cells[c].thread = "started" /\ cells'[c].thread = "report" /\ cells'[c].number = e
    BY <1>10, <1>h, <1>e, OwnThread
  <2>2. Past(h, e)'
    BY <1>3, <1>4, <2>1
  <2> QED BY <1>1, <2>1, <2>2 DEF Remembers
<1>11. CASE HostTimesOut(c) \/ Return(c)
  <2>1. cells'[c].thread = cells[c].thread /\ cells'[c].number = m
    BY <1>11, <1>m, OwnCellServing DEF Quiet, Rests
  <2>2. hosts'[h].epoch = e /\ hosts'[h].km = hosts[h].km
    <3>1. hosts'[h] = hosts[h] \/ hosts'[h] = [hosts[h] EXCEPT !.cellActive = FALSE]
      BY <1>h, <1>11 DEF HostTimesOut, Return, TypeOK
    <3> QED BY <1>1, <1>e, <3>1 DEF Host
  <2>3. /\ Past(h, e) => Past(h, e)'
        /\ Past(h, m) => Past(h, m)'
        /\ Past(h, m + 1) => Past(h, m + 1)'
    BY <1>3, <1>14
  <2> QED BY <1>1, <1>4, <2>1, <2>2, <2>3 DEF Remembers
<1>12. ~(Ask(c) \/ Enter(c) \/ Spawn(c) \/ BrokerStarts(c) \/ Publish(c) \/ SpawnFails(c) \/ Send(c))
  <2>1. \/ cells[c].phase \notin {"new", "entering", "spawning", "checked"}
        \/ Dispatch(c)
    BY ThreadKept DEF FreshFits
  <2> QED BY <2>1 DEF Dispatch, Waiting, Ask, Enter, Spawn, BrokerStarts, Publish, SpawnFails, Send,
                      Under
<1>13. ~(Finish(c) \/ Report(c))
  BY OwnCellServing, Settled
<1> QED BY <1>5, <1>6, <1>7, <1>8, <1>9, <1>10, <1>11, <1>12, <1>13 DEF CellStep

LEMMA RemembersOthers ==
  ASSUME BaseInv, OneThread, RepairFits, Next, NEW c \in Cells,
         (\E d \in Cells : d # c /\ CellStep(d)) \/ Others
  PROVE  Remembers(c)'
<1> USE DEF BaseInv
<1> SUFFICES ASSUME cells'[c].thread # "none" PROVE Remembers(c)'
  BY DEF Remembers
<1>1. cells'[c] = cells[c]
  BY OneCell, CellOfOthers
<1>0. cells[c].host \in Hosts
  BY <1>1 DEF HostKnown
<1>h. PICK h \in Hosts : h = cells[c].host
  BY <1>0
<1>e. PICK e \in Nat : e = hosts[h].epoch
  BY DEF TypeOK, Host
<1>m. PICK m \in Nat : m = cells[c].number
  BY DEF TypeOK, Cell
<1>2. /\ hosts'[h].epoch \in {e, e + 1}
      /\ hosts[h].km = NoProcess => hosts'[h].km = NoProcess
  BY <1>1, <1>h, <1>e, UnderThread
<1>3. \A n \in Nat : Past(h, n) => Past(h, n)'
  BY <1>1, <1>h, PastKept
<1>4. /\ cells[c].thread \in {"kill", "start", "wait"} /\ m # 0 => Past(h, m + 1)
      /\ cells[c].thread = "start" => hosts[h].km = NoProcess
      /\ cells[c].thread = "started" => Past(h, e)
      /\ cells[c].thread = "report" /\ m # 0 => Past(h, m)
  BY <1>h, <1>e, <1>m DEF RepairFits, Remembers
<1>5. e + 1 \in Nat /\ m + 1 \in Nat
  OBVIOUS
<1>6. /\ Past(h, e) => Past(h, e)' /\ Past(h, e + 1)'
      /\ Past(h, m) => Past(h, m)'
      /\ Past(h, m + 1) => Past(h, m + 1)'
  BY <1>3, <1>5, PastGrows
<1>7. /\ cells'[c].host = h /\ cells'[c].number = m /\ cells'[c].thread = cells[c].thread
  BY <1>1, <1>h, <1>m
<1> QED BY <1>2, <1>4, <1>6, <1>7 DEF Remembers

LEMMA StepEpochFits ==
  ASSUME BaseInv, BaseInv', OneThread, EpochFits, SameEpoch, RepairFits, Next
  PROVE  EpochFits' /\ SameEpoch'
<1>1. ASSUME NEW c \in Cells, Reported(c)'
      PROVE  cells'[c].host \in Hosts /\ EpochHolds(cells[c].host, cells[c].epoch, cells[c].ran)'
  <2>1. CASE Reported(c) /\ cells'[c].host = cells[c].host
             /\ cells'[c].epoch = cells[c].epoch /\ cells'[c].ran = cells[c].ran
    <3>1. PICK h, ran : h = cells[c].host /\ ran = cells[c].ran
      OBVIOUS
    <3>2. PICK epoch \in Nat : epoch = cells[c].epoch
      BY DEF BaseInv, TypeOK, Cell
    <3>3. h \in Hosts /\ EpochHolds(h, epoch, ran)
      BY <2>1, <3>1, <3>2 DEF EpochFits, EpochHolds
    <3>4. Started(h)
      BY <2>1, <3>1, <3>3 DEF BaseInv, StartedFits, Reported, Under, Hosts, NoHost
    <3>5. ASSUME NEW d \in Cells, cells[d].host = h, cells[d].thread = "report",
                 cells[d].number # 0
          PROVE  epoch < cells[d].number
      <4>1. Past(h, cells[d].number)
        BY <3>5 DEF RepairFits, Remembers
      <4> QED BY <2>1, <3>1, <3>2, <4>1 DEF Past
    <3>6. EpochHolds(h, epoch, ran)'
      BY <3>3, <3>4, <3>5, EpochHeld
    <3>7. cells'[c].host = h /\ cells'[c].epoch = epoch /\ cells'[c].ran = ran
      BY <2>1, <3>1, <3>2
    <3> QED BY <3>3, <3>6, <3>7 DEF EpochHolds
  <2>2. CASE Reports(c)
    <3>1. cells'[c].epoch \in Nat
      BY DEF BaseInv, TypeOK, Cell
    <3> QED BY <2>2, <3>1, ReportHolds DEF Reports, EpochHolds
  <2> QED BY <1>1, <2>1, <2>2, ReportSteps
<1>2. EpochFits'
  BY <1>1 DEF EpochFits, EpochHolds
<1>3. ASSUME NEW c \in Cells, NEW d \in Cells, Reported(c)', Reported(d)',
             cells'[c].host = cells'[d].host, cells'[c].epoch = cells'[d].epoch, Reports(c)
      PROVE  cells'[c].ran = cells'[d].ran
  <2>1. /\ cells'[c].host = cells[c].host /\ cells'[c].ran = cells[c].ran
        /\ cells'[c].epoch = hosts'[cells[c].host].epoch
    BY <1>3 DEF Reports
  <2>2. EpochHolds(cells[d].host, cells[d].epoch, cells[d].ran)'
    BY <1>1, <1>3
  <2> QED BY <1>3, <2>1, <2>2, ReportHolds DEF EpochHolds
<1>4. SameEpoch'
  <2> SUFFICES ASSUME NEW c \in Cells, NEW d \in Cells, Reported(c)', Reported(d)',
                      cells'[c].host = cells'[d].host, cells'[c].epoch = cells'[d].epoch
               PROVE  cells'[c].ran = cells'[d].ran
    BY DEF SameEpoch
  <2>1. CASE Reports(c)
    BY <1>3, <2>1
  <2>2. CASE Reports(d)
    BY <1>3, <2>2
  <2>3. CASE ~Reports(c) /\ ~Reports(d)
    BY <2>3, ReportSteps DEF SameEpoch
  <2> QED BY <2>1, <2>2, <2>3
<1> QED BY <1>2, <1>4

LEMMA StepEpoch ==
  ASSUME BaseInv, BaseInv', EpochInv, [Next]_vars
  PROVE  EpochInv'
<1> SUFFICES ASSUME "overlap" \notin disturbed'
             PROVE  OneThread' /\ EpochFits' /\ SameEpoch' /\ RepairFits'
  BY DEF EpochInv
<1>1. CASE UNCHANGED vars
  <2>1. OneThread /\ EpochFits /\ SameEpoch /\ RepairFits
    BY <1>1 DEF vars, EpochInv
  <2>2. /\ hosts' = hosts /\ cells' = cells
    BY <1>1 DEF vars
  <2>3. OneThread' /\ EpochFits' /\ SameEpoch'
    BY <2>1, <2>2 DEF OneThread, EpochFits, SameEpoch, Reported
  <2>4. RepairFits'
    BY <2>1, <2>2 DEF RepairFits, Remembers, Past, Reported
  <2> QED BY <2>3, <2>4
<1>2. CASE Next
  <2>1. OneThread /\ EpochFits /\ SameEpoch /\ RepairFits
    BY <1>2, DisturbedGrows DEF EpochInv, BaseInv
  <2>2. OneThread'
    BY <1>2, <2>1, StepOneThread
  <2>3. EpochFits' /\ SameEpoch'
    BY <1>2, <2>1, StepEpochFits
  <2>4. ASSUME NEW c \in Cells
        PROVE  Remembers(c)'
    <3>1. CASE CellStep(c)
      BY <1>2, <2>1, <3>1, RemembersOwn
    <3>2. CASE (\E d \in Cells : d # c /\ CellStep(d)) \/ Others
      BY <1>2, <2>1, <3>2, RemembersOthers
    <3> QED BY <1>2, <3>1, <3>2 DEF Next, Others
  <2>5. RepairFits'
    BY <2>4 DEF RepairFits
  <2> QED BY <2>2, <2>3, <2>5
<1> QED BY <1>1, <1>2

THEOREM EpochCorrect == Spec => []EpochInv
<1>1. Init => EpochInv
  <2>1. Init => \A c \in Cells : cells[c] = NewCell
    BY DEF Init
  <2>2. NewCell.thread = "none" /\ NewCell.phase = "new" /\ NewCell.number = 0
    BY DEF NewCell
  <2> QED BY <2>1, <2>2 DEF EpochInv, OneThread, EpochFits, SameEpoch, RepairFits, Remembers,
                            Reported
<1> QED BY <1>1, StepEpoch, BaseCorrect, PTL DEF Spec

\* The epoch that a result carries names a kernel: two cells of one host that report the
\* same one ran in the same process, and the broker that is ready under it still has that
\* process, though a cell's thread reads the epoch, kills, launches and then writes one that
\* it remembers, and the owner's restart raises it at any time, without a lock (broker.py
\* 1195-1224, 1345-1369; kernel.ts 563-582). What the thread writes is above all that was
\* reported, since nobody reports on the host while it works. Two threads of one broker, that
\* a host's impatience makes, are the exception.
THEOREM EpochsNameKernels == Spec => []EpochNamesKernel
<1>1. BaseInv /\ EpochInv => EpochNamesKernel
  <2> SUFFICES ASSUME BaseInv, EpochInv, "overlap" \notin disturbed, NEW c \in Cells, Ran(c)
               PROVE  /\ \A d \in Cells : /\ Ran(d) /\ cells[d].host = cells[c].host
                                          /\ cells[d].epoch = cells[c].epoch
                                          => cells[d].ran = cells[c].ran
                      /\ LET h == cells[c].host IN
                         Ready(h) /\ hosts[h].epoch = cells[c].epoch => hosts[h].km = cells[c].ran
    BY DEF EpochNamesKernel
  <2>1. \A d \in Cells : Ran(d) => Reported(d)
    BY DEF Ran, Reported, Under
  <2> QED BY <2>1 DEF EpochInv, EpochFits, SameEpoch, Ready
<1> QED BY <1>1, BaseCorrect, EpochCorrect, PTL
------------------------------------------------------------------------------
(* One call at a time. *)

LEMMA UnderWaySteps ==
  ASSUME BaseInv, Next, NEW c \in Cells, UnderWay(c)'
  PROVE  UnderWay(c) \/ Ask(c)
<1> USE DEF BaseInv
<1>1. CASE Ask(c) \/ Enter(c) \/ Spawn(c) \/ BrokerStarts(c) \/ Publish(c) \/ SpawnFails(c)
  BY <1>1, OwnCellEntering DEF Moves, Fails, Passes, UnderWay, Under
<1>2. CASE Settles(c)
  BY <1>2, Settled DEF Moves, UnderWay, Under
<1>3. CASE Send(c) \/ HostTimesOut(c) \/ Return(c) \/ (Dispatch(c) /\ ~Settles(c))
  BY <1>3, OwnCellServing DEF Moves, Fails, UnderWay, Under
<1>4. CASE Finish(c) \/ Report(c)
  BY <1>2, <1>4, OwnCellServing
<1>8. CASE Works(c)
  BY <1>8, OwnThread DEF AtWork, UnderWay, Under
<1>5. CASE CellStep(c)
  BY <1>1, <1>2, <1>3, <1>4, <1>5, <1>8 DEF CellStep, Works
<1>6. CASE \E d \in Cells : CellStep(d) /\ d # c
  BY <1>6, OneCell DEF UnderWay
<1>7. CASE Others
  BY <1>7, CellOfOthers DEF UnderWay, Fails, Moves, Under
<1> QED BY <1>5, <1>6, <1>7 DEF Next, Others

\* What a broker's thread does after its call was given up.
Straggles(c) == Works(c) \/ Finish(c) \/ Report(c)

\* While a call is under way the steps of any other are those of its thread.
LEMMA OthersStraggle ==
  ASSUME BaseInv, OneUnderWay, NEW c \in Cells, UnderWay(c),
         NEW d \in Cells, d # c, CellStep(d), "together" \notin disturbed'
  PROVE  Straggles(d) /\ entry' = entry /\ op' = op
<1>1. ~UnderWay(d)
  BY DEF OneUnderWay
<1>2. Straggles(d)
  BY <1>1 DEF CellStep, Straggles, Works, Ask, Enter, Spawn, BrokerStarts, Publish, SpawnFails,
              Send, Dispatch, Waiting, HostTimesOut, Return, UnderWay, Under
<1> QED BY <1>2 DEF Straggles, Works, SeesDeath, Overruns, Kill, Launch, Replace, ReplaceFails, Note,
                    Finish, Report

LEMMA StepOneUnderWay ==
  ASSUME BaseInv, OneUnderWay, Next, "together" \notin disturbed'
  PROVE  OneUnderWay'
<1> SUFFICES ASSUME NEW c \in Cells, NEW d \in Cells, UnderWay(c)', UnderWay(d)', c # d
             PROVE  FALSE
  BY DEF OneUnderWay
<1>1. UnderWay(c) \/ Ask(c)
  BY UnderWaySteps
<1>2. UnderWay(d) \/ Ask(d)
  BY UnderWaySteps
<1>3. ASSUME NEW e \in Cells, NEW f \in Cells, e # f, Ask(e), UnderWay(f)'
      PROVE  FALSE
  <2>1. ~UnderWay(f)
    BY <1>3 DEF Ask
  <2>2. cells'[f] = cells[f]
    BY <1>3 DEF Ask, BaseInv, TypeOK
  <2> QED BY <1>3, <2>1, <2>2 DEF UnderWay
<1> QED BY <1>1, <1>2, <1>3 DEF OneUnderWay

LEMMA StepSpawns ==
  ASSUME BaseInv, OneUnderWay, SpawnsAlone, Next, "together" \notin disturbed'
  PROVE  SpawnsAlone'
<1> USE DEF BaseInv
<1> SUFFICES ASSUME NEW c \in Cells, cells'[c].phase = "spawning"
             PROVE  entry' = NoHost
  BY DEF SpawnsAlone, Under
<1>1. CASE CellStep(c)
  <2>1. CASE Spawn(c)
    BY <2>1 DEF Spawn
  <2>2. CASE ~Spawn(c)
    <3>1. ~Enter(c) /\ ~Publish(c)
      BY OwnCellEntering DEF Moves, Fails, Passes
    <3>2. Under(c, "spawning")
      BY <1>1, <2>2, <3>1, HostStays DEF Under
    <3>3. entry' = entry \/ entry' = NoHost
      BY <1>1, <3>1, EntrySteps DEF SpawnFails
    <3> QED BY <3>2, <3>3 DEF SpawnsAlone
  <2> QED BY <2>1, <2>2
<1>2. ASSUME NEW d \in Cells, CellStep(d), d # c
      PROVE  entry' = NoHost
  <2>1. Under(c, "spawning") /\ UnderWay(c)
    BY <1>2, OneCell DEF Under, UnderWay
  <2> QED BY <1>2, <2>1, OthersStraggle DEF SpawnsAlone
<1>3. CASE Others
  <2>1. Under(c, "spawning")
    BY <1>3, CellOfOthers DEF Fails, Moves, Under
  <2>2. entry' = entry \/ entry' = NoHost
    BY <1>3, EntryOthers
  <2> QED BY <2>1, <2>2 DEF SpawnsAlone
<1> QED BY <1>1, <1>2, <1>3 DEF Next, Others

\* What the table holds for a call after its own step.
OnTable(c) ==
  \/ cells[c].host = entry
  \/ /\ entry = NoHost
     /\ Evicting(cells[c].host) \/ (Under(c, "checked") /\ Lost(cells[c].host))

\* A step of a cell neither opens nor closes a host that was used before.
LEMMA ServesOn ==
  ASSUME BaseInv, NEW c \in Cells, CellStep(c), NEW h \in Hosts, Started(h), ~SpawnFails(c)
  PROVE  hosts'[h].exited = hosts[h].exited /\ hosts'[h].state = hosts[h].state
BY HostOfCell DEF BaseInv, Started

LEMMA TableOfOwn ==
  ASSUME BaseInv, OnTheTable, NEW c \in Cells, CellStep(c),
         cells'[c].phase \in {"checked", "executing"}
  PROVE  OnTable(c)'
<1> USE DEF BaseInv
<1>1. CASE Enter(c)
  <2>1. cells'[c].host = entry /\ entry' = entry
    BY <1>1, OwnCellEntering DEF Enter
  <2> QED BY <2>1 DEF OnTable
<1>2. CASE Publish(c)
  <2>1. cells'[c].host = cells[c].host /\ entry' = cells[c].host
    BY <1>2, OwnCellEntering DEF Publish, Stays
  <2> QED BY <2>1 DEF OnTable
<1>3. CASE ~Enter(c) /\ ~Publish(c)
  <2>1. ~Ask(c) /\ ~Spawn(c) /\ ~SpawnFails(c)
    BY OwnCellEntering DEF Moves
  <2>2. /\ entry' = entry /\ op' = op /\ cells'[c].host = cells[c].host
    BY <1>3, <2>1, EntrySteps, OneCell, HostStays
  <2>3. \/ cells[c].phase = cells'[c].phase
        \/ cells[c].phase = "executing"
        \/ cells[c].phase = "checked" /\ cells'[c].phase = "executing" /\ Serving(cells[c].host)
    <3>1. CASE BrokerStarts(c)
      BY <3>1, OwnCellEntering
    <3>2. CASE Settles(c)
      BY <3>2, Settled DEF Moves, Under
    <3>3. CASE \/ HostTimesOut(c) \/ Return(c) \/ (Dispatch(c) /\ ~Settles(c))
      BY <3>3, OwnCellServing DEF Moves, Fails, Under
    <3>4. CASE Send(c)
      BY <3>4, OwnCellServing DEF Moves, Fails, Under
    <3>5. CASE Works(c)
      BY <3>5, OwnThread DEF AtWork
    <3>6. CASE Finish(c) \/ Report(c)
      BY <3>2, <3>6, OwnCellServing
    <3> QED BY <1>3, <2>1, <3>1, <3>2, <3>3, <3>4, <3>5, <3>6 DEF CellStep, Works
  <2>4. /\ cells[c].phase \in {"checked", "executing"} /\ cells[c].host \in Hosts
        /\ Started(cells[c].host)
    <3>1. cells[c].phase \in {"checked", "executing"}
      BY <2>3
    <3> QED BY <3>1 DEF HostKnown, StartedFits, Under, Hosts, NoHost
  <2>5. OnTable(c)
    BY <2>4 DEF OnTheTable, OnTable
  <2>6. CASE Evicting(cells[c].host) \/ cells[c].host = entry
    BY <2>2, <2>5, <2>6 DEF OnTable, Evicting
  <2>7. CASE Under(c, "checked") /\ Lost(cells[c].host) /\ entry = NoHost
    <3>1. cells'[c].phase = "checked"
      BY <2>3, <2>7 DEF Under, Lost
    <3>2. hosts'[cells[c].host].exited \/ hosts'[cells[c].host].state = "down"
      BY <2>1, <2>4, <2>7, ServesOn DEF Lost, Serving
    <3> QED BY <2>2, <2>7, <3>1, <3>2 DEF OnTable, Under, Lost, Serving
  <2> QED BY <2>5, <2>6, <2>7 DEF OnTable
<1> QED BY <1>1, <1>2, <1>3

LEMMA TableOfOthers ==
  ASSUME BaseInv, OnTheTable, Others, NEW c \in Cells,
         cells'[c].phase \in {"checked", "executing"}
  PROVE  OnTable(c)'
<1> DEFINE h == cells[c].host
<1> USE DEF BaseInv
<1>1. cells'[c].host = h /\ cells'[c].phase = cells[c].phase
  BY CellOfOthers DEF Stays, Fails, Moves
<1>2. h \in Hosts /\ OnTable(c)
  BY <1>1 DEF HostKnown, OnTheTable, OnTable
<1>3. ASSUME NEW kind \in Retires, Begin(kind)
      PROVE  OnTable(c)'
  <2>1. kind \in {"restart", "evict"}
    BY SessionAssumption
  <2>2. h = entry
    BY <1>2, <1>3 DEF Begin, OnTable
  <2> QED BY <1>1, <1>3, <2>1, <2>2 DEF Begin, OnTable, Evicting
<1>4. CASE RequestRestart \/ RestartKills \/ Relaunch \/ Connect \/ ConnectFails
  <2>1. op.kind = "restart"
    BY <1>4 DEF RequestRestart, RestartKills, Relaunch, Connect, ConnectFails, OpFits, NoOp
  <2>2. h = entry
    BY <1>2, <2>1 DEF OnTable, Evicting, Lost, NoOp
  <2>3. entry' = entry
    BY <1>4 DEF RequestRestart, RestartKills, Relaunch, Connect, ConnectFails
  <2> QED BY <1>1, <2>2, <2>3 DEF OnTable
<1>5. CASE Stop \/ BrokerShutsDown
  <2>1. op.kind = "evict" /\ op'.kind = "evict" /\ op'.host = op.host /\ entry' = entry
    BY <1>5 DEF Stop, BrokerShutsDown, OpFits, NoOp, TypeOK
  <2>2. h = entry \/ (entry = NoHost /\ op.host = h)
    BY <1>2, <2>1 DEF OnTable, Evicting, Lost, NoOp
  <2> QED BY <1>1, <2>1, <2>2 DEF OnTable, Evicting
<1>6. CASE Terminate
  <2>1. op.kind = "evict" /\ op.host \in Hosts /\ op' = NoOp /\ entry' = entry
    BY <1>6 DEF Terminate, OpFits, NoOp
  <2>2. h = entry \/ (entry = NoHost /\ op.host = h)
    BY <1>2, <2>1 DEF OnTable, Evicting, Lost, NoOp
  <2>3. h = op.host => ~Under(c, "executing")
    <3> SUFFICES ASSUME h = op.host, Under(c, "executing") PROVE FALSE
      OBVIOUS
    <3>1. cells'[c] = Ended(Threadless(cells[c]), "failed")
      BY <1>6, <2>1, AllFailed DEF Terminate, Executing
    <3>2. Threadless(cells[c]) \in Cell
      BY ThreadlessFields DEF TypeOK
    <3>3. cells'[c].phase = "closing"
      <4> HIDE DEF Threadless
      <4> QED BY <3>1, <3>2 DEF Ended, Cell
    <3> QED BY <3>3
  <2>4. h = op.host => hosts'[h].state = "down"
    <3>1. hosts[h] \in Host
      BY <1>2 DEF TypeOK
    <3> QED BY <1>2, <1>6, <3>1 DEF Terminate, TypeOK, Host
  <2> QED BY <1>1, <2>1, <2>2, <2>3, <2>4 DEF OnTable, Lost, Serving, Under
<1>7. ASSUME NEW g \in Hosts, KernelDies(g) \/ BrokerExits(g)
      PROVE  OnTable(c)'
  <2>1. entry' = entry /\ (op.kind # "restart" => op' = op)
    BY <1>7 DEF KernelDies, BrokerExits, OpFits, NoOp
  <2>2. CASE h = entry
    BY <1>1, <2>1, <2>2 DEF OnTable
  <2>3. CASE entry = NoHost /\ Evicting(h)
    BY <1>1, <2>1, <2>3 DEF OnTable, Evicting
  <2>4. CASE entry = NoHost /\ Under(c, "checked") /\ Lost(h)
    <3>1. op' = op /\ op = NoOp
      BY <2>1, <2>4 DEF Lost, NoOp
    <3>2. hosts'[h].exited \/ hosts'[h].state = "down"
      <4>1. ~Stop /\ ~Terminate
        BY <3>1 DEF Stop, Terminate, NoOp
      <4>2. \/ hosts'[h].state = hosts[h].state /\ hosts'[h].exited = hosts[h].exited
            \/ hosts'[h].exited
        BY <1>2, <4>1, HostOfOthers DEF Others
      <4> QED BY <2>4, <4>2 DEF Lost, Serving
    <3> QED BY <1>1, <2>1, <2>4, <3>1, <3>2 DEF OnTable, Lost, Serving, Under
  <2> QED BY <1>2, <2>2, <2>3, <2>4 DEF OnTable
<1> QED BY <1>3, <1>4, <1>5, <1>6, <1>7 DEF Others, OwnerStep

LEMMA StepTable ==
  ASSUME BaseInv, OneUnderWay, OnTheTable, Next, "together" \notin disturbed'
  PROVE  OnTheTable'
<1> USE DEF BaseInv
<1> SUFFICES ASSUME NEW c \in Cells, cells'[c].phase \in {"checked", "executing"}
             PROVE  OnTable(c)'
  BY DEF OnTheTable, OnTable
<1>1. ASSUME NEW d \in Cells, CellStep(d), d # c
      PROVE  OnTable(c)'
  <2>1. cells'[c] = cells[c]
    BY <1>1, OneCell
  <2>2. UnderWay(c) /\ cells[c].host \in Hosts /\ Started(cells[c].host) /\ OnTable(c)
    <3>1. cells[c].phase \in {"checked", "executing"}
      BY <2>1
    <3> QED BY <3>1 DEF UnderWay, HostKnown, StartedFits, OnTheTable, OnTable, Under, Hosts, NoHost
  <2>3. Straggles(d) /\ entry' = entry /\ op' = op
    BY <1>1, <2>2, OthersStraggle
  <2>4. ~SpawnFails(d)
    BY <1>1, <2>2 DEF SpawnFails, OneUnderWay, UnderWay, Under
  <2>5. hosts'[cells[c].host].exited = hosts[cells[c].host].exited
        /\ hosts'[cells[c].host].state = hosts[cells[c].host].state
    BY <1>1, <2>2, <2>4, ServesOn
  <2> QED BY <2>1, <2>2, <2>3, <2>5 DEF OnTable, Evicting, Lost, Serving, Under
<1> QED BY <1>1, TableOfOwn, TableOfOthers DEF Next, Others

LEMMA StepAlone ==
  ASSUME BaseInv, AloneInv, [Next]_vars
  PROVE  AloneInv'
<1>1. CASE Next
  BY <1>1, DisturbedGrows, StepOneUnderWay, StepSpawns, StepTable DEF AloneInv, AloneFits
<1>2. CASE UNCHANGED vars
  BY <1>2 DEF vars, AloneInv, AloneFits, OneUnderWay, SpawnsAlone, OnTheTable, UnderWay, Under,
              Evicting, Lost, Serving
<1> QED BY <1>1, <1>2

\* As long as one call of a session follows another, it works on the kernel in the table, or
\* on the one that an eviction has just taken out of it (kernel-plugin.ts entryFor, runCell,
\* evict).
THEOREM AloneCorrect == Spec => []AloneInv
<1>1. Init => AloneInv
  BY DEF Init, AloneInv, AloneFits, OneUnderWay, SpawnsAlone, OnTheTable, UnderWay, Under, NewCell
<1>2. BaseInv /\ AloneInv /\ [Next]_vars => AloneInv'
  BY StepAlone
<1> QED BY <1>1, <1>2, BaseCorrect, PTL DEF Spec
------------------------------------------------------------------------------
(* One kernel. *)

\* A call that nobody asked for yet, and that no thread works on, does nothing.
LEMMA ActsForSomeone ==
  ASSUME NEW c \in Cells, CellStep(c)
  PROVE  Ask(c) \/ UnderWay(c) \/ cells[c].thread # "none"
BY DEF CellStep, Enter, Spawn, BrokerStarts, Publish, SpawnFails, Send, Dispatch, Waiting, Finish,
       SeesDeath, Overruns, Kill, Launch, Replace, ReplaceFails, Note, Report, HostTimesOut, Return,
       UnderWay, Under

\* The owner that waits for the cells does not meet their steps.
LEMMA OwnerIsIdle ==
  ASSUME BaseInv, OwnerWaits, NEW c \in Cells, CellStep(c), "owner" \notin disturbed'
  PROVE  op = NoOp /\ op' = NoOp /\ \A h \in Hosts : hosts[h].main = "idle"
<1>1. op = NoOp
  <2>1. Ask(c) => op = NoOp
    BY DEF Ask
  <2> QED BY <2>1, ActsForSomeone DEF OwnerWaits
<1> QED BY <1>1, OneCell DEF BaseInv, MainFits, NoOp

LEMMA BusyHere ==
  ASSUME BaseInv, BusyOnEntry, NEW c \in Cells, Busy(c)
  PROVE  cells[c].host \in Hosts /\ cells[c].host = entry /\ entry # NoHost
BY DEF BaseInv, HostKnown, BusyOnEntry, Busy, Hosts, NoHost

\* The table is written by a call that works on nothing yet.
LEMMA TableWritten ==
  ASSUME BaseInv, SpawnsAlone, NEW c \in Cells, CellStep(c), entry # NoHost
  PROVE  entry' = entry
BY EntrySteps DEF SpawnsAlone, Publish, SpawnFails

LEMMA BusyBefore ==
  ASSUME BaseInv, NEW c \in Cells, CellStep(c), Busy(c)', ~Enter(c), ~Publish(c)
  PROVE  Busy(c)
<1> USE DEF BaseInv
<1>1. CASE Ask(c) \/ Spawn(c) \/ BrokerStarts(c) \/ SpawnFails(c)
  BY <1>1, OwnCellEntering DEF Moves, Quiet, Rests, Busy
<1>2. CASE Settles(c)
  BY <1>2, Settled DEF Moves, Busy, Under
<1>3. CASE HostTimesOut(c) \/ Return(c) \/ Send(c) \/ (Dispatch(c) /\ ~Settles(c))
  BY <1>3, OwnCellServing DEF Moves, Fails, Quiet, Rests, Busy, Under
<1>4. CASE Works(c)
  BY <1>4, OwnThread DEF AtWork, Busy
<1>5. CASE Finish(c) \/ Report(c)
  BY <1>2, <1>5, OwnCellServing
<1> QED BY <1>1, <1>2, <1>3, <1>4, <1>5 DEF CellStep, Works

\* Nobody becomes busy by a step of the owner, or by a fault.
LEMMA BusyUnderOthers ==
  ASSUME BaseInv, Others, NEW c \in Cells
  PROVE  /\ cells'[c].host = cells[c].host
         /\ UnderWay(c)' => UnderWay(c)
         /\ cells'[c].thread # "none" => cells'[c].thread = cells[c].thread
         /\ Busy(c)' => Busy(c)
         /\ Under(c, "spawning") => cells'[c].phase = "spawning"
BY CellOfOthers DEF BaseInv, Stays, Fails, Moves, Busy, UnderWay, Under

\* The steps of the owner but the first.
Continues ==
  \/ RequestRestart \/ RestartKills \/ Relaunch \/ Connect \/ ConnectFails
  \/ Stop \/ BrokerShutsDown \/ Terminate
  \/ \E h \in Hosts : KernelDies(h) \/ BrokerExits(h)

LEMMA OpContinues ==
  ASSUME BaseInv, Continues
  PROVE  /\ entry' = entry
         /\ op' = NoOp \/ (op # NoOp /\ op'.kind = op.kind /\ op'.host = op.host)
         /\ op.kind = "evict" => Terminate \/ (op'.kind = op.kind /\ op'.host = op.host)
<1>1. CASE RequestRestart \/ RestartKills \/ Stop
  <2>0. NoOp.kind = "none" /\ BaseInv
    BY DEF NoOp
  <2>1. ASSUME NEW stage
        PROVE  /\ [op EXCEPT !.stage = stage].kind = op.kind
               /\ [op EXCEPT !.stage = stage].host = op.host
    BY <2>0 DEF BaseInv, TypeOK
  <2>2. ASSUME NEW kernel
        PROVE  LET x == [op EXCEPT !.stage = "restarting", !.kernel = kernel] IN
               x.kind = op.kind /\ x.host = op.host
    BY <2>0 DEF BaseInv, TypeOK
  <2>3. CASE RequestRestart
    <3>1. /\ entry' = entry /\ op.kind = "restart"
          /\ op' = NoOp \/ op' = [op EXCEPT !.stage = "sent"]
      BY <2>3 DEF RequestRestart
    <3> QED BY <2>0, <2>1, <3>1
  <2>4. CASE RestartKills
    <3>1. PICK kernel : kernel = hosts[op.host].km
      OBVIOUS
    <3>2. /\ entry' = entry /\ op.kind = "restart"
          /\ op' = NoOp \/ op' = [op EXCEPT !.stage = "restarting", !.kernel = kernel]
      BY <2>4, <3>1 DEF RestartKills
    <3> QED BY <2>0, <2>2, <3>2
  <2>5. CASE Stop
    <3>1. /\ entry' = entry /\ op.kind = "evict" /\ op' = [op EXCEPT !.stage = "stopping"]
      BY <2>5 DEF Stop
    <3> QED BY <2>0, <2>1, <3>1
  <2> QED BY <1>1, <2>3, <2>4, <2>5
<1>2. CASE Relaunch \/ Connect \/ ConnectFails \/ BrokerShutsDown \/ Terminate
  BY <1>2 DEF Relaunch, Connect, ConnectFails, BrokerShutsDown, Terminate, BaseInv, OpFits, NoOp
<1>3. CASE \E h \in Hosts : KernelDies(h) \/ BrokerExits(h)
  BY <1>3 DEF KernelDies, BrokerExits, BaseInv, OpFits, NoOp
<1> QED BY <1>1, <1>2, <1>3 DEF Continues

\* An undisturbed beginning: no call is under way and no thread at work.
LEMMA BeginsAlone ==
  ASSUME NEW kind \in Retires, Begin(kind), "owner" \notin disturbed'
  PROVE  /\ \A c \in Cells : ~UnderWay(c) /\ cells[c].thread = "none" /\ ~Busy(c)
         /\ cells' = cells /\ hosts' = hosts /\ op'.kind = kind /\ op'.host = entry
         /\ entry' = IF kind = "evict" THEN NoHost ELSE entry
         /\ op = NoOp
BY DEF Begin, UnderWay, Busy

LEMMA StepWaits ==
  ASSUME BaseInv, OwnerFits, Next, "owner" \notin disturbed'
  PROVE  OwnerWaits'
<1>1. ASSUME NEW c \in Cells, CellStep(c)
      PROVE  OwnerWaits'
  BY <1>1, OwnerIsIdle DEF OwnerFits, OwnerWaits, NoOp
<1>2. ASSUME NEW kind \in Retires, Begin(kind)
      PROVE  OwnerWaits'
  <2>1. \A c \in Cells : ~UnderWay(c)' /\ cells'[c].thread = "none"
    BY <1>2, BeginsAlone DEF UnderWay
  <2>2. op'.kind = "restart" => op'.host = entry'
    BY <1>2, BeginsAlone
  <2> QED BY <2>1, <2>2 DEF OwnerWaits
<1>3. CASE Continues
  <2>1. Others
    BY <1>3 DEF Continues, Others, OwnerStep
  <2>2. op # NoOp => \A c \in Cells : ~UnderWay(c)' /\ cells'[c].thread = "none"
    BY <2>1, BusyUnderOthers DEF OwnerFits, OwnerWaits
  <2> QED BY <1>3, <2>2, OpContinues DEF OwnerFits, OwnerWaits, NoOp
<1> QED BY <1>1, <1>2, <1>3 DEF Next, OwnerStep, Continues

LEMMA StepBusy ==
  ASSUME BaseInv, OwnerFits, Next, "owner" \notin disturbed'
  PROVE  BusyOnEntry'
<1> SUFFICES ASSUME NEW c \in Cells, Busy(c)'
             PROVE  cells'[c].host = entry'
  BY DEF BusyOnEntry
<1> USE DEF BaseInv, OwnerFits
<1>1. CASE Enter(c)
  BY <1>1, OwnCellEntering DEF Enter
<1>2. CASE Publish(c)
  BY <1>2, OwnCellEntering DEF Publish, Stays
<1>3. CASE CellStep(c) /\ ~Enter(c) /\ ~Publish(c)
  <2>1. Busy(c)
    BY <1>3, BusyBefore
  <2>2. cells[c].host = entry /\ entry' = entry /\ entry # NoHost
    BY <1>3, <2>1, BusyHere, TableWritten
  <2>3. ~Spawn(c)
    BY <2>2 DEF Spawn
  <2> QED BY <1>3, <2>2, <2>3, HostStays
<1>4. ASSUME NEW d \in Cells, CellStep(d), d # c
      PROVE  cells'[c].host = entry'
  <2>1. cells'[c] = cells[c] /\ Busy(c)
    BY <1>4, OneCell DEF Busy
  <2> QED BY <1>4, <2>1, BusyHere, TableWritten
<1>5. CASE Others
  <2>1. Busy(c) /\ cells'[c].host = cells[c].host
    BY <1>5, BusyUnderOthers
  <2>2. ~\E kind \in Retires : Begin(kind)
    BY <2>1, BeginsAlone
  <2> QED BY <1>5, <2>1, <2>2, BusyHere, OpContinues DEF Others, OwnerStep, Continues
<1> QED BY <1>1, <1>2, <1>3, <1>4, <1>5 DEF Next, Others

LEMMA StepSpawn ==
  ASSUME BaseInv, OwnerFits, Next, "twice" \notin disturbed'
  PROVE  OneSpawn' /\ SpawnsAlone'
<1> USE DEF BaseInv, OwnerFits
<1>1. ASSUME NEW c \in Cells, cells'[c].phase = "spawning"
      PROVE  Under(c, "spawning") \/ Spawn(c)
  <2>1. CASE CellStep(c)
    <3>1. ~Enter(c)
      BY <1>1, OwnCellEntering DEF Moves, Fails, Passes
    <3> QED BY <1>1, <2>1, <3>1, HostStays DEF Under
  <2>2. CASE \E d \in Cells : d # c /\ CellStep(d)
    BY <1>1, <2>2, OneCell DEF Under
  <2>3. CASE Others
    BY <1>1, <2>3, CellOfOthers DEF Fails, Moves, Under
  <2> QED BY <2>1, <2>2, <2>3 DEF Next, Others
<1>2. ASSUME NEW c \in Cells, NEW d \in Cells, c # d, Spawn(c), cells'[d].phase = "spawning"
      PROVE  FALSE
  <2>1. Under(d, "spawning")
    <3>1. CellStep(c)
      BY <1>2 DEF CellStep
    <3> QED BY <1>2, <3>1, OneCell DEF Under
  <2> QED BY <1>2, <2>1 DEF Spawn
<1>3. OneSpawn'
  BY <1>1, <1>2 DEF OneSpawn, Under
<1>4. ASSUME NEW c \in Cells, cells'[c].phase = "spawning"
      PROVE  entry' = NoHost
  <2>1. CASE Spawn(c)
    BY <2>1 DEF Spawn
  <2>2. CASE Under(c, "spawning") /\ entry = NoHost
    <3>1. ASSUME NEW d \in Cells, Publish(d)
          PROVE  FALSE
      <4>1. d = c
        BY <2>2, <3>1 DEF Publish, OneSpawn
      <4> QED BY <1>4, <3>1, <4>1, OwnCellEntering DEF Moves, Fails, Passes
    <3>2. CASE Others
      BY <2>2, <3>2, EntryOthers
    <3>3. CASE \E d \in Cells : CellStep(d)
      BY <2>2, <3>1, <3>3, EntrySteps DEF SpawnFails
    <3> QED BY <3>2, <3>3 DEF Next, Others
  <2> QED BY <1>1, <1>4, <2>1, <2>2 DEF SpawnsAlone
<1>5. SpawnsAlone'
  BY <1>4 DEF SpawnsAlone, Under
<1> QED BY <1>3, <1>5

\* No other step than these meets a main thread that has ended the old process.
LEMMA Relaunching ==
  ASSUME BaseInv, Others, NEW h \in Hosts, hosts[h].main = "relaunch", hosts'[h].main = "relaunch"
  PROVE  op' = op /\ hosts'[h].km = hosts[h].km /\ hosts'[h].live \subseteq hosts[h].live
<1> USE DEF BaseInv
<1>1. op.stage = "restarting" /\ op.host = h
  BY DEF MainFits
<1>2. ~((\E kind \in Retires : Begin(kind)) \/ RequestRestart \/ RestartKills \/ Stop
        \/ BrokerShutsDown \/ Terminate)
  <2>1. NoOp.stage = "none"
    BY DEF NoOp
  <2> QED BY <1>1, <2>1 DEF Begin, RequestRestart, RestartKills, Stop, BrokerShutsDown, Terminate
<1>3. ~(Relaunch \/ Connect \/ ConnectFails)
  <2>1. ~(Connect \/ ConnectFails)
    BY <1>1 DEF Connect, ConnectFails
  <2>2. ASSUME Relaunch PROVE FALSE
    <3>1. ~(RestartKills \/ Stop \/ BrokerShutsDown \/ Terminate)
      BY <1>2
    <3>2. hosts'[h] # hosts[h]
      <4>1. PICK km : hosts' = [hosts EXCEPT ![h].main = "connect",
                                 ![h].live = @ \cup {processes'}, ![h].km = km]
        BY <1>1, <2>2 DEF Relaunch, TypeOK
      <4>2. hosts'[h] = [hosts[h] EXCEPT !.main = "connect", !.live = @ \cup {processes'},
                                         !.km = km]
        BY <4>1 DEF TypeOK
      <4>3. hosts'[h].main = "connect"
        BY <4>2 DEF TypeOK, Host
      <4> QED BY <4>3
    <3>3. KernelDies(h) \/ BrokerExits(h) => processes' = processes
      BY DEF KernelDies, BrokerExits
    <3>4. processes' # processes
      BY <2>2 DEF Relaunch, NewProcess, TypeOK, Processes, NoProcess
    <3> QED BY <2>1, <2>2, <3>1, <3>2, <3>3, <3>4, HostOfOthers DEF Others
  <2> QED BY <2>1, <2>2
<1>4. PICK g \in Hosts : KernelDies(g) \/ BrokerExits(g)
  BY <1>2, <1>3 DEF Others, OwnerStep
<1>5. CASE g = h
  <2>1. ~BrokerExits(g)
    <3>1. BrokerExits(g) => hosts'[h] = [hosts[h] EXCEPT !.exited = TRUE, !.live = {},
                              !.km = NoProcess, !.client = "none", !.cellActive = FALSE,
                              !.main = "idle"]
      BY <1>5 DEF BrokerExits, TypeOK
    <3>2. hosts[h] \in Host
      BY DEF TypeOK
    <3> QED BY <3>1, <3>2 DEF Host
  <2>2. hosts'[h] = [hosts[h] EXCEPT !.live = @ \ {hosts[h].km}]
    BY <1>4, <1>5, <2>1 DEF KernelDies, TypeOK
  <2> QED BY <1>4, <2>1, <2>2 DEF KernelDies, TypeOK, Host
<1>6. CASE g # h
  BY <1>1, <1>4, <1>6 DEF KernelDies, BrokerExits, TypeOK
<1> QED BY <1>5, <1>6

LEMMA StepOneEach ==
  ASSUME BaseInv, EpochInv, OwnerFits, Next, "owner" \notin disturbed', "overlap" \notin disturbed
  PROVE  OneEach'
<1> SUFFICES ASSUME NEW h \in Hosts
             PROVE  /\ hosts'[h].live \subseteq {hosts'[h].km}
                    /\ hosts'[h].main = "relaunch"
                          => hosts'[h].km = op'.kernel /\ hosts'[h].live = {}
  BY DEF OneEach
<1> USE DEF BaseInv
<1>0. /\ hosts[h].live \subseteq {hosts[h].km}
      /\ hosts[h].main = "relaunch" => hosts[h].km = op.kernel /\ hosts[h].live = {}
      /\ hosts[h].live \subseteq Processes /\ NoProcess \notin Processes
  BY DEF OwnerFits, OneEach, TypeOK, Host, Processes, NoProcess
<1>1. ASSUME NEW c \in Cells, CellStep(c)
      PROVE  /\ hosts'[h].live \subseteq {hosts'[h].km}
             /\ hosts'[h].main # "relaunch"
  <2>1. hosts[h].main = "idle"
    BY <1>1, OwnerIsIdle DEF OwnerFits
  <2>2. Launch(c) /\ h = cells[c].host => hosts[h].km = NoProcess
    BY OwnThread DEF EpochInv, RepairFits, Remembers
  <2> QED BY <1>0, <1>1, <2>1, <2>2, HostOfCell
<1>2. CASE Others
  <2>1. BrokerShutsDown \/ Terminate => hosts[h].main = "idle"
    BY DEF BrokerShutsDown, Terminate, MainFits
  <2>2. hosts'[h].live \subseteq {hosts'[h].km}
    BY <1>0, <1>2, <2>1, HostOfOthers DEF Others
  <2>3. ASSUME hosts'[h].main = "relaunch"
        PROVE  hosts'[h].km = op'.kernel /\ hosts'[h].live = {}
    <3>1. CASE hosts[h].main = "relaunch"
      BY <1>0, <1>2, <2>3, <3>1, Relaunching
    <3>2. CASE hosts[h].main # "relaunch"
      BY <1>0, <1>2, <2>1, <2>3, <3>2, HostOfOthers DEF Others
    <3> QED BY <3>1, <3>2
  <2> QED BY <2>2, <2>3
<1> QED BY <1>1, <1>2 DEF Next, Others

LEMMA StepOwned ==
  ASSUME BaseInv, OwnerFits, Next, "owner" \notin disturbed'
  PROVE  Owned'
<1> DEFINE Owner(h) == h = entry' \/ \E c \in Cells : cells'[c].phase = "spawning" /\ cells'[c].host = h
<1> SUFFICES ASSUME NEW h \in Hosts, hosts'[h].live # {}, hosts'[h].state \notin {"stopping", "down"},
                    ~(op'.kind = "evict" /\ op'.host = h)
             PROVE  Owner(h)
  BY DEF Owned, Retired, Under
<1> USE DEF BaseInv
<1>1. ASSUME NEW c \in Cells, CellStep(c)
      PROVE  Owner(h)
  <2>1. op = NoOp
    BY <1>1, OwnerIsIdle DEF OwnerFits
  <2>2. CASE BrokerStarts(c) /\ h = cells[c].host
    BY <2>2 DEF BrokerStarts, Under
  <2>3. CASE Launch(c) /\ h = cells[c].host
    <3>1. cells[c].host = entry /\ entry' = entry
      BY <1>1, <2>3, BusyHere, TableWritten DEF Launch, Busy, OwnerFits
    <3> QED BY <2>3, <3>1
  <2>4. CASE ~((BrokerStarts(c) \/ Launch(c)) /\ h = cells[c].host)
    <3>1. /\ hosts[h].live # {} /\ hosts[h].state \notin {"stopping", "down"}
          /\ ~(SpawnFails(c) /\ h = cells[c].host)
      <4>1. SpawnFails(c) /\ h = cells[c].host => hosts'[h].state = "down"
        BY DEF SpawnFails, TypeOK, Host
      <4> QED BY <1>1, <2>4, <4>1, HostOfCell
    <3>2. h = entry \/ \E d \in Cells : Under(d, "spawning") /\ cells[d].host = h
      BY <2>1, <3>1 DEF OwnerFits, Owned, Retired, NoOp
    <3>3. CASE h = entry
      BY <1>1, <3>3, TableWritten DEF OwnerFits, Hosts, NoHost
    <3>4. ASSUME NEW d \in Cells, Under(d, "spawning"), cells[d].host = h, d # c
          PROVE  Owner(h)
      BY <1>1, <3>4, OneCell DEF Under
    <3>5. CASE Under(c, "spawning") /\ cells[c].host = h
      <4>1. ~Enter(c) /\ ~Spawn(c) /\ ~SpawnFails(c)
        BY <3>1, <3>5 DEF Enter, Spawn, Under
      <4>2. cells'[c].host = h /\ (cells'[c].phase = "spawning" \/ Publish(c))
        BY <1>1, <3>5, <4>1, HostStays DEF Under
      <4> QED BY <3>5, <4>2 DEF Publish
    <3> QED BY <3>2, <3>3, <3>4, <3>5
  <2> QED BY <2>2, <2>3, <2>4
<1>2. ASSUME hosts[h].live # {}, ~Retired(h), entry' = entry \/ h # entry, Others
      PROVE  Owner(h)
  <2>1. h = entry \/ \E d \in Cells : Under(d, "spawning") /\ cells[d].host = h
    BY <1>2 DEF OwnerFits, Owned
  <2> QED BY <1>2, <2>1, BusyUnderOthers
<1>3. ASSUME NEW kind \in Retires, Begin(kind)
      PROVE  Owner(h)
  <2>1. Others
    BY <1>3 DEF Others, OwnerStep
  <2>2. hosts' = hosts /\ op = NoOp /\ (entry' = entry \/ h # entry)
    BY <1>3, BeginsAlone
  <2> QED BY <1>2, <2>1, <2>2 DEF Retired, NoOp
<1>4. CASE Continues
  <2>1. Others /\ entry' = entry
    BY <1>4, OpContinues DEF Continues, Others, OwnerStep
  <2>2. CASE Relaunch /\ h = op.host
    <3>1. op.kind = "restart"
      BY <2>2 DEF Relaunch, OpFits, NoOp
    <3> QED BY <2>1, <2>2, <3>1 DEF OwnerFits, OwnerWaits
  <2>3. CASE ~(Relaunch /\ h = op.host)
    <3>1. /\ hosts[h].live # {} /\ hosts[h].state \notin {"stopping", "down"}
          /\ ~(Terminate /\ h = op.host)
      <4>1. Terminate /\ h = op.host => hosts'[h].state = "down"
        BY DEF Terminate, TypeOK, Host
      <4> QED BY <2>1, <2>3, <4>1, HostOfOthers DEF Others
    <3>2. ~(op.kind = "evict" /\ op.host = h)
      BY <1>4, <3>1, OpContinues
    <3> QED BY <1>2, <2>1, <3>1, <3>2 DEF Retired
  <2> QED BY <2>2, <2>3
<1> QED BY <1>1, <1>3, <1>4 DEF Next, OwnerStep, Continues

LEMMA StepOwner ==
  ASSUME BaseInv, EpochInv, OwnerInv, [Next]_vars
  PROVE  OwnerInv'
<1>1. CASE Next
  <2> SUFFICES ASSUME disturbed' \cap {"owner", "twice", "overlap"} = {}
               PROVE  OwnerFits'
    BY DEF OwnerInv
  <2>1. /\ OwnerFits /\ "owner" \notin disturbed' /\ "twice" \notin disturbed'
        /\ "overlap" \notin disturbed
    BY <1>1, DisturbedGrows DEF OwnerInv
  <2> QED BY <1>1, <2>1, StepWaits, StepBusy, StepSpawn, StepOneEach, StepOwned DEF OwnerFits
<1>2. CASE UNCHANGED vars
  BY <1>2 DEF vars, OwnerInv, OwnerFits, OwnerWaits, BusyOnEntry, OneSpawn, SpawnsAlone, OneEach,
              Owned, UnderWay, Under, Busy, Retired
<1> QED BY <1>1, <1>2

THEOREM OwnerCorrect == Spec => []OwnerInv
<1>1. Init => OwnerInv
  BY DEF Init, OwnerInv, OwnerFits, OwnerWaits, BusyOnEntry, OneSpawn, SpawnsAlone, OneEach, Owned,
         UnderWay, Under, Busy, NewCell, NoBroker, NoOp
<1>2. BaseInv /\ EpochInv /\ OwnerInv /\ [Next]_vars => OwnerInv'
  BY StepOwner
<1> QED BY <1>1, <1>2, BaseCorrect, EpochCorrect, PTL DEF Spec

\* The kernel of a session is one process: what runs outside a host that is being retired is
\* what the broker of the table's host, or of the one being started, has in its hands. The
\* evicted kernel is out of the table before it is stopped, a dying one is shut down before
\* another is launched, and a restart ends the old process first (kernel-plugin.ts entryFor,
\* evict; broker.py _reset_kernel, _dead_kernel_result, restart). It holds in every behaviour
\* up to the first of three races, each of which ends it: two first calls that start a kernel
\* each, a restart under a cell, two threads that repair one broker.
THEOREM OneKernelKept == Spec => []OneKernel
<1>1. ASSUME BaseInv, OwnerInv
      PROVE  OneKernel
  <2> SUFFICES ASSUME disturbed \cap {"owner", "twice", "overlap"} = {}
               PROVE  Cardinality(UNION {hosts[h].live : h \in {g \in Hosts : ~Retired(g)}}) <= 1
    BY DEF OneKernel
  <2> DEFINE running == UNION {hosts[h].live : h \in {g \in Hosts : ~Retired(g)}}
  <2>1. OneEach /\ Owned
    BY <1>1 DEF OwnerInv, OwnerFits
  <2>2. ASSUME NEW g \in Hosts, NEW h \in Hosts, ~Retired(g), ~Retired(h),
               hosts[g].live # {}, hosts[h].live # {}
        PROVE  g = h
    <3>1. g = entry \/ \E c \in Cells : Under(c, "spawning") /\ cells[c].host = g
      BY <2>1, <2>2 DEF Owned
    <3>2. h = entry \/ \E c \in Cells : Under(c, "spawning") /\ cells[c].host = h
      BY <2>1, <2>2 DEF Owned
    <3>3. entry # NoHost => ~\E c \in Cells : Under(c, "spawning")
      BY <1>1 DEF OwnerInv, OwnerFits, SpawnsAlone
    <3>4. \A c, d \in Cells : Under(c, "spawning") /\ Under(d, "spawning") => c = d
      BY <1>1 DEF OwnerInv, OwnerFits, OneSpawn
    <3> QED BY <3>1, <3>2, <3>3, <3>4 DEF Hosts, NoHost
  <2>3. \E p : running \subseteq {p}
    <3>1. CASE \E h \in Hosts : ~Retired(h) /\ hosts[h].live # {}
      <4>1. PICK h \in Hosts : ~Retired(h) /\ hosts[h].live # {}
        BY <3>1
      <4>2. running \subseteq hosts[h].live
        BY <2>2, <4>1
      <4>3. hosts[h].live \subseteq {hosts[h].km}
        BY <2>1 DEF OneEach
      <4> QED BY <4>2, <4>3
    <3>2. CASE ~\E h \in Hosts : ~Retired(h) /\ hosts[h].live # {}
      BY <3>2
    <3> QED BY <3>1, <3>2
  <2> HIDE DEF running
  <2>4. PICK p : running \subseteq {p}
    BY <2>3
  <2>5. IsFiniteSet({p}) /\ Cardinality({p}) = 1
    BY FS_Singleton
  <2>6. Cardinality(running) <= 1
    BY <2>4, <2>5, FS_Subset
  <2> QED BY <2>6 DEF running
<1> QED BY <1>1, BaseCorrect, OwnerCorrect, PTL
------------------------------------------------------------------------------
(* Where the user's code runs. *)

LEMMA StepThreads ==
  ASSUME BaseInv, ThreadsFit, Next, "late" \notin disturbed'
  PROVE  ThreadsFit'
<1> SUFFICES ASSUME NEW c \in Cells, cells'[c].thread # "none"
             PROVE  cells'[c].phase = "executing"
  BY DEF ThreadsFit, Under
<1> USE DEF BaseInv
<1>0. cells[c].thread # "none" => cells[c].phase = "executing"
  BY DEF ThreadsFit, Under
<1>1. CASE Ask(c) \/ Enter(c) \/ Spawn(c) \/ BrokerStarts(c) \/ Publish(c) \/ SpawnFails(c)
  BY <1>0, <1>1, OwnCellEntering DEF Moves, Fails, Passes, Quiet, Rests, Under
<1>2. CASE Settles(c)
  BY <1>2, Settled
<1>3. CASE Send(c) \/ Return(c) \/ (Dispatch(c) /\ ~Settles(c))
  BY <1>0, <1>3, OwnCellServing DEF Moves, Fails, Quiet, Rests, Under
<1>4. CASE Works(c)
  BY <1>0, <1>4, OwnThread DEF AtWork
<1>5. CASE Finish(c) \/ Report(c)
  BY <1>2, <1>5, OwnCellServing
<1>6. CASE HostTimesOut(c)
  BY <1>6 DEF HostTimesOut
<1>7. CASE CellStep(c)
  BY <1>1, <1>2, <1>3, <1>4, <1>5, <1>6, <1>7 DEF CellStep, Works
<1>8. CASE \E d \in Cells : CellStep(d) /\ d # c
  BY <1>0, <1>8, OneCell
<1>9. CASE Others
  BY <1>0, <1>9, CellOfOthers
<1> QED BY <1>7, <1>8, <1>9 DEF Next, Others

\* What BoundFits says of a cell, before and after a step.
Fits(c) ==
  /\ cells[c].phase \in {"new", "entering", "spawning"} => cells[c].step = "bind"
  /\ cells[c].step = "bind" => cells[c].ran = NoProcess
  /\ UserOn(c) /\ ~Relaunched(c) => hosts[cells[c].host].km \in {cells[c].bound, NoProcess}
  /\ cells[c].ran # NoProcess => cells[c].ran = cells[c].bound

LEMMA FitsOwn ==
  ASSUME BaseInv, ThreadsFit, NEW c \in Cells, Fits(c), CellStep(c), "late" \notin disturbed'
  PROVE  Fits(c)'
<1> USE DEF BaseInv
<1>1. CASE Ask(c) \/ Enter(c) \/ Spawn(c) \/ Publish(c) \/ SpawnFails(c)
  BY <1>1, OwnCellEntering DEF Fits, UserOn, Moves, Fails, Passes, Stays, Quiet, Rests,
                                  Relaunched, Under
<1>2. CASE BrokerStarts(c)
  BY <1>2, OwnCellEntering DEF Fits, UserOn, Relaunched, BrokerStarts, Under
<1>3. CASE Finish(c)
  <2> DEFINE h == cells[c].host
  <2>1. Settles(c) /\ Under(c, "executing")
    BY <1>3, OwnCellServing DEF ThreadsFit, Finish
  <2>2. h \in Hosts /\ hosts'[h].km = hosts[h].km /\ hosts[h].km = RunsIn(c)
    <3>1. h \in Hosts /\ hosts[h] \in Host
      BY <2>1, Settled DEF TypeOK
    <3>2. hosts'[h] = Freed(c, hosts[h]) /\ hosts[h].km = RunsIn(c)
      BY <1>3, <3>1 DEF Finish, TypeOK
    <3> QED BY <3>1, <3>2, FreedFields
  <2>3. Stays(c) /\ (\/ Moves(c, "executing", "checked") /\ cells[c].step = "bind" /\ cells'[c].step = "user"
                     \/ Moves(c, "executing", "closing") /\ cells'[c].step = cells[c].step)
    BY <2>1, Settled
  <2>4. ~Relaunched(c)
    BY <1>3 DEF Finish, Relaunched
  <2> QED BY <2>2, <2>3, <2>4 DEF Fits, UserOn, Stays, Moves, RunsIn
<1>4. CASE Settles(c) /\ ~Finish(c)
  <2>1. Under(c, "executing")
    BY <1>4 DEF Settles, Dispatch, Waiting, Report, ThreadsFit
  <2>2. Stays(c) /\ Moves(c, "executing", "closing") /\ cells'[c].step = cells[c].step
    BY <1>4, <2>1, Settled
  <2> QED BY <2>2 DEF Fits, UserOn, Stays, Moves
<1>5. ASSUME Dispatch(c), ~Settles(c)
      PROVE  Fits(c)'
  <2> DEFINE h == cells[c].host
  <2>1. h \in Hosts /\ Under(c, "executing") /\ hosts[h] \in Host
    BY <1>5 DEF Dispatch, Waiting, Under, HostKnown, TypeOK
  <2>2. hosts'[h].km = hosts[h].km
    <3>1. hosts'[h] = hosts[h] \/ hosts'[h] = Freed(c, hosts[h])
      BY <1>5, <2>1 DEF Dispatch, TypeOK
    <3> QED BY <2>1, <3>1, FreedFields
  <2>3. Alive(h) => hosts[h].km # NoProcess
    BY <2>1 DEF Alive, Host, Processes, NoProcess
  <2>4. /\ Moves(c, "executing", "executing") /\ cells'[c].host = h
        /\ cells'[c].step = cells[c].step
        /\ \/ Stays(c)
           \/ /\ Alive(h)
              /\ \/ /\ cells[c].step = "bind" /\ cells'[c].ran = cells[c].ran
                    /\ cells'[c].bound = hosts[h].km
                 \/ /\ cells[c].step = "user" /\ cells'[c].bound = cells[c].bound
                    /\ cells'[c].ran = hosts[h].km
    BY <1>5, OwnCellServing
  <2>5. ~Relaunched(c)
    BY <1>5 DEF Dispatch, Waiting, Relaunched
  <2> QED BY <2>1, <2>2, <2>3, <2>4, <2>5 DEF Fits, UserOn, Stays, Moves, Under
<1>6. CASE Send(c)
  <2>1. /\ Stays(c) /\ cells'[c].step = cells[c].step /\ Under(c, "checked")
        /\ cells'[c].phase \in {"executing", "closing"}
    BY <1>6, OwnCellServing DEF Moves, Fails
  <2>2. hosts'[cells[c].host].km = hosts[cells[c].host].km
    <3>1. cells[c].host \in Hosts /\ hosts[cells[c].host] \in Host
      BY <1>6 DEF Send, Under, HostKnown, TypeOK
    <3> QED BY <1>6, <3>1 DEF Send, TypeOK, Host
  <2>3. ~Relaunched(c)
    BY <2>1 DEF FreshFits, Relaunched, Under
  <2> QED BY <2>1, <2>2, <2>3 DEF Fits, UserOn, Stays, Under
<1>7. CASE SeesDeath(c) \/ Overruns(c) \/ Kill(c)
  <2>1. /\ Stays(c) /\ cells'[c].phase = cells[c].phase /\ cells'[c].step = cells[c].step
        /\ cells[c].host \in Hosts /\ ~Relaunched(c)
    BY <1>7, OwnThread DEF Works, AtWork, HostKnown, Relaunched
  <2>2. hosts'[cells[c].host].km \in {hosts[cells[c].host].km, NoProcess}
    <3>1. hosts[cells[c].host] \in Host
      BY <2>1 DEF TypeOK
    <3> QED BY <1>7, <2>1, <3>1 DEF SeesDeath, Overruns, Kill, TypeOK, Host
  <2> QED BY <2>1, <2>2 DEF Fits, UserOn, Stays
<1>8. CASE Return(c)
  BY <1>8, OwnCellServing DEF Fits, UserOn, Stays, Quiet, Moves
<1>9. ~HostTimesOut(c)
  BY DEF HostTimesOut
<1>10. CASE Report(c)
  BY <1>3, <1>4, <1>10, OwnCellServing
<1>11. CASE Launch(c) \/ Replace(c) \/ ReplaceFails(c) \/ Note(c)
  <2>1. /\ Stays(c) /\ cells'[c].phase = cells[c].phase /\ cells'[c].step = cells[c].step
        /\ Relaunched(c)'
    BY <1>11, OwnThread DEF Works, AtWork, AfterStart, Relaunched
  <2> QED BY <2>1 DEF Fits, UserOn, Stays
<1> QED BY <1>1, <1>2, <1>3, <1>4, <1>5, <1>6, <1>7, <1>8, <1>9, <1>10, <1>11 DEF CellStep

\* Another cell's step, or a fault, leaves the process a call's capability is bound in, or
\* takes it away.
LEMMA StepFits ==
  ASSUME BaseInv, AloneFits, OwnerFits, ThreadsFit, BoundFits, Next, disturbed' = {}
  PROVE  BoundFits'
<1> SUFFICES ASSUME NEW c \in Cells PROVE Fits(c)'
  BY DEF BoundFits, Fits
<1> USE DEF BaseInv
<1>0. Fits(c)
  BY DEF BoundFits, Fits
<1>1. CASE CellStep(c)
  BY <1>0, <1>1, FitsOwn
<1>2. ASSUME NEW d \in Cells, CellStep(d), d # c
      PROVE  Fits(c)'
  <2>1. cells'[c] = cells[c]
    BY <1>2, OneCell
  <2>2. ~UserOn(c)
    <3> SUFFICES ASSUME UserOn(c) PROVE FALSE
      OBVIOUS
    <3>1. UnderWay(c)
      BY DEF UserOn, UnderWay
    <3>2. Straggles(d) /\ ~UnderWay(d)
      BY <1>2, <3>1, OthersStraggle DEF AloneFits, OneUnderWay
    <3>3. cells[d].thread # "none"
      BY <3>2, OwnThread DEF Straggles, AtWork, Finish, Report
    <3> QED BY <3>2, <3>3 DEF ThreadsFit, UnderWay, Under
  <2> QED BY <1>0, <2>1, <2>2 DEF Fits, UserOn
<1>3. CASE Others
  <2>1. /\ Stays(c) /\ cells'[c].step = cells[c].step
        /\ cells'[c].phase = cells[c].phase \/ cells'[c].phase = "closing"
        /\ UserOn(c)' /\ Relaunched(c) => Relaunched(c)'
    BY <1>3, CellOfOthers DEF Stays, Fails, Moves, UserOn, Relaunched, FreshFits, Under
  <2>2. UserOn(c) => cells[c].host \in Hosts
                     /\ hosts'[cells[c].host].km \in {hosts[cells[c].host].km, NoProcess}
    <3> SUFFICES ASSUME UserOn(c)
                 PROVE  /\ cells[c].host \in Hosts
                        /\ hosts'[cells[c].host].km \in {hosts[cells[c].host].km, NoProcess}
      OBVIOUS
    <3>1. UnderWay(c) /\ cells[c].host \in Hosts
      BY DEF UserOn, UnderWay, HostKnown
    <3>2. op = NoOp
      BY <3>1 DEF OwnerFits, OwnerWaits
    <3>3. ~Relaunch
      BY <3>2 DEF Relaunch, NoOp
    <3> QED BY <1>3, <3>1, <3>3, HostOfOthers DEF Others
  <2> QED BY <1>0, <2>1, <2>2 DEF Fits, UserOn, Stays
<1> QED BY <1>1, <1>2, <1>3 DEF Next, Others

LEMMA StepQuiet ==
  ASSUME BaseInv, AloneInv, OwnerInv, QuietInv, [Next]_vars
  PROVE  QuietInv'
<1>1. CASE Next
  <2>1. disturbed \subseteq disturbed'
    BY <1>1, DisturbedGrows
  <2>2. "late" \notin disturbed' => ThreadsFit'
    BY <1>1, <2>1, StepThreads DEF QuietInv
  <2>3. disturbed' = {} => BoundFits'
    BY <1>1, <2>1, StepFits DEF QuietInv, AloneInv, OwnerInv
  <2> QED BY <2>2, <2>3 DEF QuietInv
<1>2. CASE UNCHANGED vars
  BY <1>2 DEF vars, QuietInv, ThreadsFit, BoundFits, UserOn, Relaunched, Under
<1> QED BY <1>1, <1>2

THEOREM QuietCorrect == Spec => []QuietInv
<1>1. Init => QuietInv
  BY DEF Init, QuietInv, ThreadsFit, BoundFits, UserOn, NewCell
<1>2. BaseInv /\ AloneInv /\ OwnerInv /\ QuietInv /\ [Next]_vars => QuietInv'
  BY StepQuiet
<1> QED BY <1>1, <1>2, BaseCorrect, AloneCorrect, OwnerCorrect, PTL DEF Spec

\* The user's code runs in the process in which the call's capability was bound just before,
\* whenever the owner waits for the call, calls follow each other and the host's timer does
\* not give one up: between the two requests the broker may lose its kernel, but what it then
\* launches ends the call with an unknown outcome (kernel-plugin.ts runCell; broker.py
\* execute, _reset_kernel).
THEOREM CellsRunWhereBound == Spec => []QuietCellRunsWhereBound
<1>1. QuietInv => QuietCellRunsWhereBound
  BY DEF QuietInv, BoundFits, QuietCellRunsWhereBound, CellRunsWhereBound
<1> QED BY <1>1, QuietCorrect, PTL
------------------------------------------------------------------------------
(* What the session is told. *)

\* Where a thread's call stands, as long as no call was given up.
LEMMA ThreadOnTable ==
  ASSUME BaseInv, AloneFits, ThreadsFit, NEW c \in Cells, cells[c].thread # "none"
  PROVE  /\ Under(c, "executing") /\ cells[c].host \in Hosts
         /\ \/ cells[c].host = entry
            \/ entry = NoHost /\ op.host = cells[c].host
BY DEF ThreadsFit, BaseInv, HostKnown, AloneFits, OnTheTable, Evicting, Under

\* A thread that has launched a kernel has, until it reports.
LEMMA RelaunchedKept ==
  ASSUME BaseInv, NEW c \in Cells, CellStep(c), Relaunched(c), ~Report(c)
  PROVE  Relaunched(c)' /\ cells'[c].host = cells[c].host
<1> USE DEF BaseInv
<1>1. ~(Ask(c) \/ Enter(c) \/ Spawn(c) \/ BrokerStarts(c) \/ Publish(c) \/ SpawnFails(c) \/ Send(c))
  BY DEF Relaunched, FreshFits, Ask, Enter, Spawn, BrokerStarts, Publish, SpawnFails, Send, Under
<1>2. ~(Dispatch(c) \/ Finish(c) \/ SeesDeath(c) \/ Overruns(c) \/ Kill(c) \/ Launch(c))
  BY DEF Relaunched, Dispatch, Waiting, Finish, SeesDeath, Overruns, Kill, Launch
<1>3. CASE Replace(c) \/ ReplaceFails(c) \/ Note(c)
  BY <1>3, OwnThread DEF Works, AtWork, Stays, AfterStart, Relaunched
<1>4. CASE HostTimesOut(c) \/ Return(c)
  BY <1>4, OwnCellServing DEF Quiet, Rests, Stays, Relaunched
<1> QED BY <1>1, <1>2, <1>3, <1>4 DEF CellStep

\* The kernel in the table is the one known of, or a thread has yet to tell.
Tells(p) ==
  \/ hosts[entry].km \in {p, NoProcess}
  \/ \E c \in Cells : Relaunched(c) /\ cells[c].host = entry

LEMMA TellsOn ==
  ASSUME BaseInv, AloneFits, ThreadsFit, NEW c \in Cells, CellStep(c), ~Report(c), NEW p,
         entry # NoHost, Tells(p)
  PROVE  Tells(p)' /\ entry' = entry /\ op' = op
<1> USE DEF BaseInv
<1>1. entry' = entry /\ op' = op /\ entry \in Hosts /\ Started(entry)
  BY TableWritten, OneCell DEF AloneFits, StartedFits, TypeOK
<1>2. CASE Launch(c)
  <2>1. cells[c].host = entry
    BY <1>2, ThreadOnTable DEF Launch
  <2>2. Relaunched(c)' /\ cells'[c].host = entry
    BY <1>2, <2>1, OwnThread DEF Works, AtWork, Stays, AfterStart, Relaunched
  <2> QED BY <1>1, <2>2 DEF Tells
<1>3. CASE ~Launch(c)
  <2>1. hosts'[entry].km \in {hosts[entry].km, NoProcess}
    BY <1>1, <1>3, HostOfCell DEF Started
  <2>2. ASSUME NEW d \in Cells, Relaunched(d), cells[d].host = entry
        PROVE  Relaunched(d)' /\ cells'[d].host = entry
    <3>1. CASE d = c
      BY <2>2, <3>1, RelaunchedKept
    <3>2. CASE d # c
      BY <2>2, <3>2, OneCell DEF Relaunched
    <3> QED BY <3>1, <3>2
  <2> QED BY <1>1, <2>1, <2>2 DEF Tells
<1> QED BY <1>2, <1>3

LEMMA KnowsOwn ==
  ASSUME BaseInv, AloneFits, ThreadsFit, KnownFits, NEW c \in Cells, CellStep(c)
  PROVE  KnownFits'
<1> USE DEF BaseInv
<1>1. CASE known' = NoProcess
  BY <1>1 DEF KnownFits
<1>2. ASSUME known' # NoProcess, known' = known, ~Report(c)
      PROVE  KnownFits'
  <2>1. entry # NoHost /\ op.host # entry /\ Tells(known)
    BY <1>2 DEF KnownFits, Tells
  <2>2. PICK p : p = known
    OBVIOUS
  <2>3. Tells(p)' /\ entry' = entry /\ op' = op
    BY <1>2, <2>1, <2>2, TellsOn
  <2> QED BY <1>2, <2>1, <2>2, <2>3 DEF KnownFits, Tells
<1>3. CASE Finish(c) /\ known' # known
  <2> DEFINE h == cells[c].host
  <2>1. op.host # h /\ known' = cells[c].ran /\ cells[c].step = "user"
    BY <1>3 DEF Finish, KnownAfter
  <2>2. h = entry /\ h \in Hosts
    BY <1>3, <2>1, ThreadOnTable DEF Finish
  <2>3. hosts'[h].km = hosts[h].km
    <3>1. hosts[h] \in Host /\ hosts'[h] = Freed(c, hosts[h])
      BY <1>3, <2>2 DEF Finish, TypeOK
    <3> QED BY <3>1, FreedFields
  <2>4. hosts[h].km = cells[c].ran /\ entry' = entry /\ op' = op
    BY <1>3, <2>1 DEF Finish, RunsIn
  <2> QED BY <2>1, <2>2, <2>3, <2>4 DEF KnownFits, Hosts, NoHost
<1>4. CASE Report(c)
  <2>1. Under(c, "executing") /\ (cells[c].host = entry \/ entry = NoHost)
    BY <1>4, ThreadOnTable DEF Report
  <2>2. known' = NoProcess \/ (op.host = cells[c].host /\ known' = known)
    BY <1>4, <2>1 DEF Report, KnownAfter, Verdict
  <2>3. known' = NoProcess
    BY <2>1, <2>2 DEF KnownFits
  <2> QED BY <1>1, <2>3
<1>5. known' = known \/ Finish(c) \/ Report(c)
  <2>1. Ask(c) \/ Enter(c) \/ Spawn(c) \/ BrokerStarts(c) \/ Publish(c) => known' = known
    BY DEF Ask, Enter, Spawn, BrokerStarts, Publish
  <2>2. SpawnFails(c) \/ Send(c) \/ Dispatch(c) \/ SeesDeath(c) \/ Overruns(c) => known' = known
    BY DEF SpawnFails, Send, Dispatch, SeesDeath, Overruns
  <2>3. Kill(c) \/ Launch(c) \/ Replace(c) \/ ReplaceFails(c) \/ Note(c) => known' = known
    BY DEF Kill, Launch, Replace, ReplaceFails, Note
  <2>4. HostTimesOut(c) \/ Return(c) => known' = known
    BY DEF HostTimesOut, Return
  <2> QED BY <2>1, <2>2, <2>3, <2>4 DEF CellStep
<1> QED BY <1>1, <1>2, <1>3, <1>4, <1>5

LEMMA KnowsOthers ==
  ASSUME BaseInv, KnownFits, Others
  PROVE  KnownFits'
<1> USE DEF BaseInv
<1>1. CASE \/ \E kind \in Retires : Begin(kind)
           \/ \E h \in Hosts : BrokerExits(h)
  <2>1. known' = NoProcess
    BY <1>1 DEF Begin, BrokerExits
  <2> QED BY <2>1 DEF KnownFits
<1>2. CASE ~((\E kind \in Retires : Begin(kind)) \/ \E h \in Hosts : BrokerExits(h))
  <2>1. Continues
    BY <1>2 DEF Others, OwnerStep, Continues
  <2>2. known' = known
    BY <1>2, <2>1 DEF Continues, RequestRestart, RestartKills, Relaunch, Connect, ConnectFails, Stop,
                      BrokerShutsDown, Terminate, KernelDies
  <2>3. CASE known = NoProcess
    BY <2>2, <2>3 DEF KnownFits
  <2>4. CASE known # NoProcess
    <3>1. entry \in Hosts /\ entry # NoHost /\ op.host # entry
      BY <2>4 DEF KnownFits, TypeOK
    <3>2. entry' = entry /\ op'.host \in {NoHost, op.host}
      BY <2>1, OpContinues DEF NoOp
    <3>3. hosts'[entry].km = hosts[entry].km
      BY <1>2, <3>1, HostOfOthers DEF Others
    <3>4. ASSUME NEW c \in Cells, Relaunched(c), cells[c].host = entry
          PROVE  Relaunched(c)' /\ cells'[c].host = entry
      BY <1>2, <3>1, <3>4, CellOfOthers DEF Relaunched
    <3> QED BY <2>2, <2>4, <3>1, <3>2, <3>3, <3>4 DEF KnownFits
  <2> QED BY <2>3, <2>4
<1> QED BY <1>1, <1>2

LEMMA StepKnown ==
  ASSUME BaseInv, AloneInv, QuietInv, KnownInv, [Next]_vars
  PROVE  KnownInv'
<1>1. CASE Next
  <2> SUFFICES ASSUME disturbed' \cap {"late", "together"} = {} PROVE KnownFits'
    BY DEF KnownInv
  <2>1. AloneFits /\ ThreadsFit /\ KnownFits
    BY <1>1, DisturbedGrows DEF AloneInv, QuietInv, KnownInv
  <2> QED BY <1>1, <2>1, KnowsOwn, KnowsOthers DEF Next, Others
<1>2. CASE UNCHANGED vars
  BY <1>2 DEF vars, KnownInv, KnownFits, Relaunched
<1> QED BY <1>1, <1>2

THEOREM KnownCorrect == Spec => []KnownInv
<1>1. Init => KnownInv
  BY DEF Init, KnownInv, KnownFits
<1>2. BaseInv /\ AloneInv /\ QuietInv /\ KnownInv /\ [Next]_vars => KnownInv'
  BY StepKnown
<1> QED BY <1>1, <1>2, BaseCorrect, AloneCorrect, QuietCorrect, PTL DEF Spec

\* A cell whose result says nothing of a new generation ran in the process whose namespace
\* the session was last told of, unless the owner took that one away: whatever kernel dies
\* between two cells, the next one says so before the code of the user runs (broker.py
\* _dead_kernel_result, _unknown_result; kernel-plugin.ts runCell, restart, evict). A restart
\* or an eviction may overlap the cells; it holds up to the first call that the host gave up
\* or that began before another ended.
THEOREM LossIsTold == Spec => LostNamespaceIsTold
<1> DEFINE Told(c) == /\ Under(c, "executing") /\ cells[c].step = "user"
                      /\ cells'[c].result = "ok"
                      => \/ disturbed \cap {"late", "together"} # {}
                         \/ known \in {NoProcess, cells[c].ran}
<1>1. ASSUME BaseInv, BaseInv', AloneInv, QuietInv, KnownInv, [Next]_vars, NEW c \in Cells
      PROVE  Told(c)
  <2> SUFFICES ASSUME Under(c, "executing"), cells[c].step = "user", cells'[c].result = "ok",
                      disturbed \cap {"late", "together"} = {}, known # NoProcess
               PROVE  known = cells[c].ran
    OBVIOUS
  <2>1. cells[c].result = None /\ ~Reported(c)
    BY <1>1 DEF BaseInv, ResultFits, Under, Reported
  <2>2. Reported(c)'
    BY <1>1, SessionAssumption DEF BaseInv, ResultFits, Reported
  <2>3. Next
    BY <1>1, <2>1, <2>2 DEF vars, Reported
  <2>4. Reports(c)
    BY <1>1, <2>1, <2>2, <2>3, ReportSteps
  <2> DEFINE h == cells[c].host
  <2>5. /\ cells[c].thread = "run" /\ hosts[h].km = cells[c].ran
        /\ cells[c].ran \in hosts[h].live
    BY <2>4 DEF Reports, Finish, RunsIn
  <2>6. AloneFits /\ KnownFits /\ ThreadsFit
    BY <1>1 DEF AloneInv, KnownInv, QuietInv
  <2>7. h \in Hosts /\ h = entry
    BY <1>1, <2>5, <2>6, ThreadOnTable DEF KnownFits
  <2>8. cells[c].ran # NoProcess
    BY <1>1, <2>5, <2>7 DEF BaseInv, TypeOK, Host, Processes, NoProcess
  <2>9. ASSUME NEW d \in Cells, Relaunched(d)
        PROVE  FALSE
    <3>1. Under(d, "executing")
      BY <1>1, <2>6, <2>9, ThreadOnTable DEF Relaunched
    <3>2. d = c
      BY <2>6, <3>1 DEF AloneFits, OneUnderWay, UnderWay, Under
    <3> QED BY <2>5, <2>9, <3>2 DEF Relaunched
  <2> QED BY <2>5, <2>6, <2>7, <2>8, <2>9 DEF KnownFits
<1>2. BaseInv /\ BaseInv' /\ AloneInv /\ QuietInv /\ KnownInv /\ [Next]_vars
      => [\A c \in Cells : Told(c)]_vars
  BY <1>1
<1> QED BY <1>2, BaseCorrect, AloneCorrect, QuietCorrect, KnownCorrect, PTL
        DEF Spec, LostNamespaceIsTold
=============================================================================
