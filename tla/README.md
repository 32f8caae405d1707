# Verification of the daily-work harness

This directory models, model-checks and proves properties of the code in
`packages/dsh-daily-work` and `packages/dsh-ipython`: a host that lets one root
agent spread work over child agents, keeps a durable record of every run, and
gives each agent a persistent Python kernel.

Paths below are relative to the repository; `DDW` is
`packages/dsh-daily-work/src`, `IPY` is `packages/dsh-ipython/src`.

## 1. Inventory

| Part | State it keeps | Operations | Hard behaviour | What makes it correct |
|---|---|---|---|---|
| Admission states (`DDW/states.ts`) | none | `holdsSlot`, `canTransition` | - | a final state has no way out; an unaccounted task keeps its slot |
| Run record and budget (`DDW/record.ts`, `counting.ts`) | tasks, ready table, tombstones, budget, phase, target | `applySpend`, `retainAsUnknown`, `heldSlots`, `mayAdmit` | clamps that hide a double release, comparisons at a limit | no negative balance, held work stays paid for, occupancy within the target |
| Work service (`DDW/host.ts`) | the domain of records, drain leaders, the launch port, pending authorizations | `createRun`, `submitReady`, `tryReserveAdmission`, `transition`, `recordSpend`, `pause`, `setTargetChildren`, `requestDrain`, `authorizeRun`, ... | every operation awaits a durable write; drains, completions and commands interleave there | the record's history is one the operations allow; no submission lost, no child launched twice |
| Child gate (`DDW/capacity.ts`) | live children, task reservations of this process | `reserveTask`, `reserveChild`, `releaseTask`, `releaseChild` | shared by all runs; a place is taken inside a write that may fail | never above the host's capacity; agrees with the records at rest |
| Completion observer (`DDW/completion.ts`) | none | `handleCompletion` | a child may end before its launch is recorded | one end frees one slot and wakes the leader |
| Launch port (`DDW/launch-port.ts`) | the root agent it launches under | `launch` | resolves while the child already runs; may throw after it started | - |
| Tool and command (`DDW/tools.ts`, `command-work.ts`, `host-plugin.ts`) | none | `submit`, `finish`, `/work start, stop, target` | a human acts at any moment | - |
| Reconciliation (`DDW/reconcile.ts`, `recovery.ts`) | none | `reconcileRun`, `relaunchPrepared` | restart between two writes | no task is both relaunched and accounted for |
| Authorization (`DDW/authorization.ts`, `target-setting.ts`) | the authorization under way | `authorizeRun`, `set` | concurrent starts of one session, each of them awaiting writes | one run per session, never written over |
| Home lock (`DDW/homelock.ts`) | a lock held by the kernel, a note of its holder | `acquireHomeLock`, `release` | the file is opened, locked, compared and written in four steps | one owner; a refusal names it |
| Effect ledger (`DDW/effects.ts`) | one durable row per operation, a promise chain per operation | `recordIntent`, `perform`, `reconcile`, `cancel` | a crash between the marker, the request and its outcome; a reply lost while the request lands | nothing is sent twice; the record never says more than is known |
| Kernel supervisor (`DDW/kernel-lifecycle.ts`) | per kernel: a bounded queue, the running cell, timers, epoch, state | `runCell`, `reset`, `park`, `rebind`, `close`, `evict`, grace and escalation | timers, settlements and owner commands meet in any order | a cell given up shares its process with no other; a lost namespace is told; every caller is answered |
| Artifacts (`DDW/artifacts.ts`) | immutable objects, an index, a log of references, tombstones | publish, commit, checkpoint, `collectGarbage` | the collector judges by what it read earlier; crash between the three writes of a capture | what was called durable stays readable |
| Data plane (`DDW/data-plane.ts`, `data-service.ts`, `data-bridge.ts`, `data-concurrency.ts`, `observations.ts`) | the limiter's count and its queue, cursors, open requests | capture, read, save | a save holds a slot while it asks for more | no slot leaks; every request is answered |
| History, web, verification (`DDW/history-plane.ts`, `web-*.ts`, `verify.ts`) | caches, verification ledger | render, record | mostly parsing | - |
| Isolation and scope (`DDW/worktree-isolation.ts`, `programmatic-scope.ts`, ...) | worktree registry | create, seal, remove | crash while a worktree is removed | a dirty worktree is never removed |
| Cell lease and its ledger (`IPY/bridge.ts`, `bridge-ledger.ts`) | a cell's calls, its table of request ids, a FIFO, one durable row per call | `invoke`, `publish`, `runQueue`, `runOne`, `report`, `close`, `drain`, `flush` | a close, a repeated frame or a rejected write between any two awaits; a crash of the host | the ledger is truthful wherever the host dies; a request runs one operation once; a close finishes and is final |
| Session's kernel service (`IPY/kernel-plugin.ts`, `kernel.ts`) | the table of kernels by session, a broker process per entry, requests under way | `runCell`, `entryFor`, `execute`, `restart`, `evict` | two first calls together; a restart or a death between the two requests of a cell; a request given up that the broker still works on | one kernel per session; a cell runs in the namespace it was bound in; a lost namespace is told |
| Broker (`IPY/broker.py`) | the kernel's process, an epoch, a thread per cell | start, execute, reset, restart, shutdown | two threads replace the same kernel; the kernel or the broker dies | an epoch names one namespace |
| Protocol and notices (`IPY/protocol.ts`, `native-call.ts`, `late-notice.ts`) | pending frames, notices | encode, call, notice | late and lost answers | a late result is never the wrong one's |

How they meet: the root's tool and the human's command call the work service;
the work service writes records through one write chain per domain, takes places
in the gate and launches children through the port; a child announces itself to
the gate (`agent/created`, `agent/disposed`) and its end to the completion
observer (`subagent/end`), which calls the work service again. A program running
in an agent's kernel reaches the host's tools through its cell's lease: frames come
in over a socket, the lease writes the intent to its ledger, runs the tool and
writes the settlement before it answers; the end of the cell closes the lease.
The kernel service starts a broker per session, the broker a kernel, and each call
of a session sends it two requests, one that binds the cell's lease and one that
runs the program. Tools that reach outside go through the effect ledger; files that
are shown to an agent are captured into the artifact store, under the data plane's
limiter, and read back from there.

The kernel supervisor (`kernel-lifecycle.ts`) and the artifact collector are complete
and tested, but no production path of this commit wires them up: the models take
their public methods as what an owner may call.

## 2. Modules

| Module | Models | Kind |
|---|---|---|
| `AdmissionStates` | `DDW/states.ts` | operators |
| `RunRecord` | `DDW/record.ts`, the pure parts of `host.ts` and `counting.ts` | operators |
| `RunLedger` | one run's record under every operation of the work service | state machine, the abstract specification of a record |
| `ChildGate` | `DDW/capacity.ts` | state machine |
| `RollingDrain` | the work service, gate, port, observer, tool and command together | state machine composing `RunRecord`, `ChildGate` (`Gate`), refining `RunLedger` (`Ledger(r)`) |
| `BridgeLedger` | the row of `IPY/bridge-ledger.ts` and what its reader is told | operators |
| `CellLease` | the lease of `IPY/bridge.ts` | state machine, refining `RequestOnce` (`Once`) |
| `RequestOnce` | what a lease promises of a request id | abstract specification |
| `WorkStart` | how a session's run is created and how the leader's callers are answered | state machine |
| `KernelSession` | the kernel of one session: `IPY/kernel-plugin.ts`, `kernel.ts`, `broker.py` | state machine |
| `KernelSupervisor` | one kernel slot of `DDW/kernel-lifecycle.ts` | state machine |
| `EffectLedger` | `DDW/effects.ts`, the remote system and its adapter | state machine |
| `DataPlane` | captures, reads, saves and the collector of the data plane and its store | state machine |
| `RunLedgerProofs`, `RollingDrainProofs`, `WorkStartProofs`, `CellLeaseProofs`, `KernelSessionProofs`, `KernelSupervisorProofs`, `EffectLedgerProofs`, `DataPlaneProofs` | theorems | proofs |
| `MC` and the name of a state machine | its small instance; of `ChildGate` to `DataPlane`, one each | TLC |

Each state machine is the composition of the parts that share its state; what
crosses from one to another is an action here and there: a settled child of
`RollingDrain` is a `Wake` of `WorkStart`, the end of a cell in `KernelSession` is
`BeginClose` of `CellLease`.

### RunLedger

`rec` is the stored run record: `phase`, `target` (`requestedTarget`), `tasks`
(state, child id, attempt and reserved cost of each), `ready` (the durable ready
table), `tombstones` (`terminalTombstones`) and `budget`. Each action is one
method of `WorkService` that ends in one `update` of the storage domain, which
serializes them, so an action per method is what the record sees. Prompts,
digests, capabilities, the outbox, evidence and timestamps are left out: no
decision modelled here reads them. `Refusal` lists the refusals of
`tryReserveAdmission` in the order the code tries them. `MaxAttempts` and
`MaxCharged` bound the admissions of a task and the totals of the budget.
`Releases = {FALSE}`: no caller in the repository asks `recordSpend` to release a
reservation of a task that still runs.

### ChildGate

`live` is the set of children between `agent/created` and `agent/disposed`,
`slots[t]` the child id named by task `t`'s entry. An entry whose child is live is
counted with the child (`classify`). Occupancy classes other than "counts or not"
are left out, as they change no decision. `OwnChild` states that each task names
its own child: it is the tool's default (`child-<taskId>`), and an explicit
`childId` shared by two tasks is outside the model.

### RollingDrain

Every action is what runs between two awaits. The leader of a run (`drain[r].pc`)
goes through `runDrainLeader` and `runDrainPass`:

    idle -> entry -> row -> reserve -> admitting -> retire -> write(launching) -> sync
         -> launch -> launched -> write(accepted | unknown) -> sync -> row ...

`TakeSlot` is the body of `tryReserveAdmission`'s update, which takes the gate's
place; `Persist` or `PersistFails` is the outcome of that write. `Write` is
`transition`'s durable edge and `Sync` the `syncSlotToState` that runs after its
await. The observer's event goes through the same two steps (`Settle`,
`SyncSettled`) after `ChildEnds` has read the task's state without waiting.
`Crash` drops everything that is process-local and keeps `recs`; the sweep at boot
wakes the runs with ready rows, but no port exists until a human starts the
session again (`Start`).

`ChainFree`, `Resynced` and `MayWrite` say what is assumed of the storage domain,
a library: updates of a domain run one after another, and the code after an
update's await runs before the next update is durable, though perhaps not before
the next update's function is called.

A `submit` that repeats a task's row, or asks for another prompt under its id and is
refused (`ReadyConflictError`), leaves the record as it is; the refusal wakes nobody, so it
is a stuttering step. The check of `expectedRunRevision` is left out: no caller passes one.

`begun` and `lost` are history variables: the launches whose end was never reported,
and those whose end nobody records. An end is lost in three ways. The child ends while
its launch is still to be recorded: a clean end is dropped, an unclean one makes the task
`unknown`, and the `accepted` write that follows overwrites it. The write of the end
fails. Or the host stops. `EndsAreRecorded` says that no other end is missed. The
constant `EndsEarly` says whether a child may end before its `accepted` write,
`UncleanEnds` whether it may end with a stop reason other than `completed`.

### CellLease

The variables keep the names of the class's fields (`state`, `accepting`,
`byRequestId`, `queue`, `drainScheduled`, `unrecorded`); `calls[c].phase` says how
far a call's promise chain has come, `rows[c]` is its durable row, `writes[c]` a
disposition whose write is under way, `frames[f]` what the program was told.

    intent -> queued -> running -> settling -> settled
       |         |         |
    refused   disposed   stuck       (intent -> disposed after a close began)

An action is what the host runs between two awaits, and most of them are what
follows one: `Invoke` runs up to the intent's `put`; `Publish`, `PublishTooLate`
and `IntentFails` follow it; `HandlerReturns` follows the tool, up to the
settlement's `put`; `Settle` and `SettlementFails` follow that, decide the
disposition, and go on to the next call of the queue, as `runQueue` does without
returning to the event loop; `Record` and `RecordFails` are the outcome of a
disposition's write; `BeginClose` is the synchronous part of `close`; `EndClose` is
the end of `drain`, after its loop and `flush`; `Forget` is `releaseLease`.
`Refusal` keeps the order of the checks of `onCall` and `invoke`.

A crash of the host is not an action. What it leaves behind is `rows`, and it may
strike in every reachable state, so `LedgerTellsTheTruth` is a statement about every
crash. A rejected write leaves the row as it was. The callbacks `handoffToJobs` and
`onDisposition`, which deployments provide, are assumed to return; `handoffToJobs`
answers either way (`Handoffs`). Lanes, value retention, the handshake and the
socket's framing are left out: they decide nothing about whether a call runs.
`Undigestible` says whether a tool may return a value that `digestOf` refuses.

`RequestOnce` is what the program is promised of a request id: one operation, at
most one run, one request at a time, none after it was given up. `OnceStatus` and
`OnceNames` are the refinement mapping, from the calls to the requests.

### WorkStart

One session, and the calls that reach its leader: `/work start`, `submit`, a child's
end and the sweep at boot. `pending` is `pendingAuthorization`, `chain` the queue of
the domain's writes, `record` what of the run is durable (who created it, its ready
rows, its admitted tasks), `leader` the `DrainLeader` with its generations
(`requestedGeneration`, `handledGeneration`) and its two sets of callers. `Authorize`
looks for the run and, when there is none, goes on to its creation only after an
`await`; `Resume` is what a start does when the one it waited for has ended.
`ReadTable` ... `EndRows` is a pass, `EndPass` answers its batch, `PassFails` rejects
the batch and everybody who queued meanwhile.

The admission of a row, which `RollingDrain` has in detail, is one step, and rows are
tried in any order. Taking the batch and reading the table are one synchronous step
in the code and two here, which only adds behaviours. Left out: the evidence of an
authorization and the checks of a target's value, `takeContinuation`, and disposal,
for which a crash stands. `unseen` is a history variable: the callers since the table
was last read. `Crowded` says whether two starts may wait for the same third.

### KernelSession

`entry` is the host in the service's table, `hosts[h]` the host object with its
broker (`cellActive` as `kernel.ts` keeps it, `epoch`, `km` the process its kernel
manager holds, `live` the processes that run, `client` whether a client was `made` and
whether it was `ready`), `cells[c]` a call of `runCell` with its two requests (`step`), and
the thread the broker runs it on.

    call:    new -> entering -> spawning -> checked -> executing(bind) -> checked
                                                    -> executing(user) -> closing -> done
    thread:  run -> none                                           (the cell ended)
             run -> kill -> start -> wait -> report -> none        (it overran)
             [run ->] kill -> start -> wait -> started -> report -> none   (its kernel died)

An action of the host is what it runs between two awaits, an action of the broker
what a thread does between two waits. `Kill`, `Launch`, `Replace` and `ReplaceFails` are
the reset of a kernel by a cell's thread; `RestartKills`, `Relaunch`, `Connect` and
`ConnectFails` are `restart` on the main thread, whose manager (`op.kernel`) may meanwhile
have been replaced by a thread's. No lock separates them, and the model has none. A thread
that found its kernel dead reads the epoch (`number`), resets, reads it again (`Note`) and
writes what it read, or after a failure what it read first plus one (`Report`), whatever the
main thread wrote between. `start()` may fail before it launched anything or after, and
then leaves a manager and a live process behind. A single `+=` of the epoch is one
step: CPython (since 3.10) switches threads at calls and backward jumps, and it has neither.

`known` and `disturbed` are history variables: the process whose namespace the session was
last told of, and which races the behaviour has had, each of which no code prevents. The
`owner` took the kernel from a call its broker still works on; the host gave a call up that
its broker was `late` with; calls were under way `together`; a kernel was started `twice` at
once; cells of one broker `overlap`ped. A property names those that break it, each
with a counterexample in section 5; `QuietCellRunsWhereBound` asks for none of them.

Left out: environment probing, output, the tool's wording, an interrupt as a command
of its own (an overrun stands for it), the time-out of a restart request, a restart or
interrupt when there is no kernel, and the branch of `runCell` for a call without an
authority (1443-1456), which revokes the capability where the other binds one; production always
passes one. That terminating a broker ends its kernels is external.
`Together` says whether two calls of one session may overlap.

### KernelSupervisor

`slot` is the `KernelEntry`. The handlers chain synchronously (a settlement finishes
a cell, which frees the slot, which drains the queue), so each is an operator from a
slot to a slot and an action composes them: `Finished`, `Freed`, `Drained`. The
transport is external: `TransportSettles` may come at any moment, also after the
cell was given up, as long as its process lives. `Stop` is the wall timer or an abort,
`GraceExpires` and `Escalated` the two steps after it, `BeginReplace`, `Replace` and
`ReplaceEnds` a reset or change of domain, `BeginClose` and `EndClose` a close, `Listed`,
`BeginEviction` and `EndEviction` the eviction of a parked kernel, with their awaits
between them: all of them overlap as they like. An escalation, a replacement and an
eviction each read the epoch before an await and write it plus one after it, so two that
overlap may write the same epoch. `crossed`, read by `RestartIsTold` alone, marks a cell
handed over while such an epoch waits to be written.

The rejected cells of `HandedOver` are those a transport refuses at once. Left out:
output frames and their accumulator, quarantine, the budgets of nested calls and of
data. Assumed of the owner, and switched off by a constant where the code does not
enforce it: one reset or change of domain at a time, and one pass of
`reclaimParkedMemory`; no command while the process starts (`EarlyCommands`); a kernel
parked only when it is idle (`Parkable`); identifiers used once. Assumed of the
transport: a restart or shutdown that rejects leaves the process as it was.

### EffectLedger

`rows` are the durable records, `calls[c]` a call with the write it waits for
(`intent`, `marking`, `noting`) or the answer (`sending`, `querying`), `chains[o]` the
calls on one operation in the order they came: `serialize` runs one at a time, so
different operations do not meet. `sent`, `flying` and `landed` are what really
happened: the calls that invoked the transport, their requests under way and those
that took effect. A transport call may throw or return with its request still under
way. `adapter` is what the remote can do, an idempotency key or a query or neither.

`Crash` keeps the rows and the requests and drops the calls; it stands for `close`,
too. A rejected write leaves the row as it was. Parameters are known by their digest;
the program runner (1054-1135) is one more caller of these four; the classification of
shell commands is not modelled, nor an operation asked for under another adapter.
`Straggling` says whether a request may land after the remote has denied it.

### DataPlane

`pc` and `job` are the requests, `active`, `waiting` and `held` the limiter,
`references` the durable log (an observation's id to its object), `index` and `young`
the store's entries and those within their grace, `tombstones` the collected ones,
`sweep` the collector with the references it was given and the entry under its hand.

    capture:  (waiting) -> looking -> publishing -> committing -> checking -> idle
    read:     (waiting) -> reading -> idle
    save:     (waiting) -> saving -> (waiting) -> chunk -> saving ... -> idle

A checkpoint that fails is only noted as a gap, so the answer still says durable:
`promised` is set whether it fails or not. (The comment at `artifacts.ts` 2909 says
otherwise; the log has been written at that point, so what was promised holds.)
`Crash` drops the requests, the limiter and the tombstones, and stands for `close`.

Left out: grants, pins and `remove`, which no production path calls; cursors, their
MACs and realms; the memory cache of the index; verification without a copy; abort
signals; history scans; quotas. The grace is assumed longer than a sweep and than a
capture needs from its publication to its commit, with one exception that the grace does
not cover: the collector takes an entry's age and removes the entry in two steps, and a
capture may publish the object between them (`overtaken`). Two captures may both find an
observation without a reference (`raced`). Both are history variables, which
`DurableIsReadable` names as its exceptions. A save may end before it read every chunk
(`saveFileStream` rejects); that `saveFileStream` has read no more windows at a time than
the one it waits for is external. An object whose index write
failed cannot be named by anyone, so its capture just ends. A walk holds one slot
throughout, although the comment at `data-plane.ts` 584-590 calls every page an
admitted read; the limiter's count does not depend on it.

## 3. Runs

| Run | Question | Bounds | States |
|---|---|---|---|
| `Ledger` | budget, tombstones, target under every order of operations | 2 tasks, 2 admissions each, charges 1 and 2 against a reservation of 1, totals up to 2, targets 1 and 2 | 324,648 |
| `ChildGate` | the capacity under reservations, births and deaths in any order | 3 tasks, 5 children of which 2 unasked, capacity 3 | 293 |
| `Drain` | one run with early and unclean ends, a failed write and a restart; which ends are recorded | 2 tasks, 2 admissions in the budget, 1 fault, 1 restart | 1,076,775 |
| `DrainTwoRuns` | two runs over one gate and one write chain | 1 task each, host capacity 1 | 864,195 |
| `DrainRefill` | every ready row is admitted in the end | 2 tasks, target 1, capacity 3, `FairSpec` | 109,262 |
| `DrainLostCompletion` | is every end recorded that comes early? (section 5) | 1 task, `EndsEarly` | stops at the violation |
| `Starts` | one run however many start it; a caller is answered by a pass that saw its row | 3 starts, 1 submission, 1 wake, the boot sweep, 1 restart, 2 failures | 214,673 |
| `Lease` | one lease under repeated, conflicting and independent frames, a rejected write, a tool whose value cannot be digested, and a close anywhere | 3 frames of one request id (two the same, one for another operation), 1 of another, 1 rejected write, 4 subcalls | 96,354 |
| `Session` | one kernel, in which a cell runs where it was bound; a lost namespace is told; every call returns | 2 calls one after the other, 1 restart or eviction, 2 deaths, failed starts or calls given up, 2 hosts, 5 processes | 736,815 |
| `Supervisor` | cells, timers and owner commands on one slot | 2 cells, a queue of 1, 2 commands, 1 eviction pass, 1 failure | 363,048 |
| `Effects` | sent once; the record and the answers are true | 1 operation, 2 sets of parameters, 3 calls, 1 crash, 1 rejected write, every adapter | 335,074 |
| `Data` | slots exact; what is durable stays readable; every request is answered | 2 requests of any kind, 1 observation, 2 objects, a limit of 2, 1 chunk, 1 crash, 1 rejected write | 208,288 |

What they show is stated before each property in its module. Every run passes but
`DrainLostCompletion`, which is there for the counterexample.

Why the bounds are enough. For the drain, the properties relate one task to its record,
its gate entry and its child, or two tasks competing for one slot, one unit of money or
one place of the host. Two tasks and limits of one or two make each comparison come
out both ways; a second admission of the same task and a second fault or restart
repeat a history already explored. `MaxWakes = 1` keeps apart a leader that has
been woken from one that has not: further wakes only repeat the sweep.

For a lease, `MaxCalls` equals the number of frames, so it never cuts a history
short: a frame mints at most one call. Two request ids are enough for one call to
wait behind another, and three frames of one id for a repetition before the
acceptance, one after it and one after a refusal that freed the id.

- `Starts`: three starts are one under way, one behind it and one that comes when the
  first has failed. A submission and a wake are one caller inside the batch and one
  that comes while it is served. Two starts with two submissions were run, too.
- `Session`: two calls are what it takes for the second to meet what the first left
  behind, and a call given up leaves a thread that meets the second call's, or the owner's
  restart. Where the bound of 5 processes is reached a start can only fail, which it may
  anyway. Overlapping calls (`Together`) are left to the theorems and to section 5.
- `Supervisor`: one cell runs, one waits and a full queue refuses the next. Two
  commands meet each other and one failure meets either.
- `Effects`: operations never meet, as their chains and rows are their own, so one
  suffices; three calls are the sender, one that finds a doubtful record and one that
  comes after it was resolved.
- `Data`: with a limit of 2, two saves hold every slot and wait for more, a capture
  and a save's chunk make each other wait, two captures race for the one observation with
  different objects, and one capture meets the collector. Observations are independent of
  each other but through the objects they share.

Fairness, and why the code justifies it:

- `CellLease`: weak fairness of `Progress` as a whole: as long as a
  write is under way, a tool runs or the close can end, one of them goes on. Writes
  and tools that hang for ever are excluded, nothing is asked of the program or the
  lease's owner. One weak condition is enough because `Progress` cannot go on without
  end: every call passes each phase once.
- `RollingDrain`: the event loop runs a leader's next step and the observer's
  next step; a child that was created ends, and is disposed after that. Nothing is
  assumed of the human, the root or the disk.
- `WorkStart`: a write ends one way or the other, the leader's pass goes on, a start
  whose predecessor ended resumes. A pass may fail.
- `KernelSession`: the host's and the broker's next steps, and `Overruns`: the timer of
  a cell that does not end. Nothing is assumed of the cell's program: `Finish` is not
  fair, nor are deaths.
- `KernelSupervisor`: timers fire, a start and a replacement end, well or badly, a spill
  ends. `TransportSettles` is not fair: a cell may run for ever.
- `DataPlane`: a read or a write ends; nothing is asked of callers and collector.

`CHECK_DEADLOCK FALSE` stands where the system may come to rest: calls of a bounded
run that have all returned, a crashed history with no call left.

## 4. Proofs

`RunLedgerProofs`, for every set of tasks, children, costs, targets, charges and
every bound:

- `TypeCorrect`: `Spec => []TypeOK`. The lemmas type each helper; the arithmetic
  content is that the clamps of `applySpend`, `retainAsUnknown` and `transition`
  keep every balance a natural number.
- `TombstonesMatch`: tombstones and final states agree. Inductive with `TypeOK`;
  `StepShape` reduces the thirteen operations to an admission, a transition or a
  step that touches neither tasks nor tombstones.
- `ClosedForever`: the record of a confirmed or cancelled task never changes; it
  needs `TombstonesMatch`, because an admission looks at tombstones and a
  transition at states.
- `HeldWithinTarget`: occupancy rises only by an admission within the target of an
  open run or by a completion put in doubt.
- `HeldWorkStaysReserved`, under `Releases \subseteq {FALSE}`: a budget never falls below
  the money of the tasks that hold slots. The invariant is of a wider sum,
  `OpenWorkIsReserved`: over the tasks that are open, an unresolved unknown included,
  since such a task may come back. The sum is a fold over a set; the lemmas derive what
  adding, removing or changing one task does to it from the fold's definition.

`RollingDrainProofs`, for every set of runs, tasks and children and every bound, with
early and unclean ends, failed writes and restarts:

- `DrainTypeCorrect`, `CeilingKept`: from `BaseInv`, which adds to the types that a
  leader in the middle of an admission is the one the write chain is held for
  (`ChainFits`), that records name only the children of their own tasks (`RecordFits`)
  and that every live child is known to a record (`LiveOwned`). One admission is decided
  and written at a time, which is why two cannot both find the last unit.
- `DrainFollowsLedger`: `Spec => RecordsFollowLedger`. Each step changes the records by
  an operation of `RunLedger` (`Commits`) or not at all, so what is proved of `RunLedger`
  holds of each run of the drain.
- `NoSubmissionLost`: a row leaves the ready table only with its task admitted.
- `CapacityNeverPassed`: the drain, the port and the observer call the gate as
  `ChildGate` allows, so the gate's own step lemmas carry its count over.
- `CapacityKept`, of `ChildGate` by itself (`Gate!Spec`), for every set of tasks and
  children and every capacity: the gate never counts above its capacity. The count alone
  is not inductive: a child's death turns its task's entry back into a reservation, and
  only because each entry names its own task's child (`TypeOK`, from `OwnChild`) does one
  death turn at most one.
- `SlotsFollowWork` and `NeverLaunchedBlind`, under `DisjointRuns` (no two runs use a task
  id): `OwnInv` says for one task what its leader, its events, its launches not reported
  ended and its gate entry say of each other and of its record (`OwnTask`). A step
  concerns one task; frame lemmas carry the rest through it.
- `GateFollowsRecords`, under `DisjointRuns`: `EntriesStand` (an entry has work, an
  admission or a completion behind it) and `SyncedStates` (what was written stays until
  the gate has followed) hold without the assumption, too. The property was first false: a
  completed task readmitted before its completion's resynchronization loses the new entry
  to the old one's (section 5), and now names that exception.
- `AcceptedMeansRunning`, under `DisjointRuns`, with early ends, failed writes and
  restarts: a task that rests as accepted has its child running, or that launch's end is
  `lost` in one of the three ways of section 2. `ShownInv` says besides what holds on the
  way there: an end that was noticed is an event until it is written, and while a launch is
  still to be recorded its child runs or has ended too early. That the exception of the early
  end is a bug is what `DrainLostCompletion` shows.

`WorkStartProofs`, for every set of calls and every bound:

- `StartTypeCorrect`, `NoStaleAnswer`: nobody is answered by a pass that began before
  it asked. A caller is `unseen` until the table is read, so the invariant
  (`LeaderInv`) says of the leader that batch and waiting callers are disjoint, that
  those in it are draining, and that once anybody of the batch read the table none
  of the batch is unseen (`LeaderFits`); `ChainFits` gives each queued write one
  caller, which cannot be in a batch at the same time.
- `StartsOverwriteNothing`, under `~Crowded`: one start creates the run and no later
  one writes over it. `StartsFit` is what makes it inductive: one start at a time is
  past its existence check, it is the pending one, at most one waits for it, and while
  one creates there is no run. Without the assumption it is false (section 5).

`CellLeaseProofs`, for every set of frames, request ids and operations, and every
bound:

- `TypeCorrect`: `Spec => []TypeOK`.
- `LedgerTruthful`: `Spec => []LedgerTellsTheTruth`. A row alone does not say
  whether its tool was entered, so the invariant ties the row to the call's phase
  (`CallFits`: what each phase implies of the row, the write under way, `executed`
  and `jobs`), and the queue to the phases (`QueueFits`: distinct calls, all in the
  phase `queued`), without which the runner could enter a call that was given up.
  `SameView` carries a call through the steps of others.
- `ClosedComplete` and `ClosedForGood` need `ClosedIsQuiet` besides: a closed lease
  has no call in flight, no intent and no disposition under way.
- `OwnCall`: `Spec => []FrameGetsItsOwnCall`, from `NamesFit` (both tables of
  request ids name calls minted for that id) and `Minted` (a call above the counter
  does not exist yet, so that a new intent overwrites none).
- `LeaseImplementsOnce`: `Spec => ImplementsOnce`, the refinement of `RequestOnce`. A
  request is mapped to the state of its call, so the map is a function only because a
  request has one call that was neither refused nor given up (`OneCallEach`), and it
  takes steps only because what was told stays true (`Told`) and one call at a time is
  entered (`OneRunner`). `PublishMaps`, `RunnerMaps` and `CloseMaps` show which steps map
  to which; all others stutter.

`KernelSessionProofs`, for every set of cells and every bound on hosts, processes, commands
and faults. An action has many outcomes in three records (the host, the cell, the
command), so a first group of lemmas says once what a step may do to each (`OneCell`,
`HostOfCell`, `OwnCellEntering`, `OwnCellServing`, `HostOfOthers`, `CellOfOthers`), and the
steps of the invariants cite those:

- `SessionTypeCorrect`: from `BaseInv`, which says besides that a request, or a broker's
  thread, belongs to a host object (`HostKnown`), what a restart or an eviction may find at
  each stage (`OpFits`, `MainFits`), that a host once used stays started (`StartedFits`),
  that an undecided cell has no result (`ResultFits`), and that only a thread which found its
  kernel dead remembers an epoch (`FreshFits`).
- `EpochsNameKernels`, until two threads of one broker overlap: whatever was reported under
  the current epoch of a broker that is ready ran in the kernel that it holds (`EpochFits`),
  and two cells that reported the same epoch shared a process (`SameEpoch`). The epoch may
  fall: a thread writes what it remembers although `restart` raised it. It does no harm
  because a broker has one thread (`OneThread`; `OwnThread` says what a thread's step
  changes), nobody reports on the host while it works, and so what it will write is above
  all that was reported (`RepairFits`, in terms of `Past`).
- `OneKernelKept`, until two first calls start a kernel each, the owner acts under a call, or
  two threads repair one broker: while the owner waits for cells (`OwnerFits`), one call at a
  time starts a kernel and does so while the table is empty (`OneSpawn`, `SpawnsAlone`),
  each broker runs at most the process its manager holds (`OneEach`), and a process that
  runs belongs to the table's host or to the one being started (`Owned`).
- `CellsRunWhereBound`, in a behaviour without any of the races: if nothing was given up a
  thread has a call that waits for it (`ThreadsFit`), and from the bind to the end of the
  user's code the broker holds the bound process or none, until a thread has launched
  another, which ends the call (`BoundFits`). While calls follow each other, one works on the
  table's kernel or on the one being evicted (`AloneInv`).
- `LossIsTold`, until a call is given up or begun before another ended, with the owner
  restarting and evicting under the cells: what the session was last told of is the process
  of the table's kernel, or that process is gone, and the owner takes nothing away from a
  session that relies on it (`KnownFits`).

`KernelSupervisorProofs`, for every set of cells and every bound. A handler maps the slot
to a record and then drains the queue, so the invariant `SlotInv` is one of records and is
shown of the record before the drain and of each that the drain may leave (`DrainKeeps`):

- `SupervisorTypeCorrect`: the types, and the queue's bound, whatever the owner does.
- `OneCellPerProcess`, under `Careful` (`~EarlyCommands`, and neither a wedged nor a closed
  kernel is parked): two cells are never owed by the process that is the slot's, however
  escalations, replacements, evictions and closes overlap. A cell that was given up, or is
  about to be, and is still owed by the process (`Stray`) keeps the slot sealed until the
  process is gone (`Guarded`). `wedged` is what seals it, so an owner who parks a wedged
  kernel breaks the property (section 5).
- `RestartsAreTold`, with no hypothesis: an answer that tells of no restart comes with the
  process its cell ran in, unless a close ended the process or the cell was handed over in
  the middle of a replacement (`crossed`). Of the other cells (`Plain`), one whose start
  epoch is the slot's has the slot's process (`Tells`); what makes that inductive is that
  every epoch captured by an escalation, a replacement or an eviction under way is no
  earlier than the start epoch of any of them (`Before`), because what was handed over
  since it was captured is not plain.

`EffectLedgerProofs`, for every set of operations and digests,
every adapter, and every number of calls, crashes and rejected writes:

- `EffectTypeCorrect`, `EffectSentOnce`: no operation is sent twice. The transport is
  invoked only after the marker was written, and the marker only over a row that was
  never marked, but between the two reads lie awaits and perhaps a crash. `EffectInv`
  carries it: `ChainInv` (only the first of a chain works), `RowFits` (a row that was
  never marked says so), `CallFits` (what each phase implies of the row, and what the write
  under way may say, `Says`), `SentFits` (what was sent is marked, under the digest it
  was sent with).
- `EffectRowTellsTheTruth` and `EffectAnswersAreTrue`, under `~Straggling`: the record
  and the answers say of the outside world only what is so. `TruthInv` adds `Truth`: what
  a row claims, and what a row about to be written claims, is true of `landed` and
  `flying`, and stays true whatever lands or is lost meanwhile.

`DataPlaneProofs`, for every finite set of requests, every limit and bound:

- `PlaneTypeCorrect`, `LimiterIsExact`: the limiter's count is the number of slots in
  use, within the limit, and nobody waits while there is room (`LimiterInv`: who waits
  waits once and holds no slot of the kind it asks for).
- `DurableStaysReadable`, with no hypothesis: `DurableInv` says that an observation which
  two captures found without a reference is noted as `raced` (`RivalsKnown`), that a capture
  past its publication has its object young, in the index and out of the collector's hand
  (`Safe`), unless it was published in that hand (`CaptureFits`), and that a reference is the
  one promised, up to a race, and names an object that is safe and that a running sweep was
  told of or is still young, up to `overtaken` (`ReferenceFits`). The two exceptions are the
  property's own, and an object leaves `overtaken` when it is published again.

Assumptions on the constants: `CostAssumption`, `TaskAssumption`, `LedgerAssumption`,
`GateAssumption`, `OwnChild`, `DrainAssumption`, `StartAssumption`, `LeaseAssumption`,
`SessionAssumption`, `SupervisorAssumption`, `EffectAssumption` and `PlaneAssumption`, each
evaluated by TLC on the runs of its module. `SessionAssumption` limits `Retires` to the two
commands that exist and says that `None` is none of the results.

Hypotheses of single theorems say what the code leaves to its callers or to the world,
and each is met by the passing run that checks the property and, where the code does not
enforce it, has a row in section 5. A race that the code permits is not assumed away: the
property itself names it as the one thing that breaks it, by a history variable.

| Hypothesis | Theorems | Why it may be asked |
|---|---|---|
| `Releases \subseteq {FALSE}` | `HeldWorkStaysReserved` | no caller in the repository releases a reservation through `recordSpend` |
| `DisjointRuns` | `SlotsFollowWork`, `NeverLaunchedBlind`, `GateFollowsRecords`, `AcceptedMeansRunning` | a gate entry is keyed by the task id alone; `DrainTwoRuns` breaks without it |
| `~Crowded` | `StartsOverwriteNothing` | one human authorizes a session at a time |
| `~Straggling` | the effect ledger's truth | a remote's denial is final |
| `Careful` | `OneCellPerProcess` | no production path parks or replaces; section 5 |

The type invariants of `RunLedger`, `CellLease`, `WorkStart`, `EffectLedger` and
`DataPlane`, and `TombstonesAreTerminal`, are proved and not run. Every safety property
that a passing run checks is the statement of a theorem. Only model-checked is liveness,
which is out of the prover's reach: `ReadyRowIsAdmitted`, `AnsweredWhileRunnerLives`,
`CloseCompletes`, `EveryCellAnswered`, `EveryCellReturns`, `EveryReadReturns` and
`EveryCallReturns`.

## 5. Findings

A child that ends before its `accepted` write is dropped by the observer, since
`launching` has no edge to `completed`; the task then stays `accepted` and holds
its slot. `DrainLostCompletion` shows it; `EndsAreRecorded` of `Drain`, that no end is missed
in any other way than this, a failed write and a restart.

The modules have constants that switch on what the code does not exclude and a passing
run does, and history variables by which a property names what breaks it. With TLC each of these gives a counterexample; all are short.

| Switch | Violates | In the code |
|---|---|---|
| `DrainTwoRuns` with `TasksOf <- SharedTasks` | `GateAgreesWithRecords` | two runs with the same task id share one entry of the gate; the end of one frees the place of the other's (`host.ts` 2265, 2046) |
| `Drain` with the first part of `GateAgreesWithRecords` without its exception | itself | a completed task is admitted again between its completion's write and the resynchronization after it, which gives the new admission's place back; if the disk then fails the launch, the task holds a slot of the record and none of the gate (`host.ts` 1951, 2265), where 2046-2047 says that they agree |
| `DrainRefill` with `HostCapacity = 1` or `2` | `ReadyRowIsAdmitted` | a row skipped because the host is full (`host.ts` 2845) waits for a wake that the disposal which makes room does not give |
| `Starts` with `Crowded = TRUE` | `RunSurvivesStarts` | two starts that waited for the same third both go on and both find no run (`host.ts` 992-1009) although the second is said to check after the first has written (969-971) |
| `Data` with `EveryReadReturns` without `Jammed` | itself | as many saves as the limit wait for each other's slots (`data-plane.ts` 669-674), where `data-concurrency.ts` 65-68 sees no deadlock shape |
| `Data` with `DurableIsReadable` without `raced` | itself | two captures of one observation both pass the check of the log, and the later reference replaces the promised one (`artifacts.ts` 2697-2701) |
| `Data` with `DurableIsReadable` without `overtaken` | itself | a capture republishes an entry that the collector has just judged by its old age (`artifacts.ts` 1646-1654) |
| `Effects` with `Straggling = TRUE` | `RowTellsTheTruth` | a remote that denies a request which lands later makes `not_started` untrue; no ledger can know |
| `Supervisor` with `"wedged"` or `"closed"` in `Parkable` | `SerialInProcess` | `park` refuses a busy kernel, not one whose escalation is under way (`kernel-lifecycle.ts` 2017, 1439) |
| `Supervisor` with `EveryRestartIsTold` as a property | itself | a reset whose wait ends while the escalation of its cell restarts the process reads the epoch the escalation read (2218, 1824); the cell handed over between the two writes is then told of no restart though its process is gone (2224-2225, 1866) |
| `Supervisor` with `PromiseResolves` as a property | itself | `register`, a close, a reset or a failed replacement drains no queue (1267, 2224, 2380), and a cell whose spill's write rejects is settled and never answered, the queue behind it not drained (1664), although the promise "always resolves" (1446) |
| `Session` with `CellRunsWhereBound` as an invariant | itself | a restart between the two requests of a cell (`kernel-plugin.ts` 1466-1485): hence `QuietCellRunsWhereBound` |
| `Session` with `Together = TRUE` and `OneKernel` without `"twice"` | itself | two first calls of a session both find no entry (`kernel-plugin.ts` 1189, 1388) |
| `Session` with `OneKernel` without `"owner"` | itself | a `restart` that meets the reset of a cell's thread relaunches a manager that the thread has dropped: a kernel that nobody holds (`broker.py` 1345-1369 with 1179-1293) |
| `Session` with `OneKernel` or `EpochNamesKernel` without `"overlap"` | itself | the host gives a call up and sends the next one; two threads of the broker reset its kernel at once, and each writes an epoch that it remembers (`kernel.ts` 485, `broker.py` 1197-1224) |
| `Session` with three calls and `LostNamespaceIsTold` without `"late"`, or with `Together = TRUE` and without `"together"` | itself | the reset of a request that was given up reaches the broker under a later cell, which then runs in the new namespace and says nothing of it (`kernel.ts` 580); of two calls, one knows nothing of the kernel that the other started |

`Lease` runs with `Undigestible = TRUE`: a tool's value that `canonicalJson` refuses makes
`digestOf` throw outside every `try` of `runOne` (`bridge.ts` 1263), and the runner is
lost with its caller and those behind it. `AnsweredWhileRunnerLives` and
`CloseCompletes` are stated so as to show that this is the only way to lose an answer.
A `completed` task that is submitted again is admitted and launched again (`host.ts`
1951), although `states.ts` 130 gives it no way back to a running state; `RunLedger`
models what the code does.

Seen while reading, in code whose detail the models leave out: the reset of a request
that was given up can reach the broker under a later cell (`kernel.ts` 580), and the epoch
that a thread writes after a reset can be lower than the one `restart` raised meanwhile; both
are behaviours of `KernelSession`. An unclean end that comes before the `accepted` write is
recorded as `unknown` and then overwritten (`states.ts` lets `unknown` become `accepted`), a
behaviour of `RollingDrain`. The wall timer after a close calls `cancelInternal`, whose
`require` then throws into a promise nobody holds (`kernel-lifecycle.ts` 1606), and an
escalation that ends after a close sets the slot idle (1886). `pendingGenerationNotice`
is written and never read. A request of an effect asked for under another adapter is
not compared with the recorded one (`effects.ts`, `reconcile` and `cancel`).

## 6. Plan

1. (done) The record, the gate, the drain; the cell's lease and its ledger; their
   first theorems.
2. (done) How a run starts and its leader answers; the kernel of a session with its
   broker; the kernel supervisor; the effect ledger; the data plane, its store and
   collector; theorems of the effect ledger, the data plane and the starts.
3. (done) Proofs of the drain, of its refinement of `RunLedger`, of the reserved money, of
   the lease's refinement of `RequestOnce`, of the supervisor and of a session's kernel
   with its broker's threads.
4. Modules left: `homelock.ts` (the order of lock, comparison and note),
   `worktree-isolation.ts` (a crash while a worktree is removed), the `UsageLedger` of
   `record.ts`, `reconcile.ts` and `recovery.ts` over `RunRecord`, and the composition of
   `KernelSession` with `CellLease` over a socket that may close.

Hazards known and not covered by a property: a callback of `handoffToJobs` or
`onDisposition` that throws while a queue is disposed of (`bridge.ts` 1034); a raised
target, a resumed run or a resolved halt that wakes no leader (`host.ts` 1572); a refusal
for want of budget that ends the pass, so that one dear row at the head keeps others
waiting (2914); the launch port bound to the first root (718); two retained unknowns of
one task (2435); a refused host that has
already truncated the holder's note (`homelock.ts` 244).

Not modelled, and why: `PROJECT.json` lists every part with its reason. Parsing,
rendering, measurement and static policy checks (history, web, cards, metrics, the
no-sandbox contract, profiles and helpers) have no state that steps of two actors could
get wrong; reconciliation and relaunch after a restart are exported and tested but
called by no production path of this commit.
