------------------------------- MODULE DataPlane ------------------------------
(***************************************************************************)
(* The data plane: files are captured into a store of immutable objects,   *)
(* read back page by page and saved as attachments, by requests that share *)
(* a limiter. A capture publishes its object, enters it in the store's     *)
(* index and commits a reference to it before it is called durable; a      *)
(* collector retires old index entries without a reference. The objects    *)
(* themselves are never deleted. An action is what a request does between  *)
(* two awaits.                                                             *)
(***************************************************************************)
EXTENDS Naturals, Sequences, FiniteSets

CONSTANTS Requests, Ids, Contents, None,
          Limit,        \* of the reads under way
          Chunks,       \* the windows a save reads its object in
          MaxCrashes, MaxFaults

ASSUME PlaneAssumption ==
  /\ IsFiniteSet(Requests) /\ Limit \in Nat \ {0} /\ Chunks \in Nat
  /\ None \notin Contents \cup Ids
  /\ MaxCrashes \in Nat /\ MaxFaults \in Nat

VARIABLES
  pc, job,       \* how far each request has come, and what it asks for
  active,        \* the limiter's count
  waiting,       \* the requests it has not admitted yet, the first come first
  held,          \* the slots each request holds: for its body, and a chunk's inside it
  references,    \* the durable log: what each observation refers to
  index,         \* the entries of the store
  young,         \* those within their grace
  tombstones,    \* what was collected, in memory
  sweep,         \* the collector: the references it was told of, the entry under its hand
  promised,      \* history: what was answered durable
  raced,         \* history: the observations two captures found without a reference
  overtaken,     \* history: the objects published again in the hand of the collector
  descriptors,   \* the objects callers were given a descriptor of
  crashes, faults

limiter == <<active, waiting, held>>
store == <<index, young, tombstones, sweep>>
history == <<promised, raced, overtaken>>
budgets == <<crashes, faults>>
vars == <<pc, job, limiter, references, store, history, descriptors, budgets>>

Kinds == {"capture", "read", "save"}
Idle == [kind |-> "none", id |-> None, content |-> None, left |-> 0]
Jobs == [kind : Kinds \cup {"none"}, id : Ids \cup {None},
         content : Contents \cup {None}, left : 0..Chunks]

Resting == [running |-> FALSE, referenced |-> {}, hand |-> None]

Init ==
  /\ pc = [r \in Requests |-> "idle"] /\ job = [r \in Requests |-> Idle]
  /\ active = 0 /\ waiting = <<>> /\ held = {}
  /\ references = [o \in Ids |-> None]
  /\ index = {} /\ young = {} /\ tombstones = {} /\ sweep = Resting
  /\ promised = [o \in Ids |-> None] /\ raced = {} /\ overtaken = {}
  /\ descriptors = {}
  /\ crashes = 0 /\ faults = 0

-----------------------------------------------------------------------------
(* The limiter. *)

\* Where a request goes on once it is admitted: a save that holds its slot
\* asked for one more, to read a chunk.
Body(kind) == [capture |-> "looking", read |-> "reading", save |-> "saving"][kind]
Slot(r) == IF <<r, "body">> \in held THEN "chunk" ELSE "body"
Entered(r, kind) == IF Slot(r) = "chunk" THEN "chunk" ELSE Body(kind)

Admit(r, kind) ==
  IF active < Limit
  THEN /\ active' = active + 1 /\ held' = held \cup {<<r, Slot(r)>>}
       /\ pc' = [pc EXCEPT ![r] = Entered(r, kind)]
       /\ UNCHANGED waiting
  ELSE /\ waiting' = Append(waiting, r)
       /\ pc' = [pc EXCEPT ![r] = "waiting"]
       /\ UNCHANGED <<active, held>>

\* Mutant: the slot handed over is no longer counted.
ReleaseUncounted(r, slot, next) ==
  LET w == Head(waiting)
  IN  /\ held' = (held \ {<<r, slot>>})
                 \cup (IF waiting = <<>> THEN {} ELSE {<<w, Slot(w)>>})
      /\ pc' = [x \in Requests |->
                  IF x = r THEN next
                  ELSE IF waiting # <<>> /\ x = w THEN Entered(w, job[w].kind) ELSE pc[x]]
      /\ waiting' = IF waiting = <<>> THEN <<>> ELSE Tail(waiting)
      /\ active' = active - 1

\* r gives a slot back, to the first of those that wait.
Release(r, slot, next) ==
  IF waiting = <<>>
  THEN /\ active' = active - 1 /\ held' = held \ {<<r, slot>>}
       /\ pc' = [pc EXCEPT ![r] = next]
       /\ UNCHANGED waiting
  ELSE LET w == Head(waiting)
       IN  /\ held' = (held \ {<<r, slot>>}) \cup {<<w, Slot(w)>>}
           /\ pc' = [pc EXCEPT ![r] = next, ![w] = Entered(w, job[w].kind)]
           /\ waiting' = Tail(waiting)
           /\ UNCHANGED active

\* The end of a request: its caller is answered.
Answer(r) == Release(r, "body", "idle") /\ job' = [job EXCEPT ![r] = Idle]

-----------------------------------------------------------------------------
(* The three requests. *)

\* The captures of an observation that found it without a reference.
Capturing(o) ==
  {r \in Requests : pc[r] \in {"publishing", "committing"} /\ job[r].id = o}
Readable(a) == a \in index /\ a \notin tombstones

Ask(r, what) ==
  /\ pc[r] = "idle" /\ job' = [job EXCEPT ![r] = what]
  /\ Admit(r, what.kind)
  /\ UNCHANGED <<references, store, history, descriptors, budgets>>

AskCapture(r, o) == Ask(r, [kind |-> "capture", id |-> o, content |-> None, left |-> 0])

AskRead(r, a) ==
  /\ a \in descriptors
  /\ Ask(r, [kind |-> "read", id |-> None, content |-> a, left |-> 0])

AskSave(r, a) ==
  /\ a \in descriptors
  /\ Ask(r, [kind |-> "save", id |-> None, content |-> a, left |-> Chunks])

\* A capture is refused when its observation has a reference already. Nothing
\* is locked: another one may have found none a moment before.
LookUp(r) ==
  /\ pc[r] = "looking"
  /\ IF references[job[r].id] # None
     THEN Answer(r) /\ UNCHANGED raced
     ELSE /\ pc' = [pc EXCEPT ![r] = "publishing"]
          /\ raced' = IF Capturing(job[r].id) = {} THEN raced ELSE raced \cup {job[r].id}
          /\ UNCHANGED <<job, limiter>>
  /\ UNCHANGED <<references, store, promised, overtaken, descriptors, budgets>>

\* Mutant: an object that was collected stays so when it is captured again.
PublishBuried(r, a) ==
  /\ pc[r] = "publishing"
  /\ overtaken' = IF sweep.hand = a THEN overtaken \cup {a} ELSE overtaken \ {a}
  /\ index' = index \cup {a} /\ young' = young \cup {a}
  /\ job' = [job EXCEPT ![r].content = a]
  /\ pc' = [pc EXCEPT ![r] = "committing"]
  /\ UNCHANGED <<limiter, references, tombstones, sweep, promised, raced, descriptors, budgets>>

\* The file is read into an object, and the object's entry written, the entry the
\* collector is about to remove included.
Publish(r, a) ==
  /\ pc[r] = "publishing"
  /\ overtaken' = IF sweep.hand = a THEN overtaken \cup {a} ELSE overtaken \ {a}
  /\ index' = index \cup {a} /\ young' = young \cup {a}
  /\ tombstones' = tombstones \ {a}
  /\ job' = [job EXCEPT ![r].content = a]
  /\ pc' = [pc EXCEPT ![r] = "committing"]
  /\ UNCHANGED <<limiter, references, sweep, promised, raced, descriptors, budgets>>

\* Mutant: a capture that fails keeps its slot.
PublishFailsHolding(r) ==
  /\ pc[r] = "publishing"
  /\ pc' = [pc EXCEPT ![r] = "idle"] /\ job' = [job EXCEPT ![r] = Idle]
  /\ UNCHANGED <<limiter, references, store, history, descriptors, budgets>>

\* The quota is exceeded, the file changes meanwhile, or a write fails.
PublishFails(r) ==
  /\ pc[r] = "publishing" /\ Answer(r)
  /\ UNCHANGED <<references, store, history, descriptors, budgets>>

Commit(r) ==
  /\ pc[r] = "committing"
  /\ references' = [references EXCEPT ![job[r].id] = job[r].content]
  /\ pc' = [pc EXCEPT ![r] = "checking"]
  /\ UNCHANGED <<job, limiter, store, history, descriptors, budgets>>

\* The object stays, an orphan; its descriptor is answered all the same.
CommitFails(r) ==
  /\ pc[r] = "committing" /\ faults < MaxFaults
  /\ faults' = faults + 1
  /\ descriptors' = descriptors \cup {job[r].content}
  /\ Answer(r)
  /\ UNCHANGED <<references, store, history, crashes>>

\* The checkpoint reads the reference back; the answer is durable whatever it
\* finds, which is only noted as a gap.
Checkpoint(r) ==
  /\ pc[r] = "checking"
  /\ promised' = [promised EXCEPT ![job[r].id] = job[r].content]
  /\ descriptors' = descriptors \cup {job[r].content}
  /\ Answer(r)
  /\ UNCHANGED <<references, store, raced, overtaken, budgets>>

\* A page, a walk or a range: served, or refused when the object cannot be named.
Read(r) ==
  /\ pc[r] = "reading" /\ Answer(r)
  /\ UNCHANGED <<references, store, history, descriptors, budgets>>

\* The attachment's writer pulls the next chunk, or is done.
NextChunk(r) ==
  /\ pc[r] = "saving" /\ job[r].left > 0
  /\ Admit(r, "save")
  /\ UNCHANGED <<job, references, store, history, descriptors, budgets>>

ChunkRead(r) ==
  /\ pc[r] = "chunk"
  /\ job' = [job EXCEPT ![r].left = IF Readable(job[r].content) THEN @ - 1 ELSE 0]
  /\ Release(r, "chunk", "saving")
  /\ UNCHANGED <<references, store, history, descriptors, budgets>>

\* The attachment is written, or its writer gives up before its last chunk.
SaveEnds(r) ==
  /\ pc[r] = "saving" /\ Answer(r)
  /\ UNCHANGED <<references, store, history, descriptors, budgets>>

-----------------------------------------------------------------------------
(* The collector, told of the references when it starts. *)

requests == <<pc, job, limiter>>

BeginSweep ==
  /\ ~sweep.running
  /\ sweep' = [running |-> TRUE, hand |-> None,
               referenced |-> {references[o] : o \in Ids} \ {None}]
  /\ UNCHANGED <<requests, references, index, young, tombstones, history, descriptors, budgets>>

\* It finds an entry neither referenced nor within its grace.
Examine(a) ==
  /\ sweep.running /\ sweep.hand = None
  /\ a \in index \ (sweep.referenced \cup young)
  /\ sweep' = [sweep EXCEPT !.hand = a]
  /\ UNCHANGED <<requests, references, index, young, tombstones, history, descriptors, budgets>>

Retire ==
  /\ sweep.hand # None
  /\ index' = index \ {sweep.hand} /\ young' = young \ {sweep.hand}
  /\ tombstones' = tombstones \cup {sweep.hand}
  /\ sweep' = [sweep EXCEPT !.hand = None]
  /\ UNCHANGED <<requests, references, history, descriptors, budgets>>

EndSweep ==
  /\ sweep.running /\ sweep.hand = None
  /\ sweep' = Resting
  /\ UNCHANGED <<requests, references, index, young, tombstones, history, descriptors, budgets>>

\* The grace is longer than a sweep, and than a capture takes to commit what it
\* published.
Ages(a) ==
  /\ a \in young /\ ~sweep.running
  /\ \A r \in Requests : pc[r] = "committing" => job[r].content # a
  /\ young' = young \ {a}
  /\ UNCHANGED <<requests, references, index, tombstones, sweep, history, descriptors, budgets>>

\* The process stops and starts again: the log and the index stay.
Crash ==
  /\ crashes < MaxCrashes /\ crashes' = crashes + 1
  /\ pc' = [r \in Requests |-> "idle"] /\ job' = [r \in Requests |-> Idle]
  /\ active' = 0 /\ waiting' = <<>> /\ held' = {}
  /\ tombstones' = {} /\ sweep' = Resting
  /\ UNCHANGED <<references, index, young, history, descriptors, faults>>

-----------------------------------------------------------------------------
Call(r) ==
  \/ \E o \in Ids : AskCapture(r, o)
  \/ \E a \in Contents : AskRead(r, a) \/ AskSave(r, a)

Step(r) ==
  \/ LookUp(r) \/ (\E a \in Contents : Publish(r, a)) \/ PublishFails(r)
  \/ Commit(r) \/ CommitFails(r) \/ Checkpoint(r)
  \/ Read(r) \/ NextChunk(r) \/ ChunkRead(r) \/ SaveEnds(r)

Collector ==
  BeginSweep \/ Retire \/ EndSweep \/ \E a \in Contents : Examine(a) \/ Ages(a)

Next == (\E r \in Requests : Call(r) \/ Step(r)) \/ Collector \/ Crash

Spec == Init /\ [][Next]_vars

\* A read, a write or the file system's answer comes in the end; nothing is asked
\* of the callers or the collector.
FairSpec == Spec /\ \A r \in Requests : WF_vars(Step(r))

-----------------------------------------------------------------------------
TypeOK ==
  /\ pc \in [Requests -> {"idle", "waiting", "looking", "publishing", "committing",
                         "checking", "reading", "saving", "chunk"}]
  /\ job \in [Requests -> Jobs]
  /\ active \in Nat /\ waiting \in Seq(Requests)
  /\ held \subseteq Requests \X {"body", "chunk"}
  /\ references \in [Ids -> Contents \cup {None}]
  /\ index \subseteq Contents /\ young \subseteq Contents /\ tombstones \subseteq Contents
  /\ sweep \in [running : BOOLEAN, referenced : SUBSET Contents, hand : Contents \cup {None}]
  /\ promised \in [Ids -> Contents \cup {None}] /\ descriptors \subseteq Contents
  /\ raced \subseteq Ids /\ overtaken \subseteq Contents
  /\ crashes \in Nat /\ faults \in Nat

\* The count is that of the slots in use, within the limit, and nobody waits while
\* there is room.
SlotsCounted ==
  /\ active = Cardinality(held) /\ active <= Limit
  /\ waiting # <<>> => active = Limit

\* ... and a request that has ended holds none (data-concurrency.ts): a slot that
\* leaked, or was handed over twice, would narrow or widen the plane for good.
SlotsAreExact == SlotsCounted /\ \A s \in held : pc[s[1]] # "idle"

\* What was answered durable has a reference, to an object that can be named,
\* whatever was captured, collected or lost since, a restart included
\* (captureFile, collectGarbage). The object is the one it was answered for,
\* unless two captures found the observation without a reference, which the code
\* does not lock out (2698: "not a lock"); and it can be named unless the
\* collector, between the age of its entry and the entry's removal
\* (1646-1653), had it in hand when it was last published.
DurableIsReadable ==
  \A o \in Ids : promised[o] # None =>
    /\ references[o] = promised[o] \/ (o \in raced /\ references[o] # None)
    /\ Readable(references[o]) \/ references[o] \in overtaken

\* Saves hold every slot, and each of them waits for one more.
Jammed ==
  Cardinality({r \in Requests : /\ job[r].kind = "save" /\ pc[r] = "waiting"
                                /\ <<r, "body">> \in held}) = Limit

\* Every request is answered in the end, unless as many saves as there are slots
\* wait for each other: each holds one and asks for another one to read a chunk
\* (data-plane.ts 665-674). The limiter's comment, that no request nests in
\* another and there is no deadlock shape (data-concurrency.ts 65-68), leaves
\* that out; nothing bounds the saves under way.
EveryReadReturns == \A r \in Requests : pc[r] # "idle" ~> (pc[r] = "idle" \/ Jammed)
=============================================================================
