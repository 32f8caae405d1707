------------------------------- MODULE WorkStart ------------------------------
(***************************************************************************)
(* How a session's run comes to be, and how its callers are answered:      *)
(* /work start observes the run or creates it, one start at a time;        *)
(* submissions and completions ask the run's drain leader for a pass and   *)
(* wait for it. One session, whose run has one key whoever creates it: a   *)
(* second creation would write over the first. The admission of a row,     *)
(* which RollingDrain has in detail, is one step here.                     *)
(***************************************************************************)
EXTENDS Naturals, Sequences, FiniteSets

CONSTANTS Starts,      \* /work start commands
          Submits,     \* work submit calls, each of a task of its own
          Wakes,       \* completions of the run's children
          Boot,        \* the sweep at start-up
          None,
          Crowded,     \* may more than one start wait for the one under way?
          MaxCrashes, MaxFaults

Calls == Starts \cup Submits \cup Wakes \cup {Boot}

ASSUME StartAssumption ==
  /\ IsFiniteSet(Calls) /\ None \notin Calls /\ Boot \notin Starts \cup Submits \cup Wakes
  /\ Starts \cap Submits = {} /\ Starts \cap Wakes = {} /\ Submits \cap Wakes = {}
  /\ Crowded \in BOOLEAN /\ MaxCrashes \in Nat /\ MaxFaults \in Nat

VARIABLES
  pc,        \* how far each call has come
  behind,    \* the start a waiting start waits for
  pending,   \* pendingAuthorization: the start under way
  chain,     \* the domain's write chain: the calls whose writes are queued
  record,    \* durable: who created the run, its ready rows and admitted tasks
  port,      \* is a launch port installed?
  leader,    \* the run's drain leader
  unseen,    \* history: calls that asked for a pass since the table was last read
  crashes, faults

vars == <<pc, behind, pending, chain, record, port, leader, unseen, crashes, faults>>

Over == {"created", "served", "failed", "lost"}

\* No leader, and no work for one.
Resting == [at |-> "rest", requested |-> 0, handled |-> 0, pass |-> 0,
            waiting |-> {}, batch |-> {}, left |-> {}, rows |-> {}]

NoRun == [by |-> None, ready |-> {}, tasks |-> {}]
Exists == record.by # None

Init ==
  /\ pc = [c \in Calls |-> "idle"] /\ behind = [s \in Starts |-> None]
  /\ pending = None /\ chain = <<>> /\ record = NoRun /\ port = FALSE
  /\ leader = Resting /\ unseen = {} /\ crashes = 0 /\ faults = 0

-----------------------------------------------------------------------------
(* The leader's generations. *)

\* It takes all that wait into its next pass, or is gone when nothing was asked.
NextPass(l) ==
  IF l.requested > l.handled
  THEN [l EXCEPT !.at = "entry", !.pass = l.requested, !.waiting = {},
                 !.batch = l.waiting, !.left = l.waiting]
  ELSE Resting

\* requestDrain: c joins the leader, who is elected when there is none.
Joined(l, c) ==
  LET asked == [l EXCEPT !.requested = @ + 1, !.waiting = @ \cup {c}]
  IN  IF l.at = "rest" THEN NextPass(asked) ELSE asked

RequestDrain(c) ==
  /\ leader' = Joined(leader, c)
  /\ unseen' = unseen \cup {c}
  /\ pc' = [pc EXCEPT ![c] = "draining"]

\* The calls in cs are answered; a start that was under way no longer is.
Settle(cs, answer) ==
  /\ pc' = [c \in Calls |-> IF c \in cs THEN answer ELSE pc[c]]
  /\ pending' = IF pending \in cs THEN None ELSE pending

-----------------------------------------------------------------------------
(* authorizeRun and serializeAuthorization. *)

\* Under the serializer: the run that exists gets its port and a pass, or one is
\* created, its write queued.
Authorize(s) ==
  /\ pending' = s
  /\ port' = TRUE
  /\ \/ Exists /\ RequestDrain(s) /\ UNCHANGED chain
     \/ /\ ~Exists
        /\ chain' = Append(chain, s) /\ pc' = [pc EXCEPT ![s] = "creating"]
        /\ UNCHANGED <<leader, unseen>>

\* Mutant: nobody waits for a start under way.
StartAtOnce(s) ==
  /\ pc[s] = "idle"
  /\ Authorize(s) /\ UNCHANGED <<behind, record, crashes, faults>>

Start(s) ==
  /\ pc[s] = "idle"
  /\ Crowded \/ \A x \in Starts : pc[x] # "queued"
  /\ \/ pending = None /\ Authorize(s) /\ UNCHANGED behind
     \/ /\ pending # None
        /\ pc' = [pc EXCEPT ![s] = "queued"] /\ behind' = [behind EXCEPT ![s] = pending]
        /\ UNCHANGED <<pending, chain, port, leader, unseen>>
  /\ UNCHANGED <<record, crashes, faults>>

\* The one it waited for has returned or failed: it goes on, whoever else does.
Resume(s) ==
  /\ pc[s] = "queued" /\ pc[behind[s]] \in Over
  /\ Authorize(s)
  /\ UNCHANGED <<behind, record, crashes, faults>>

-----------------------------------------------------------------------------
(* The other calls, and the write chain. *)

\* work submit: the row is written first.
Submit(c) ==
  /\ pc[c] = "idle" /\ Exists
  /\ chain' = Append(chain, c) /\ pc' = [pc EXCEPT ![c] = "writing"]
  /\ UNCHANGED <<behind, pending, record, port, leader, unseen, crashes, faults>>

\* subagent/end, its task reconciled: the wake.
Wake(c) ==
  /\ pc[c] = "idle" /\ Exists
  /\ RequestDrain(c)
  /\ UNCHANGED <<behind, pending, chain, record, port, crashes, faults>>

\* The write at the head of the chain is durable: a run, whatever was at its
\* key, or a row, whose submitter then asks for a pass.
Commit ==
  /\ chain # <<>> /\ chain' = Tail(chain)
  /\ LET c == Head(chain)
     IN  \/ /\ c \in Starts
            /\ record' = [NoRun EXCEPT !.by = c]
            /\ Settle({c}, "created")
            /\ UNCHANGED <<leader, unseen>>
         \/ /\ c \in Submits
            /\ record' = [record EXCEPT !.ready = @ \cup {c}]
            /\ RequestDrain(c)
            /\ UNCHANGED pending
  /\ UNCHANGED <<behind, port, crashes, faults>>

CommitFails ==
  /\ chain # <<>> /\ chain' = Tail(chain)
  /\ faults < MaxFaults /\ faults' = faults + 1
  /\ Settle({Head(chain)}, "failed")
  /\ UNCHANGED <<behind, record, port, leader, unseen, crashes>>

-----------------------------------------------------------------------------
(* runDrainLeader and runDrainPass. *)

\* One caller of the batch: the ready table is read now. Without a port it is
\* left as it is.
ReadTable ==
  /\ leader.at = "entry"
  /\ \E c \in leader.left :
       leader' = [leader EXCEPT !.at = "rows", !.left = @ \ {c},
                                !.rows = IF port THEN record.ready ELSE {}]
  /\ unseen' = {}
  /\ UNCHANGED <<pc, behind, pending, chain, record, port, crashes, faults>>

\* A row is admitted and leaves the table, or the host is full; a refusal for want
\* of target or budget ends the caller's rows.
TryRow(t) ==
  /\ leader.at = "rows" /\ t \in leader.rows /\ chain = <<>>
  /\ \/ /\ record' = [record EXCEPT !.ready = @ \ {t}, !.tasks = @ \cup {t}]
        /\ leader' = [leader EXCEPT !.rows = @ \ {t}]
     \/ leader' = [leader EXCEPT !.rows = @ \ {t}] /\ UNCHANGED record
     \/ leader' = [leader EXCEPT !.rows = {}] /\ UNCHANGED record
  /\ UNCHANGED <<pc, behind, pending, chain, port, unseen, crashes, faults>>

EndRows ==
  /\ leader.at = "rows" /\ leader.rows = {}
  /\ leader' = [leader EXCEPT !.at = "entry"]
  /\ UNCHANGED <<pc, behind, pending, chain, record, port, unseen, crashes, faults>>

\* Mutant: those who came during the pass are answered with it.
EndPassForAll ==
  /\ leader.at = "entry" /\ leader.left = {}
  /\ Settle(leader.batch \cup leader.waiting, "served")
  /\ leader' = Resting
  /\ UNCHANGED <<behind, chain, record, port, unseen, crashes, faults>>

\* Those of the batch are answered, and the next pass is taken up at once.
EndPass ==
  /\ leader.at = "entry" /\ leader.left = {}
  /\ Settle(leader.batch, "served")
  /\ leader' = NextPass([leader EXCEPT !.handled = leader.pass])
  /\ UNCHANGED <<behind, chain, record, port, unseen, crashes, faults>>

\* Mutant: only those who still wait are told of a pass that failed.
PassFailsQuietly ==
  /\ leader.at = "rows" /\ leader.rows # {}
  /\ faults < MaxFaults /\ faults' = faults + 1
  /\ Settle(leader.waiting, "failed")
  /\ leader' = Resting
  /\ UNCHANGED <<behind, chain, record, port, unseen, crashes>>

\* A write of the pass fails: all who wait for the leader are told, and it is gone.
PassFails ==
  /\ leader.at = "rows" /\ leader.rows # {}
  /\ faults < MaxFaults /\ faults' = faults + 1
  /\ Settle(leader.batch \cup leader.waiting, "failed")
  /\ leader' = Resting
  /\ UNCHANGED <<behind, chain, record, port, unseen, crashes>>

Pass == ReadTable \/ (\E t \in Submits : TryRow(t)) \/ EndRows \/ EndPass

\* The process stops and starts again: the record stays, and the sweep asks for a
\* pass when there are ready rows.
Crash ==
  /\ crashes < MaxCrashes /\ crashes' = crashes + 1
  /\ LET swept == record.ready # {}
     IN  /\ pc' = [c \in Calls |-> CASE c = Boot -> IF swept THEN "draining" ELSE "idle"
                                     [] c # Boot /\ pc[c] \in Over \cup {"idle"} -> pc[c]
                                     [] OTHER -> "lost"]
         /\ leader' = IF swept THEN Joined(Resting, Boot) ELSE Resting
         /\ unseen' = IF swept THEN {Boot} ELSE {}
  /\ pending' = None /\ chain' = <<>> /\ port' = FALSE
  /\ UNCHANGED <<behind, record, faults>>

Next ==
  \/ \E s \in Starts : Start(s) \/ Resume(s)
  \/ (\E c \in Submits : Submit(c)) \/ (\E c \in Wakes : Wake(c))
  \/ Commit \/ CommitFails \/ Pass \/ PassFails \/ Crash

Spec == Init /\ [][Next]_vars

\* The event loop runs what is ready, and a write ends one way or the other.
FairSpec ==
  /\ Spec /\ WF_vars(Commit) /\ WF_vars(Pass)
  /\ \A s \in Starts : WF_vars(Resume(s))

-----------------------------------------------------------------------------
Known == record.ready \cup record.tasks

TypeOK ==
  /\ pc \in [Calls -> Over \cup {"idle", "queued", "creating", "writing", "draining"}]
  /\ behind \in [Starts -> Starts \cup {None}] /\ pending \in Starts \cup {None}
  /\ chain \in Seq(Starts \cup Submits)
  /\ record \in [by : Starts \cup {None}, ready : SUBSET Submits, tasks : SUBSET Submits]
  /\ port \in BOOLEAN
  /\ leader \in [at : {"rest", "entry", "rows"}, requested : Nat, handled : Nat, pass : Nat,
                 waiting : SUBSET Calls, batch : SUBSET Calls, left : SUBSET Calls,
                 rows : SUBSET Submits]
  /\ unseen \subseteq Calls /\ crashes \in Nat /\ faults \in Nat

\* One start creates the session's run; whatever fails, waits or restarts, no
\* later one writes over it, and no submitted row is lost with it ("the second
\* runs its existence check only after the first has finished writing", host.ts
\* serializeAuthorization).
RunSurvivesStarts ==
  /\ [](\A s \in Starts : pc[s] = "created" => record.by = s)
  /\ [][Exists => record'.by = record.by /\ Known \subseteq Known']_vars

\* Who is answered was looked after: the ready table was read after the call
\* asked, never by the pass under way when it came (host.ts runDrainLeader).
AnswersFollowALook == \A c \in unseen : pc[c] # "served"

\* Every start, submission and wake is answered, be it with a failure of its
\* predecessor, of a write or of a pass.
EveryCallReturns ==
  \A c \in Calls : pc[c] \notin Over \cup {"idle"} ~> pc[c] \in Over \cup {"idle"}
=============================================================================
