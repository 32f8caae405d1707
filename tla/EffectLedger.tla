----------------------------- MODULE EffectLedger -----------------------------
(***************************************************************************)
(* The ledger of external effects: an operation is recorded, marked as     *)
(* sent, sent, and its outcome recorded, each write awaited before the     *)
(* next step; what was marked is never sent again, only asked about. Calls *)
(* on the same operation wait for each other, the process may stop between *)
(* any two writes, and a request in flight may land, or be lost, long      *)
(* after its sender is gone. An action is what a call does between two     *)
(* awaits.                                                                 *)
(***************************************************************************)
EXTENDS Naturals, Sequences

CONSTANTS Operations, Digests, None,
          MaxCalls,           \* bound on the calls, numbered as they come
          Straggling,         \* may a request land after the remote denied it?
          MaxCrashes, MaxFaults

ASSUME EffectAssumption ==
  /\ Straggling \in BOOLEAN /\ MaxCrashes \in Nat /\ MaxFaults \in Nat
  /\ None \notin Digests /\ MaxCalls \in Nat

Calls == 1..MaxCalls

VARIABLES
  adapter,   \* what the remote can do
  rows,      \* the durable records
  calls,     \* each call of the ledger
  chains,    \* per operation, the calls that wait for their turn, the one under way first
  sent,      \* history: the calls that invoked the transport
  flying,    \* their requests that have neither arrived nor got lost
  landed,    \* their requests that took effect
  crashes, faults

vars == <<adapter, rows, calls, chains, sent, flying, landed, crashes, faults>>

Statuses == {"intent_recorded", "sent", "confirmed", "unknown", "not_started"}
Row == [status : Statuses \cup {"absent"}, digest : Digests \cup {None}, attempts : Nat]
NoRow == [status |-> "absent", digest |-> None, attempts |-> 0]

Kinds == {"recordIntent", "perform", "reconcile", "cancel"}
Outcomes == {"confirmed", "unknown", "not_started", "conflict", "recorded", "thrown"}

\* intent, marking, noting: a write is under way, of the row `next`; noting
\* is one after which the call returns `outcome`.
Writes == {"intent", "marking", "noting"}
Call == [phase : {"waiting", "sending", "querying", "done", "dead"} \cup Writes,
         kind : Kinds, op : Operations, digest : Digests, next : Row,
         outcome : Outcomes \cup {None}]
NewCall == [phase |-> "new"]

Fresh(digest) == [status |-> "intent_recorded", digest |-> digest, attempts |-> 0]

Capabilities == {"idempotencyKey", "queryable"}

Init ==
  /\ adapter \in SUBSET Capabilities
  /\ rows = [o \in Operations |-> NoRow]
  /\ calls = [c \in Calls |-> NewCall]
  /\ chains = [o \in Operations |-> <<>>]
  /\ sent = {} /\ flying = {} /\ landed = {}
  /\ crashes = 0 /\ faults = 0

------------------------------------------------------------------------------

\* Mutant: an unknown outcome is tried again.
SendableAgain(status) == status \in {"absent", "intent_recorded", "unknown"}

\* sendDecision
Sendable(status) == status \in {"absent", "intent_recorded"}

\* An operation is sent only if a lost reply can be reconciled.
Runnable == adapter # {}
Queryable == "queryable" \in adapter

\* The job under way on c's operation is c's.
HasTurn(c) == LET chain == chains[calls[c].op] IN chain # <<>> /\ Head(chain) = c

\* The step ends the call, which lets the next one in: serialized's finally.
Return(c, outcome) ==
  /\ calls' = [calls EXCEPT ![c].phase = "done", ![c].next = NoRow, ![c].outcome = outcome]
  /\ chains' = [chains EXCEPT ![calls[c].op] = Tail(@)]

\* The step ends in a write.
Put(c, phase, row, outcome) ==
  /\ calls' = [calls EXCEPT ![c].phase = phase, ![c].next = row, ![c].outcome = outcome]
  /\ UNCHANGED chains

Query(c) ==
  /\ calls' = [calls EXCEPT ![c].phase = "querying"]
  /\ UNCHANGED chains

Marked(row) == [status |-> "sent", digest |-> row.digest, attempts |-> row.attempts + 1]

\* send, up to its first write.
Send(c, held) ==
  LET digest == calls[c].digest
      base == IF held = NoRow THEN Fresh(digest) ELSE held
  IN IF ~Runnable THEN Put(c, "noting", [base EXCEPT !.status = "unknown"], "unknown")
     ELSE IF held = NoRow THEN Put(c, "intent", base, None)
     ELSE Put(c, "marking", Marked(base), None)

\* Mutant: what cannot be asked about is said never to have started.
ReconcileByGuess(c, held) ==
  \/ held.status = "confirmed" /\ Return(c, "confirmed")
  \/ held.status \in {"intent_recorded", "not_started"} /\ Return(c, "not_started")
  \/ /\ held.status \in {"sent", "unknown"}
     /\ IF Queryable THEN Query(c) ELSE Return(c, "not_started")

\* What a settled record answers to reconcile and cancel; anything else is asked of
\* the remote, if it can be asked.
Reconcile(c, held) ==
  \/ held.status = "confirmed" /\ Return(c, "confirmed")
  \/ held.status \in {"intent_recorded", "not_started"} /\ Return(c, "not_started")
  \/ /\ held.status \in {"sent", "unknown"}
     /\ IF Queryable THEN Query(c) ELSE Return(c, "unknown")

\* Mutant: an intent without a request covers any parameters.
ConflictsOnceSent(c, held) == held.attempts > 0 /\ held.digest # calls[c].digest

Conflicts(c, held) == held # NoRow /\ held.digest # calls[c].digest

Perform(c, held) ==
  /\ calls[c].kind = "perform"
  /\ IF Conflicts(c, held) THEN Put(c, "noting", held, "conflict")
     ELSE IF Sendable(held.status) THEN Send(c, held) ELSE Reconcile(c, held)

RecordIntent(c, held) ==
  /\ calls[c].kind = "recordIntent"
  /\ IF Conflicts(c, held) THEN Return(c, "thrown")
     ELSE IF held = NoRow THEN Put(c, "noting", Fresh(calls[c].digest), "recorded")
     ELSE Return(c, "recorded")

\* reconcile notes a conflict in the record, cancel only reports it.
Examine(c, held) ==
  /\ calls[c].kind \in {"reconcile", "cancel"}
  /\ IF held = NoRow THEN Return(c, "unknown")
     ELSE IF Conflicts(c, held)
          THEN IF calls[c].kind = "reconcile" THEN Put(c, "noting", held, "conflict")
               ELSE Return(c, "conflict")
     ELSE Reconcile(c, held)

------------------------------------------------------------------------------

Ask(c, kind, o, digest) ==
  /\ calls[c].phase = "new" /\ \A d \in 1..(c - 1) : calls[d].phase # "new"
  /\ calls' = [calls EXCEPT ![c] = [phase |-> "waiting", kind |-> kind, op |-> o,
                                   digest |-> digest, next |-> NoRow, outcome |-> None]]
  /\ chains' = [chains EXCEPT ![o] = Append(@, c)]
  /\ UNCHANGED <<rows, sent, flying, landed, crashes, faults>>

Begin(c) ==
  LET held == rows[calls[c].op] IN
  /\ calls[c].phase = "waiting" /\ HasTurn(c)
  /\ Perform(c, held) \/ RecordIntent(c, held) \/ Examine(c, held)
  /\ UNCHANGED <<rows, sent, flying, landed, crashes, faults>>

Written(row, c) == rows' = [rows EXCEPT ![calls[c].op] = row]

\* The intent is durable: the mark is next.
IntentWritten(c) ==
  /\ calls[c].phase = "intent"
  /\ Written(calls[c].next, c)
  /\ Put(c, "marking", Marked(calls[c].next), None)
  /\ UNCHANGED <<sent, flying, landed, crashes, faults>>

\* The mark is durable: the transport is invoked.
MarkWritten(c) ==
  /\ calls[c].phase = "marking"
  /\ Written(calls[c].next, c)
  /\ calls' = [calls EXCEPT ![c].phase = "sending"] /\ UNCHANGED chains
  /\ sent' = sent \cup {c} /\ flying' = flying \cup {c}
  /\ UNCHANGED <<landed, crashes, faults>>

NoteWritten(c) ==
  /\ calls[c].phase = "noting"
  /\ Written(calls[c].next, c)
  /\ Return(c, calls[c].outcome)
  /\ UNCHANGED <<sent, flying, landed, crashes, faults>>

Fault == faults < MaxFaults /\ faults' = faults + 1

\* A write that rejects left the row as it was; the call rejects with it.
WriteFails(c) ==
  /\ calls[c].phase \in Writes /\ Fault
  /\ Return(c, "thrown")
  /\ UNCHANGED <<rows, sent, flying, landed, crashes>>

\* The transport's reply: a confirmed effect took place, one reported as never
\* started never will; a lost reply, a thrown call, say nothing.
Replies(c) == {"unknown"} \cup (IF c \in landed THEN {"confirmed"} ELSE {})
                         \cup (IF c \notin landed \cup flying THEN {"not_started"} ELSE {})

TransportReturns(c) ==
  /\ calls[c].phase = "sending"
  /\ \E reply \in Replies(c) :
       Put(c, "noting", [calls[c].next EXCEPT !.status = reply], reply)
  /\ UNCHANGED <<rows, sent, flying, landed, crashes, faults>>

\* What a truthful remote knows of an operation when it is asked.
Answers(o) ==
  LET took == \E d \in landed : calls[d].op = o
      may == \E d \in flying : calls[d].op = o
  IN {"unknown"} \cup (IF took THEN {"confirmed"} ELSE {})
                 \cup (IF ~took /\ (Straggling \/ ~may) THEN {"not_started"} ELSE {})

\* A definite answer is recorded, any other leaves the record as it is.
QueryAnswered(c) ==
  LET held == rows[calls[c].op] IN
  /\ calls[c].phase = "querying"
  /\ \E answer \in Answers(calls[c].op) :
       IF answer = "unknown" THEN Return(c, "unknown")
       ELSE Put(c, "noting", [held EXCEPT !.status = answer], answer)
  /\ UNCHANGED <<rows, sent, flying, landed, crashes, faults>>

Lands(c) ==
  /\ c \in flying
  /\ flying' = flying \ {c} /\ landed' = landed \cup {c}
  /\ UNCHANGED <<rows, calls, chains, sent, crashes, faults>>

Lost(c) ==
  /\ c \in flying
  /\ flying' = flying \ {c}
  /\ UNCHANGED <<rows, calls, chains, sent, landed, crashes, faults>>

\* The process ends, or the ledger is closed: every call under way is gone, a write
\* under way is durable or not, a request in flight goes on.
Crash ==
  /\ crashes < MaxCrashes /\ crashes' = crashes + 1
  /\ \E kept \in SUBSET {o \in Operations : chains[o] # <<>>
                           /\ calls[Head(chains[o])].phase \in Writes} :
       rows' = [o \in Operations |-> IF o \in kept THEN calls[Head(chains[o])].next ELSE rows[o]]
  /\ calls' = [c \in Calls |-> IF calls[c].phase \in {"new", "done"} THEN calls[c]
                               ELSE [calls[c] EXCEPT !.phase = "dead", !.next = NoRow]]
  /\ chains' = [o \in Operations |-> <<>>]
  /\ UNCHANGED <<sent, flying, landed, faults>>

------------------------------------------------------------------------------

Continue(c) == \/ Begin(c) \/ IntentWritten(c) \/ MarkWritten(c) \/ NoteWritten(c)
               \/ WriteFails(c) \/ TransportReturns(c) \/ QueryAnswered(c)

Step == \/ \E c \in Calls : \/ \E kind \in Kinds, o \in Operations, digest \in Digests :
                                    Ask(c, kind, o, digest)
                              \/ Continue(c) \/ Lands(c) \/ Lost(c)
        \/ Crash

Next == Step /\ UNCHANGED adapter

Spec == Init /\ [][Next]_vars

------------------------------------------------------------------------------

\* The variables range over their types.
TypeOK ==
  /\ adapter \subseteq Capabilities
  /\ rows \in [Operations -> Row] /\ calls \in [Calls -> Call \cup {NewCall}]
  /\ chains \in [Operations -> Seq(Calls)]
  /\ sent \subseteq Calls /\ flying \subseteq Calls /\ landed \subseteq Calls
  /\ crashes \in 0..MaxCrashes /\ faults \in 0..MaxFaults

\* An operation's transport is invoked at most once, whoever asks for it, however
\* often, with whatever parameters, and wherever the process stopped.
SentOnce == \A c, d \in sent : calls[c].op = calls[d].op => c = d

\* The record alone tells a reader what became of the operation: no attempt means
\* that nothing was sent, what was sent had the recorded parameters, a confirmed
\* effect took place, one that never started never does.
RowTellsTheTruth ==
  \A o \in Operations :
    LET requests == {c \in sent : calls[c].op = o} IN
    /\ requests # {} => rows[o].attempts > 0
    /\ \A c \in requests : calls[c].digest = rows[o].digest
    /\ rows[o].status = "confirmed" => requests \cap landed # {}
    /\ rows[o].status = "not_started" => requests \cap (landed \cup flying) = {}

\* A caller is told "confirmed" only of an effect with its own parameters, and
\* "not_started" only while nothing has happened and nothing under way can.
Returns(c) == calls[c].phase # "done" /\ calls'[c].phase = "done"
AnswersAreTrue ==
  [][\A c \in Calls : Returns(c) =>
       LET requests == {d \in sent : calls[d].op = calls[c].op} IN
       /\ calls'[c].outcome = "confirmed"
            => \E d \in requests : d \in landed /\ calls[d].digest = calls[c].digest
       /\ calls'[c].outcome = "not_started" => requests \cap (landed \cup flying) = {}]_vars
=============================================================================
