------------------------------ MODULE CellLease -------------------------------
(***************************************************************************)
(* The lease one IPython cell holds on the host's tools, for its lifetime. *)
(* The cell's program sends call frames; a call is accepted when the row   *)
(* of its intent is durable, runs alone in a FIFO, is settled durably and  *)
(* then answered; the close gives up what has not started, waits for what  *)
(* has, and flushes the record. Each action is what the host runs between  *)
(* two awaits: the storage domain, the tools and the kernel act in         *)
(* between. A crash of the host is no action: it may stop the model in any *)
(* state, and what it leaves is `rows', so an invariant about rows speaks  *)
(* of every crash.                                                         *)
(***************************************************************************)
EXTENDS BridgeLedger, Naturals, SequencesExt

CONSTANTS Frames,        \* the call frames the program sends
          Requests,      \* the request ids it chooses
          Arguments,     \* a tool and its arguments, by digest
          RequestOf, ArgumentsOf,
          Mismatched,    \* frames that claim another epoch, cell or lease
          HandoffMounted,  \* did the deployment configure jobHandoff?
          Undigestible,    \* may a handler return a value digestOf refuses?
          NoArguments,
          MaxCalls,        \* bound on the subcalls minted; a frame mints at most one
          MaxFaults        \* bound on failed ledger writes

ASSUME LeaseAssumption ==
  /\ Mismatched \subseteq Frames
  /\ RequestOf \in [Frames -> Requests] /\ ArgumentsOf \in [Frames -> Arguments]
  /\ NoArguments \notin Arguments
  /\ HandoffMounted \in BOOLEAN /\ Undigestible \in BOOLEAN
  /\ MaxCalls \in Nat /\ MaxFaults \in Nat

\* Subcalls are numbered as they are minted.
Subcalls == 1..MaxCalls
NoCall == 0

VARIABLES
  state,       \* OPEN, CLOSING, CLOSED
  known,       \* is the lease still in the server's table?
  sequence,
  calls,       \* each subcall: its frame and its phase
  accepting, byRequestId,  \* a request's subcall, before and after acceptance
  queue, drainScheduled,
  writes,      \* disposition writes under way
  unrecorded,
  frames,      \* what became of each frame: nothing yet, a refusal, a subcall
  rows,        \* durable: the ledger
  jobs,        \* calls the host handed to the job system
  executed,    \* history: calls whose handler was entered
  faults

runner == <<queue, drainScheduled, executed>>
record == <<writes, unrecorded, jobs>>
admission == <<sequence, accepting, byRequestId, frames>>
world == <<known, faults>>
vars == <<state, known, sequence, calls, accepting, byRequestId, queue, drainScheduled,
          writes, unrecorded, frames, rows, jobs, executed, faults>>

Refusals == {"LEASE_UNKNOWN", "CELL_LEASE_EXPIRED", "MISMATCH", "REQUEST_ID_CONFLICT"}

\* intent: the STARTED write is under way. stuck: the runner died under the call.
Phases == {"none", "intent", "refused", "queued", "running", "settling", "settled",
           "disposed", "stuck"}

NoFrame == "no frame"
Call == [frame : Frames \cup {NoFrame}, phase : Phases]
Unsent == [call |-> NoCall, refusal |-> None]

Init ==
  /\ state = "OPEN" /\ known = TRUE /\ sequence = 0
  /\ calls = [c \in Subcalls |-> [frame |-> NoFrame, phase |-> "none"]]
  /\ accepting = [r \in Requests |-> NoCall] /\ byRequestId = [r \in Requests |-> NoCall]
  /\ queue = <<>> /\ drainScheduled = FALSE
  /\ writes = [c \in Subcalls |-> None] /\ unrecorded = {}
  /\ frames = [f \in Frames |-> Unsent]
  /\ rows = [c \in Subcalls |-> NoRow]
  /\ jobs = {} /\ executed = {} /\ faults = 0

------------------------------------------------------------------------------

In(c, phase) == calls[c].phase = phase
RequestOfCall(c) == RequestOf[calls[c].frame]
ArgumentsOfCall(c) == ArgumentsOf[calls[c].frame]

\* Mutant: an intent is forgotten only when its write succeeds.
RejectedIntents == {c \in Subcalls : calls[c].phase \in {"intent", "refused"}}

pendingIntents == {c \in Subcalls : In(c, "intent")}
inFlight == {c \in Subcalls : calls[c].phase \in {"queued", "running", "settling", "stuck"}}

\* Mutant: any second frame of a request joins the first.
SameRequest(c, f) == TRUE

SameOperation(c, f) == ArgumentsOfCall(c) = ArgumentsOf[f]

------------------------------------------------------------------------------
(* BridgeServer.onCall and CellLease.invoke. *)

\* Mutant: a request is looked for only among the accepted ones.
PreviousAccepted(f) == byRequestId[RequestOf[f]]

\* The call an earlier frame with this request id made.
Previous(f) == IF byRequestId[RequestOf[f]] # NoCall THEN byRequestId[RequestOf[f]]
                                                     ELSE accepting[RequestOf[f]]

Refusal(f) == IF ~known THEN "LEASE_UNKNOWN"
              ELSE IF state # "OPEN" THEN "CELL_LEASE_EXPIRED"
              ELSE IF f \in Mismatched THEN "MISMATCH"
              ELSE IF Previous(f) # NoCall /\ ~SameOperation(Previous(f), f)
                   THEN "REQUEST_ID_CONFLICT" ELSE None

Refuse(f) ==
  /\ frames[f] = Unsent /\ Refusal(f) # None
  /\ frames' = [frames EXCEPT ![f].refusal = Refusal(f)]
  /\ UNCHANGED <<state, sequence, calls, accepting, byRequestId, rows, runner, record, world>>

Join(f) ==
  /\ frames[f] = Unsent /\ Refusal(f) = None /\ Previous(f) # NoCall
  /\ frames' = [frames EXCEPT ![f].call = Previous(f)]
  /\ UNCHANGED <<state, sequence, calls, accepting, byRequestId, rows, runner, record, world>>

Invoke(f) ==
  LET c == sequence + 1 IN
  /\ c \in Subcalls /\ frames[f] = Unsent /\ Refusal(f) = None /\ Previous(f) = NoCall
  /\ sequence' = c
  /\ calls' = [calls EXCEPT ![c] = [frame |-> f, phase |-> "intent"]]
  /\ accepting' = [accepting EXCEPT ![RequestOf[f]] = c]
  /\ frames' = [frames EXCEPT ![f].call = c]
  /\ UNCHANGED <<state, byRequestId, rows, runner, record, world>>

------------------------------------------------------------------------------
(* disposeUnstarted, for a set of calls: each is handed to a job or abandoned. *)

Handoffs(C) == IF HandoffMounted THEN SUBSET C ELSE {{}}

DisposeUnstarted(C, handed, table) ==
  /\ calls' = [c \in Subcalls |-> IF c \in C THEN [calls[c] EXCEPT !.phase = "disposed"]
                                             ELSE calls[c]]
  /\ jobs' = jobs \cup handed
  /\ writes' = [c \in Subcalls |-> IF c \in handed THEN "handed-to-jobs"
                                   ELSE IF c \in C THEN "abandoned-unstarted"
                                   ELSE writes[c]]
  /\ rows' = table

EndIntent(c) == accepting' = [accepting EXCEPT ![RequestOfCall(c)] = NoCall]

\* publish, with the lease still open. The runner, if none is scheduled, starts
\* the call before anything else runs.
Publish(c) ==
  LET idle == ~drainScheduled IN
  /\ In(c, "intent") /\ state = "OPEN"
  /\ rows' = [rows EXCEPT ![c] = Started(@)]
  /\ EndIntent(c)
  /\ byRequestId' = [byRequestId EXCEPT ![RequestOfCall(c)] = c]
  /\ calls' = [calls EXCEPT ![c].phase = IF idle THEN "running" ELSE "queued"]
  /\ queue' = IF idle THEN queue ELSE Append(queue, c)
  /\ executed' = IF idle THEN executed \cup {c} ELSE executed
  /\ drainScheduled' = TRUE
  /\ UNCHANGED <<state, sequence, frames, record, world>>

\* publish, after a close began during the write.
PublishTooLate(c) ==
  /\ In(c, "intent") /\ state # "OPEN"
  /\ EndIntent(c)
  /\ \E handed \in Handoffs({c}) :
       DisposeUnstarted({c}, handed, [rows EXCEPT ![c] = Started(@)])
  /\ UNCHANGED <<state, sequence, byRequestId, frames, unrecorded, runner, world>>

Fault == faults < MaxFaults /\ faults' = faults + 1

\* LEASE_LEDGER_UNAVAILABLE: nothing was accepted, and the request id is free.
IntentFails(c) ==
  /\ In(c, "intent") /\ Fault
  /\ EndIntent(c)
  /\ calls' = [calls EXCEPT ![c].phase = "refused"]
  /\ UNCHANGED <<state, known, sequence, byRequestId, frames, rows, runner, record>>

------------------------------------------------------------------------------
(* runQueue and runOne. *)

HandlerReturns(c) ==
  /\ In(c, "running")
  /\ \/ calls' = [calls EXCEPT ![c].phase = "settling"]
     \/ Undigestible /\ calls' = [calls EXCEPT ![c].phase = "stuck"]
  /\ UNCHANGED <<state, rows, runner, record, admission, world>>

\* Mutant: the runner leaves without saying so.
RunNextForever(c) ==
  IF queue = <<>>
  THEN /\ calls' = [calls EXCEPT ![c].phase = "settled"]
       /\ UNCHANGED <<queue, drainScheduled, executed>>
  ELSE /\ calls' = [calls EXCEPT ![c].phase = "settled", ![Head(queue)].phase = "running"]
       /\ queue' = Tail(queue) /\ executed' = executed \cup {Head(queue)}
       /\ UNCHANGED drainScheduled

\* The runner answers c and goes to the next call in the same step. The queue is
\* empty once the lease is closing.
RunNext(c) ==
  IF queue = <<>>
  THEN /\ calls' = [calls EXCEPT ![c].phase = "settled"]
       /\ drainScheduled' = FALSE
       /\ UNCHANGED <<queue, executed>>
  ELSE /\ calls' = [calls EXCEPT ![c].phase = "settled", ![Head(queue)].phase = "running"]
       /\ queue' = Tail(queue) /\ executed' = executed \cup {Head(queue)}
       /\ UNCHANGED drainScheduled

\* The disposition is decided after the settlement's write.
Settle(c) ==
  /\ In(c, "settling") /\ CanSettle(rows[c])
  /\ rows' = [rows EXCEPT ![c] = Settled(@)]
  /\ writes' = [writes EXCEPT ![c] = IF state = "OPEN" THEN "settled" ELSE "cancelled"]
  /\ RunNext(c)
  /\ UNCHANGED <<state, unrecorded, jobs, admission, world>>

SettlementFails(c) ==
  /\ In(c, "settling") /\ Fault
  /\ unrecorded' = unrecorded \cup {c}
  /\ RunNext(c)
  /\ UNCHANGED <<state, known, rows, writes, jobs, admission>>

------------------------------------------------------------------------------
(* report, close and drain. *)

Record(c) ==
  /\ writes[c] # None /\ CanDispose(rows[c])
  /\ rows' = [rows EXCEPT ![c] = Disposed(@, writes[c])]
  /\ writes' = [writes EXCEPT ![c] = None]
  /\ UNCHANGED <<state, calls, unrecorded, jobs, runner, admission, world>>

\* flush finds the rejected write before the lease is closed.
RecordFails(c) ==
  /\ writes[c] # None /\ Fault
  /\ writes' = [writes EXCEPT ![c] = None]
  /\ unrecorded' = unrecorded \cup {c}
  /\ UNCHANGED <<state, known, calls, jobs, rows, runner, admission>>

\* Mutant: the runner takes its call off the queue only when the call is over.
Unfinished == ToSet(queue) \cup {c \in Subcalls : In(c, "running")}

Unstarted == ToSet(queue)

\* The cell settled, its signal aborted, or its kernel is restarted or evicted:
\* every further close joins the first.
BeginClose ==
  /\ state = "OPEN"
  /\ state' = "CLOSING"
  /\ \E handed \in Handoffs(Unstarted) : DisposeUnstarted(Unstarted, handed, rows)
  /\ queue' = <<>>
  /\ UNCHANGED <<drainScheduled, executed, unrecorded, admission, world>>

\* Mutant: the close waits for accepted calls only.
QuietCalls == inFlight = {}

Quiescent == inFlight = {} /\ pendingIntents = {}
Flushed == \A c \in Subcalls : writes[c] = None

EndClose ==
  /\ state = "CLOSING" /\ Quiescent /\ Flushed
  /\ state' = "CLOSED"
  /\ UNCHANGED <<calls, rows, runner, record, admission, world>>

\* releaseLease after the close, or a server that is shutting down.
Forget ==
  /\ state # "OPEN" /\ known
  /\ known' = FALSE
  /\ UNCHANGED <<state, calls, rows, runner, record, admission, faults>>

------------------------------------------------------------------------------

LedgerAnswers(c) == \/ Publish(c) \/ PublishTooLate(c) \/ IntentFails(c)
                    \/ Settle(c) \/ SettlementFails(c)
                    \/ Record(c) \/ RecordFails(c)

\* What goes on without the cell's program or its owner: writes resolve or reject,
\* a tool returns, the close goes on.
Progress == \/ \E c \in Subcalls : LedgerAnswers(c) \/ HandlerReturns(c)
            \/ EndClose

Next == \/ \E f \in Frames : Refuse(f) \/ Join(f) \/ Invoke(f)
        \/ Progress \/ BeginClose \/ Forget

Spec == Init /\ [][Next]_vars

FairSpec == Spec /\ WF_vars(Progress)

------------------------------------------------------------------------------

\* The variables range over their types.
TypeOK ==
  /\ state \in {"OPEN", "CLOSING", "CLOSED"} /\ known \in BOOLEAN
  /\ sequence \in Subcalls \cup {NoCall}
  /\ calls \in [Subcalls -> Call]
  /\ accepting \in [Requests -> Subcalls \cup {NoCall}]
  /\ byRequestId \in [Requests -> Subcalls \cup {NoCall}]
  /\ queue \in Seq(Subcalls) /\ drainScheduled \in BOOLEAN
  /\ writes \in [Subcalls -> Dispositions \cup {None}]
  /\ unrecorded \subseteq Subcalls
  /\ frames \in [Frames -> [call : Subcalls \cup {NoCall}, refusal : Refusals \cup {None}]]
  /\ rows \in [Subcalls -> BridgeCallRecord]
  /\ jobs \subseteq Subcalls /\ executed \subseteq Subcalls
  /\ faults \in 0..MaxFaults

\* Wherever the host dies, its ledger says of every call what became of it: a call
\* that reached its tool has its intent there and, without its settlement, is
\* reported unknown; a call given up, or that a job owns, never reached its tool.
LedgerTellsTheTruth ==
  \A c \in Subcalls :
    /\ c \in executed => rows[c].settled \/ outcomeIsUnknown(rows[c])
    /\ c \in jobs \/ rows[c].disposition \in NeverRan => c \notin executed
    /\ rows[c].settled => c \in executed

\* A closed lease has left no accepted call behind: each one's row carries its
\* disposition and a known outcome, or the close named it as not recorded.
ClosedRecordComplete ==
  state = "CLOSED" =>
    \A c \in Subcalls : rows[c].started =>
      \/ c \in unrecorded
      \/ rows[c].disposition # None /\ ~outcomeIsUnknown(rows[c])

\* A frame is answered with the outcome of its own request and its own operation,
\* whichever frame with that id was accepted first.
FrameGetsItsOwnCall ==
  \A f \in Frames :
    frames[f].call # NoCall =>
      /\ RequestOfCall(frames[f].call) = RequestOf[f]
      /\ ArgumentsOfCall(frames[f].call) = ArgumentsOf[f]

\* Once the lease reports CLOSED nothing it accepted runs, is handed on or is
\* recorded any more: what a caller reads of the cell is final.
ClosedIsFinal == [][state = "CLOSED" => UNCHANGED <<rows, jobs, executed>>]_vars

\* Each request id runs at most one operation, at most once, alone, and not after
\* it was given up (see RequestOnce).
RanFor(r) == {c \in executed : RequestOfCall(c) = r}
OnceStatus(r) ==
  IF \E c \in RanFor(r) : c \in inFlight THEN "running"
  ELSE IF RanFor(r) # {} THEN "returned"
  ELSE IF \E c \in Subcalls : In(c, "disposed") /\ RequestOfCall(c) = r THEN "dropped"
  ELSE "new"
OnceNames(r) ==
  IF RanFor(r) = {} THEN NoArguments ELSE ArgumentsOfCall(CHOOSE c \in RanFor(r) : TRUE)

Once == INSTANCE RequestOnce WITH status <- [r \in Requests |-> OnceStatus(r)],
                                  names <- [r \in Requests |-> OnceNames(r)]
ImplementsOnce == Once!Spec

Answered(f) ==
  \/ frames[f].refusal # None
  \/ \E c \in Subcalls : /\ frames[f].call = c
                         /\ calls[c].phase \in {"settled", "disposed", "refused"}

\* A frame the host has read is answered, whatever happens to its call: a handler
\* that fails, a rejected write or a close must not leave the caller waiting.
FrameAnswered == \A f \in Frames : frames[f] # Unsent ~> Answered(f)

\* The runner was lost under a call whose outcome it could not digest.
RunnerLost == \E c \in Subcalls : In(c, "stuck")

\* While the runner lives, every frame is answered and a close that began completes:
\* no queued call, rejected write or intent under way holds either forever.
AnsweredWhileRunnerLives == \A f \in Frames : frames[f] # Unsent ~> Answered(f) \/ RunnerLost
CloseCompletes == state = "CLOSING" ~> state = "CLOSED" \/ RunnerLost
=============================================================================
