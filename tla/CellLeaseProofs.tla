--------------------------- MODULE CellLeaseProofs ---------------------------
(***************************************************************************)
(* Theorems about CellLease, for every set of frames, requests and         *)
(* operations and every bound, with and without a handoff and with         *)
(* handlers whose values cannot be digested.                               *)
(***************************************************************************)
EXTENDS CellLease, TLAPS

\* Each of the ledger's writes leaves a row its schema accepts (bridge-ledger.ts).
LEMMA RowTypes ==
  ASSUME NEW row \in BridgeCallRecord, NEW d \in Dispositions \cup {None}
  PROVE  /\ Started(row) \in BridgeCallRecord /\ Settled(row) \in BridgeCallRecord
         /\ Disposed(row, d) \in BridgeCallRecord /\ NoRow \in BridgeCallRecord
BY DEF BridgeCallRecord, Started, Settled, Disposed, NoRow

\* A call only changes its phase (bridge.ts AcceptedCall).
LEMMA PhaseTypes ==
  ASSUME NEW table \in [Subcalls -> Call], NEW c \in Subcalls, NEW p \in Phases
  PROVE  [table EXCEPT ![c].phase = p] \in [Subcalls -> Call]
BY DEF Call

\* The runner takes a call that waits, and leaves the others waiting
\* (bridge.ts runQueue).
LEMMA RunNextTypes ==
  ASSUME TypeOK, NEW c \in Subcalls, RunNext(c)
  PROVE  /\ calls' \in [Subcalls -> Call]
         /\ queue' \in Seq(Subcalls) /\ drainScheduled' \in BOOLEAN
         /\ executed' \subseteq Subcalls
<1> DEFINE over == [calls EXCEPT ![c].phase = "settled"]
<1>1. over \in [Subcalls -> Call]
  BY PhaseTypes DEF TypeOK, Phases
<1>2. CASE queue = <<>>
  BY <1>1, <1>2 DEF RunNext, TypeOK
<1>3. CASE queue # <<>>
  <2>1. Head(queue) \in Subcalls /\ Tail(queue) \in Seq(Subcalls)
    BY <1>3 DEF TypeOK
  <2>2. calls' = [over EXCEPT ![Head(queue)].phase = "running"]
    BY <1>3 DEF RunNext
  <2> HIDE DEF over
  <2>3. calls' \in [Subcalls -> Call]
    BY <1>1, <2>1, <2>2, PhaseTypes DEF Phases
  <2> QED BY <1>3, <2>1, <2>3 DEF RunNext, TypeOK
<1> QED BY <1>2, <1>3

\* A call given up is handed on or abandoned (bridge.ts disposeUnstarted).
LEMMA DisposeTypes ==
  ASSUME TypeOK, NEW C \in SUBSET Subcalls, NEW handed \in Handoffs(C), NEW table,
         DisposeUnstarted(C, handed, table)
  PROVE  /\ calls' \in [Subcalls -> Call]
         /\ jobs' \subseteq Subcalls /\ rows' = table
         /\ writes' \in [Subcalls -> Dispositions \cup {None}]
<1>1. handed \subseteq C
  BY DEF Handoffs
<1> QED BY <1>1 DEF DisposeUnstarted, TypeOK, Call, Phases, Dispositions

LEMMA TypeStep == TypeOK /\ [Next]_vars => TypeOK'
<1> SUFFICES ASSUME TypeOK, [Next]_vars PROVE TypeOK'
  OBVIOUS
<1> USE LeaseAssumption DEF NoCall
<1>1. ASSUME NEW f \in Frames, Refuse(f) PROVE TypeOK'
  <2>1. Refusal(f) \in Refusals
    BY <1>1 DEF Refuse, Refusal, Refusals
  <2> QED BY <1>1, <2>1 DEF Refuse, TypeOK, runner, record, world
<1>2. ASSUME NEW f \in Frames, Join(f) PROVE TypeOK'
  <2>1. Previous(f) \in Subcalls \cup {NoCall}
    BY DEF Previous, TypeOK
  <2> QED BY <1>2, <2>1 DEF Join, TypeOK, runner, record, world
<1>3. ASSUME NEW f \in Frames, Invoke(f) PROVE TypeOK'
  <2>1. calls' \in [Subcalls -> Call]
    BY <1>3 DEF Invoke, TypeOK, Call, Phases
  <2>2. accepting' \in [Requests -> Subcalls \cup {NoCall}]
    BY <1>3 DEF Invoke, TypeOK
  <2>3. frames' \in [Frames -> [call : Subcalls \cup {NoCall}, refusal : Refusals \cup {None}]]
    BY <1>3 DEF Invoke, TypeOK
  <2> QED BY <1>3, <2>1, <2>2, <2>3 DEF Invoke, TypeOK, runner, record, world
<1>4. ASSUME NEW c \in Subcalls, Publish(c) PROVE TypeOK'
  <2>1. rows' \in [Subcalls -> BridgeCallRecord]
    BY <1>4, RowTypes DEF Publish, TypeOK
  <2>2. queue' \in Seq(Subcalls)
    BY <1>4 DEF Publish, TypeOK
  <2>3. calls' \in [Subcalls -> Call]
    BY <1>4, PhaseTypes DEF Publish, TypeOK, Phases
  <2>4. executed' \subseteq Subcalls /\ drainScheduled' \in BOOLEAN
    BY <1>4 DEF Publish, TypeOK
  <2> QED BY <1>4, <2>1, <2>2, <2>3, <2>4 DEF Publish, EndIntent, TypeOK, record, world
<1>5. ASSUME NEW c \in Subcalls, PublishTooLate(c) PROVE TypeOK'
  <2> DEFINE table == [rows EXCEPT ![c] = Started(@)]
  <2>1. PICK handed \in Handoffs({c}) : DisposeUnstarted({c}, handed, table)
    BY <1>5 DEF PublishTooLate
  <2>2. table \in [Subcalls -> BridgeCallRecord]
    BY RowTypes DEF TypeOK
  <2> HIDE DEF table
  <2>3. /\ calls' \in [Subcalls -> Call]
        /\ jobs' \subseteq Subcalls /\ rows' = table
        /\ writes' \in [Subcalls -> Dispositions \cup {None}]
    BY <2>1, DisposeTypes
  <2> QED BY <1>5, <2>2, <2>3 DEF PublishTooLate, EndIntent, TypeOK, runner, world
<1>6. ASSUME NEW c \in Subcalls, IntentFails(c) PROVE TypeOK'
  <2>1. calls' \in [Subcalls -> Call]
    BY <1>6, PhaseTypes DEF IntentFails, TypeOK, Phases
  <2>2. accepting' \in [Requests -> Subcalls \cup {NoCall}]
    BY <1>6 DEF IntentFails, EndIntent, TypeOK
  <2>3. faults' \in 0..MaxFaults
    BY <1>6 DEF IntentFails, Fault, TypeOK
  <2> QED BY <1>6, <2>1, <2>2, <2>3 DEF IntentFails, TypeOK, runner, record
<1>7. ASSUME NEW c \in Subcalls, HandlerReturns(c) PROVE TypeOK'
  <2>1. calls' \in [Subcalls -> Call]
    <3>1. PICK p \in Phases : calls' = [calls EXCEPT ![c].phase = p]
      BY <1>7 DEF HandlerReturns, Phases
    <3> QED BY <3>1, PhaseTypes DEF TypeOK
  <2> QED BY <1>7, <2>1 DEF HandlerReturns, TypeOK, runner, record, admission, world
<1>8. ASSUME NEW c \in Subcalls, Settle(c) PROVE TypeOK'
  <2>1. rows' \in [Subcalls -> BridgeCallRecord]
    BY <1>8, RowTypes DEF Settle, TypeOK
  <2>2. writes' \in [Subcalls -> Dispositions \cup {None}]
    BY <1>8 DEF Settle, TypeOK, Dispositions
  <2> QED BY <1>8, <2>1, <2>2, RunNextTypes DEF Settle, TypeOK, admission, world
<1>9. ASSUME NEW c \in Subcalls, SettlementFails(c) PROVE TypeOK'
  BY <1>9, RunNextTypes DEF SettlementFails, Fault, TypeOK, admission
<1>10. ASSUME NEW c \in Subcalls, Record(c) PROVE TypeOK'
  <2>1. rows' \in [Subcalls -> BridgeCallRecord]
    BY <1>10, RowTypes DEF Record, TypeOK
  <2> QED BY <1>10, <2>1 DEF Record, TypeOK, runner, admission, world
<1>11. ASSUME NEW c \in Subcalls, RecordFails(c) PROVE TypeOK'
  BY <1>11 DEF RecordFails, Fault, TypeOK, runner, admission
<1>12. ASSUME BeginClose PROVE TypeOK'
  <2>1. Unstarted \in SUBSET Subcalls
    BY DEF Unstarted, ToSet, TypeOK
  <2>2. PICK handed \in Handoffs(Unstarted) : DisposeUnstarted(Unstarted, handed, rows)
    BY <1>12 DEF BeginClose
  <2>3. /\ calls' \in [Subcalls -> Call]
        /\ jobs' \subseteq Subcalls /\ rows' = rows
        /\ writes' \in [Subcalls -> Dispositions \cup {None}]
    BY <2>1, <2>2, DisposeTypes
  <2>4. queue' \in Seq(Subcalls)
    BY <1>12 DEF BeginClose
  <2> QED BY <1>12, <2>3, <2>4 DEF BeginClose, TypeOK, admission, world
<1>13. ASSUME EndClose PROVE TypeOK'
  BY <1>13 DEF EndClose, TypeOK, runner, record, admission, world
<1>14. ASSUME Forget PROVE TypeOK'
  BY <1>14 DEF Forget, TypeOK, runner, record, admission
<1>15. CASE UNCHANGED vars
  BY <1>15 DEF vars, TypeOK
<1> QED BY <1>1, <1>2, <1>3, <1>4, <1>5, <1>6, <1>7, <1>8, <1>9, <1>10, <1>11, <1>12,
           <1>13, <1>14, <1>15 DEF Next, Progress, LedgerAnswers

LEMMA InitTypes == Init => TypeOK
<1> SUFFICES ASSUME Init PROVE TypeOK
  OBVIOUS
<1>1. rows \in [Subcalls -> BridgeCallRecord]
  BY DEF Init, NoRow, BridgeCallRecord
<1>2. calls \in [Subcalls -> Call]
  BY DEF Init, Call, Phases
<1>3. frames \in [Frames -> [call : Subcalls \cup {NoCall}, refusal : Refusals \cup {None}]]
  BY DEF Init, Unsent
<1>4. queue \in Seq(Subcalls) /\ faults \in 0..MaxFaults
  BY LeaseAssumption DEF Init
<1> QED BY <1>1, <1>2, <1>3, <1>4 DEF Init, TypeOK, NoCall

\* The lease's state is well formed after every history (bridge.ts CellLease).
THEOREM TypeCorrect == Spec => []TypeOK
BY InitTypes, TypeStep, PTL DEF Spec

------------------------------------------------------------------------------

\* The inductive invariant of the record: what each phase of a call says of its
\* row, its writes, its handler and its job, and what the queue and the tables hold.
GivenUp(c) == rows[c].disposition \in NeverRan \cup {None} /\ writes[c] \in NeverRan \cup {None}

Accounted(c) == c \in unrecorded \/ writes[c] # None \/ rows[c].disposition # None

CallFits(c) ==
  /\ calls[c].phase \in {"none", "intent", "refused"} =>
       rows[c] = NoRow /\ writes[c] = None /\ c \notin executed /\ c \notin jobs
  /\ In(c, "queued") =>
       rows[c] = Started(NoRow) /\ writes[c] = None /\ c \notin executed /\ c \notin jobs
  /\ calls[c].phase \in {"running", "settling", "stuck"} =>
       rows[c] = Started(NoRow) /\ writes[c] = None /\ c \in executed /\ c \notin jobs
  /\ In(c, "settled") =>
       /\ rows[c].started /\ c \in executed /\ c \notin jobs /\ Accounted(c)
       /\ rows[c].disposition \notin NeverRan /\ writes[c] \notin NeverRan
       /\ rows[c].settled \/ c \in unrecorded
  /\ In(c, "disposed") =>
       /\ rows[c].started /\ ~rows[c].settled /\ c \notin executed
       /\ GivenUp(c) /\ Accounted(c)

CallsFit == \A c \in Subcalls : CallFits(c)

QueueFits ==
  \A i, j \in DOMAIN queue : In(queue[i], "queued") /\ (i # j => queue[i] # queue[j])

ClosedIsQuiet == state = "CLOSED" => Quiescent /\ Flushed

LeaseInv == CallsFit /\ QueueFits /\ ClosedIsQuiet

\* One call's part of it looks only at that call.
CallView(c) == <<calls[c].phase, rows[c], writes[c], c \in executed, c \in jobs, c \in unrecorded>>

LEMMA SameView ==
  ASSUME NEW c \in Subcalls, CallFits(c), UNCHANGED CallView(c)
  PROVE  CallFits(c)'
BY DEF CallFits, CallView, In, GivenUp, Accounted

\* The runner enters a call that waited, and no other (bridge.ts runQueue).
LEMMA RunNextFits ==
  ASSUME TypeOK, QueueFits, NEW c \in Subcalls, ~In(c, "queued"), RunNext(c)
  PROVE  /\ QueueFits'
         /\ In(c, "settled")' /\ (c \in executed' <=> c \in executed)
         /\ \A d \in Subcalls \ {c} :
              \/ calls[d]' = calls[d] /\ (d \in executed' <=> d \in executed)
              \/ In(d, "queued") /\ In(d, "running")' /\ d \in executed'
<1>1. CASE queue = <<>>
  BY <1>1 DEF RunNext, QueueFits, In, TypeOK, Call
<1>2. CASE queue # <<>>
  <2> DEFINE h == Head(queue)
  <2>1. /\ queue \in Seq(Subcalls) /\ 1 \in DOMAIN queue /\ h = queue[1]
        /\ h \in Subcalls /\ h # c /\ In(h, "queued")
    BY <1>2 DEF TypeOK, QueueFits
  <2>2. /\ calls' = [calls EXCEPT ![c].phase = "settled", ![h].phase = "running"]
        /\ queue' = Tail(queue) /\ executed' = executed \cup {h}
    BY <1>2 DEF RunNext
  <2>3. /\ \A i \in DOMAIN Tail(queue) : i + 1 \in DOMAIN queue /\ i + 1 # 1
                                        /\ Tail(queue)[i] = queue[i + 1]
        /\ DOMAIN Tail(queue) \subseteq Nat
    BY <1>2, <2>1
  <2> HIDE DEF h
  <2>4. /\ calls'[c].phase = "settled" /\ calls'[h].phase = "running"
        /\ \A d \in Subcalls \ {c, h} : calls'[d] = calls[d]
    BY <2>1, <2>2 DEF TypeOK, Call
  <2>5. QueueFits'
    <3> SUFFICES ASSUME NEW i \in DOMAIN queue', NEW j \in DOMAIN queue'
                 PROVE  In(queue[i], "queued")' /\ (i # j => queue'[i] # queue'[j])
      BY DEF QueueFits
    <3>1. /\ i + 1 \in DOMAIN queue /\ j + 1 \in DOMAIN queue /\ i + 1 # 1
          /\ queue'[i] = queue[i + 1] /\ queue'[j] = queue[j + 1] /\ i \in Nat /\ j \in Nat
      BY <2>2, <2>3
    <3>2. /\ In(queue[i + 1], "queued") /\ queue[i + 1] # queue[1]
          /\ (i # j => queue[i + 1] # queue[j + 1])
      BY <2>1, <3>1 DEF QueueFits
    <3>3. queue[i + 1] \in Subcalls \ {c, h}
      BY <2>1, <3>1, <3>2 DEF In
    <3> QED BY <2>4, <3>1, <3>2, <3>3 DEF In
  <2> QED BY <2>1, <2>2, <2>4, <2>5 DEF In
<1> QED BY <1>1, <1>2

\* Calls given up together are disposed of, each by a handoff or not (bridge.ts
\* disposeUnstarted).
LEMMA DisposeFits ==
  ASSUME TypeOK, NEW C \in SUBSET Subcalls, NEW handed \in Handoffs(C), NEW table,
         DisposeUnstarted(C, handed, table)
  PROVE  /\ \A c \in C : In(c, "disposed")' /\ writes'[c] \in NeverRan
         /\ \A c \in Subcalls \ C : /\ calls'[c] = calls[c] /\ writes'[c] = writes[c]
                                   /\ (c \in jobs' <=> c \in jobs)
         /\ rows' = table
<1>1. handed \subseteq C
  BY DEF Handoffs
<1> QED BY <1>1 DEF DisposeUnstarted, TypeOK, Call, In, NeverRan

\* A frame that is refused, joins or starts an intent touches no call already made.
LEMMA FrameStep ==
  ASSUME TypeOK, CallsFit, QueueFits, NEW f \in Frames, Refuse(f) \/ Join(f) \/ Invoke(f),
         \A c \in Subcalls : c > sequence => In(c, "none")
  PROVE  CallsFit' /\ QueueFits'
<1>1. CASE Refuse(f) \/ Join(f)
  BY <1>1 DEF Refuse, Join, CallsFit, QueueFits, CallFits, In, GivenUp, Accounted, runner, record
<1>2. CASE Invoke(f)
  <2>0. PICK n \in Subcalls : n = sequence + 1
    BY <1>2 DEF Invoke
  <2>1. /\ In(n, "none") /\ In(n, "intent")'
        /\ \A c \in Subcalls \ {n} : calls'[c] = calls[c]
        /\ UNCHANGED <<rows, writes, executed, jobs, unrecorded, queue>>
    BY <1>2, <2>0, LeaseAssumption DEF Invoke, TypeOK, In, NoCall, Subcalls, runner, record
  <2>2. CallFits(n)'
    BY <2>1 DEF CallsFit, CallFits, In
  <2>3. ASSUME NEW c \in Subcalls \ {n} PROVE CallFits(c)'
    BY <2>1, <2>3, SameView DEF CallsFit, CallView
  <2>4. QueueFits'
    BY <2>1 DEF QueueFits, In, TypeOK
  <2> QED BY <2>2, <2>3, <2>4 DEF CallsFit
<1> QED BY <1>1, <1>2

LEMMA LeaseStep ==
  ASSUME TypeOK, LeaseInv, [Next]_vars,
         \A c \in Subcalls : c > sequence => In(c, "none")
  PROVE  CallsFit' /\ QueueFits'
<1> USE DEF LeaseInv
<1>1. ASSUME NEW f \in Frames, Refuse(f) \/ Join(f) \/ Invoke(f) PROVE CallsFit' /\ QueueFits'
  BY <1>1, FrameStep
<1>2. ASSUME NEW c \in Subcalls, Publish(c) PROVE CallsFit' /\ QueueFits'
  <2>1. /\ rows'[c] = Started(NoRow) /\ UNCHANGED <<writes, jobs, unrecorded>>
        /\ In(c, "intent")
        /\ \A d \in Subcalls \ {c} : calls'[d] = calls[d] /\ rows'[d] = rows[d]
                                   /\ (d \in executed' <=> d \in executed)
    BY <1>2 DEF Publish, TypeOK, Call, Started, record
  <2>2. \/ In(c, "running")' /\ c \in executed' /\ queue' = queue
        \/ In(c, "queued")' /\ (c \in executed' <=> c \in executed) /\ queue' = Append(queue, c)
    BY <1>2 DEF Publish, TypeOK, Call, In
  <2>3. CallFits(c)'
    BY <2>1, <2>2 DEF CallsFit, CallFits, In
  <2>4. ASSUME NEW d \in Subcalls \ {c} PROVE CallFits(d)'
    BY <2>1, <2>4, SameView DEF CallsFit, CallView
  <2>5. \A i \in DOMAIN queue : queue[i] \in Subcalls \ {c}
    BY <2>1 DEF TypeOK, QueueFits, In
  <2>6. ASSUME queue' = queue PROVE QueueFits'
    BY <2>1, <2>5, <2>6 DEF QueueFits, In
  <2>7. ASSUME In(c, "queued")', queue' = Append(queue, c) PROVE QueueFits'
    BY <2>1, <2>5, <2>7 DEF QueueFits, In, TypeOK
  <2> QED BY <2>2, <2>3, <2>4, <2>6, <2>7 DEF CallsFit
<1>3. ASSUME NEW c \in Subcalls, PublishTooLate(c) PROVE CallsFit' /\ QueueFits'
  <2> DEFINE table == [rows EXCEPT ![c] = Started(@)]
  <2>1. PICK handed \in Handoffs({c}) : DisposeUnstarted({c}, handed, table)
    BY <1>3 DEF PublishTooLate
  <2>2. In(c, "intent") /\ UNCHANGED <<unrecorded, queue, executed>>
    BY <1>3 DEF PublishTooLate, runner
  <2>3. table[c] = Started(NoRow) /\ \A d \in Subcalls \ {c} : table[d] = rows[d]
    BY DEF TypeOK, Started
  <2> HIDE DEF table
  <2>4. /\ In(c, "disposed")' /\ writes'[c] \in NeverRan /\ rows' = table
        /\ \A d \in Subcalls \ {c} : /\ calls'[d] = calls[d] /\ writes'[d] = writes[d]
                                    /\ (d \in jobs' <=> d \in jobs)
    BY <2>1, DisposeFits, {c} \in SUBSET Subcalls
  <2>5. CallFits(c)'
    <3>1. c \notin executed /\ None \notin NeverRan
      BY <2>2 DEF CallsFit, CallFits, In, None, NeverRan
    <3> QED BY <2>2, <2>3, <2>4, <3>1 DEF CallFits, In, GivenUp, Accounted, Started, NoRow
  <2>6. ASSUME NEW d \in Subcalls \ {c} PROVE CallFits(d)'
    BY <2>2, <2>3, <2>4, <2>6, SameView DEF CallsFit, CallView
  <2>7. QueueFits'
    BY <2>2, <2>4 DEF QueueFits, In, TypeOK
  <2> QED BY <2>5, <2>6, <2>7 DEF CallsFit
<1>4. ASSUME NEW c \in Subcalls, IntentFails(c) \/ HandlerReturns(c) PROVE CallsFit' /\ QueueFits'
  <2>1. /\ \A d \in Subcalls \ {c} : calls'[d] = calls[d]
        /\ UNCHANGED <<rows, writes, executed, jobs, unrecorded, queue>>
    BY <1>4 DEF IntentFails, HandlerReturns, TypeOK, runner, record
  <2>2. \/ In(c, "intent") /\ In(c, "refused")'
        \/ In(c, "running") /\ (In(c, "settling") \/ In(c, "stuck"))'
    BY <1>4 DEF IntentFails, HandlerReturns, TypeOK, Call, In
  <2>3. CallFits(c)'
    BY <2>1, <2>2 DEF CallsFit, CallFits, In
  <2>4. ASSUME NEW d \in Subcalls \ {c} PROVE CallFits(d)'
    BY <2>1, <2>4, SameView DEF CallsFit, CallView
  <2>5. QueueFits'
    BY <2>1, <2>2 DEF QueueFits, In, TypeOK
  <2> QED BY <2>3, <2>4, <2>5 DEF CallsFit
<1>5. ASSUME NEW c \in Subcalls, Settle(c) \/ SettlementFails(c) PROVE CallsFit' /\ QueueFits'
  <2>1. /\ In(c, "settling") /\ RunNext(c) /\ UNCHANGED jobs
        /\ \A d \in Subcalls \ {c} : /\ rows'[d] = rows[d] /\ writes'[d] = writes[d]
                                   /\ (d \in unrecorded' <=> d \in unrecorded)
    BY <1>5 DEF Settle, SettlementFails, TypeOK
  <2>2. /\ QueueFits' /\ In(c, "settled")' /\ (c \in executed' <=> c \in executed)
        /\ \A d \in Subcalls \ {c} :
             \/ calls[d]' = calls[d] /\ (d \in executed' <=> d \in executed)
             \/ In(d, "queued") /\ In(d, "running")' /\ d \in executed'
    BY <2>1, RunNextFits DEF In
  <2>3. \/ rows'[c] = Settled(rows[c]) /\ writes'[c] \in {"settled", "cancelled"}
        \/ rows'[c] = rows[c] /\ writes'[c] = writes[c] /\ c \in unrecorded'
    BY <1>5 DEF Settle, SettlementFails, TypeOK
  <2>4. CallFits(c)'
    <3>1. rows[c] = Started(NoRow) /\ writes[c] = None /\ c \in executed /\ c \notin jobs
      BY <2>1 DEF CallsFit, CallFits, In
    <3> QED BY <2>1, <2>2, <2>3, <3>1
            DEF CallFits, In, Accounted, Settled, Started, NoRow, NeverRan, None
  <2>5. ASSUME NEW d \in Subcalls \ {c} PROVE CallFits(d)'
    <3>1. CASE calls[d]' = calls[d] /\ (d \in executed' <=> d \in executed)
      BY <2>1, <2>5, <3>1, SameView DEF CallsFit, CallView
    <3>2. CASE In(d, "queued") /\ In(d, "running")' /\ d \in executed'
      BY <2>1, <2>5, <3>2 DEF CallsFit, CallFits, In
    <3> QED BY <2>2, <3>1, <3>2
  <2> QED BY <2>2, <2>4, <2>5 DEF CallsFit
<1>6. ASSUME NEW c \in Subcalls, Record(c) \/ RecordFails(c) PROVE CallsFit' /\ QueueFits'
  <2>1. /\ writes[c] # None /\ writes'[c] = None /\ UNCHANGED <<calls, queue, executed, jobs>>
        /\ \A d \in Subcalls \ {c} : /\ rows'[d] = rows[d] /\ writes'[d] = writes[d]
                                   /\ (d \in unrecorded' <=> d \in unrecorded)
    BY <1>6 DEF Record, RecordFails, TypeOK, runner
  <2>2. \/ rows'[c] = Disposed(rows[c], writes[c]) /\ UNCHANGED unrecorded
        \/ rows'[c] = rows[c] /\ c \in unrecorded'
    BY <1>6 DEF Record, RecordFails, TypeOK
  <2>3. In(c, "settled") \/ In(c, "disposed")
    BY <2>1 DEF CallsFit, CallFits, In, TypeOK, Call, Phases
  <2>4. rows[c] \in BridgeCallRecord /\ UNCHANGED In(c, "settled") /\ UNCHANGED In(c, "disposed")
    BY <2>1 DEF TypeOK, In
  <2>5. CallFits(c)'
    <3>1. CASE In(c, "settled")
      BY <2>1, <2>2, <2>4, <3>1
      DEF CallsFit, CallFits, In, Accounted, Disposed, BridgeCallRecord, NeverRan, None
    <3>2. CASE In(c, "disposed")
      BY <2>1, <2>2, <2>4, <3>2
      DEF CallsFit, CallFits, In, Accounted, GivenUp, Disposed, BridgeCallRecord, NeverRan, None
    <3> QED BY <2>3, <3>1, <3>2
  <2>6. ASSUME NEW d \in Subcalls \ {c} PROVE CallFits(d)'
    BY <2>1, <2>6, SameView DEF CallsFit, CallView
  <2>7. QueueFits'
    BY <2>1 DEF QueueFits, In
  <2> QED BY <2>5, <2>6, <2>7 DEF CallsFit
<1>7. ASSUME BeginClose PROVE CallsFit' /\ QueueFits'
  <2>1. Unstarted \in SUBSET Subcalls /\ \A c \in Unstarted : In(c, "queued")
    BY DEF Unstarted, ToSet, TypeOK, QueueFits
  <2>2. PICK handed \in Handoffs(Unstarted) : DisposeUnstarted(Unstarted, handed, rows)
    BY <1>7 DEF BeginClose
  <2>3. queue' = <<>> /\ UNCHANGED <<executed, unrecorded>>
    BY <1>7 DEF BeginClose
  <2>4. /\ \A c \in Unstarted : In(c, "disposed")' /\ writes'[c] \in NeverRan
        /\ \A c \in Subcalls \ Unstarted : /\ calls'[c] = calls[c] /\ writes'[c] = writes[c]
                                           /\ (c \in jobs' <=> c \in jobs)
        /\ rows' = rows
    BY <2>1, <2>2, DisposeFits
  <2>5. ASSUME NEW c \in Unstarted PROVE CallFits(c)'
    <3>1. rows[c] = Started(NoRow) /\ c \notin executed /\ c \in Subcalls
      BY <2>1 DEF CallsFit, CallFits
    <3> QED BY <2>3, <2>4, <3>1
            DEF CallFits, In, GivenUp, Accounted, Started, NoRow, NeverRan, None
  <2>6. ASSUME NEW c \in Subcalls \ Unstarted PROVE CallFits(c)'
    BY <2>3, <2>4, <2>6, SameView DEF CallsFit, CallView
  <2>7. QueueFits'
    BY <2>3 DEF QueueFits
  <2> QED BY <2>5, <2>6, <2>7 DEF CallsFit
<1>8. ASSUME EndClose \/ Forget \/ UNCHANGED vars PROVE CallsFit' /\ QueueFits'
  BY <1>8 DEF EndClose, Forget, vars, CallsFit, QueueFits, CallFits, In, GivenUp, Accounted,
              runner, record
<1> QED BY <1>1, <1>2, <1>3, <1>4, <1>5, <1>6, <1>7, <1>8 DEF Next, Progress, LedgerAnswers

\* A lease that is not open refuses every frame and never opens again; a closed one
\* has nothing left that could move (bridge.ts invoke, drain).
LEMMA ClosedStep ==
  ASSUME TypeOK, ClosedIsQuiet, [Next]_vars
  PROVE  /\ ClosedIsQuiet'
         /\ state = "CLOSED" => state' = "CLOSED" /\ UNCHANGED <<rows, jobs, executed>>
<1>1. CASE state = "CLOSED"
  <2>1. \A c \in Subcalls :
          /\ calls[c].phase \notin {"intent", "queued", "running", "settling", "stuck"}
          /\ writes[c] = None
    BY <1>1 DEF ClosedIsQuiet, Quiescent, Flushed, inFlight, pendingIntents, In
  <2>2. \A f \in Frames : ~Join(f) /\ ~Invoke(f)
    BY <1>1 DEF Join, Invoke, Refusal, None
  <2>3. \A c \in Subcalls : ~LedgerAnswers(c) /\ ~HandlerReturns(c)
    BY <2>1 DEF LedgerAnswers, HandlerReturns, Publish, PublishTooLate, IntentFails, Settle,
                SettlementFails, Record, RecordFails, In
  <2>4. ~BeginClose /\ ~EndClose
    BY <1>1 DEF BeginClose, EndClose
  <2>5. (\E f \in Frames : Refuse(f)) \/ Forget \/ UNCHANGED vars
    BY <2>2, <2>3, <2>4 DEF Next, Progress
  <2>6. UNCHANGED <<state, calls, writes, rows, jobs, executed>>
    BY <2>5 DEF Refuse, Forget, vars, runner, record
  <2> QED BY <1>1, <2>6 DEF ClosedIsQuiet, Quiescent, Flushed, inFlight, pendingIntents, In
<1>2. CASE EndClose
  <2>1. UNCHANGED <<calls, writes>> /\ Quiescent /\ Flushed /\ state # "CLOSED"
    BY <1>2 DEF EndClose, record
  <2> QED BY <2>1 DEF ClosedIsQuiet, Quiescent, Flushed, inFlight, pendingIntents, In
<1>3. CASE state # "CLOSED" /\ ~EndClose
  <2>1. state' # "CLOSED"
    BY <1>3 DEF Next, Progress, LedgerAnswers, HandlerReturns, Publish, PublishTooLate,
                IntentFails, Settle, SettlementFails, Record, RecordFails, Refuse, Join, Invoke,
                BeginClose, Forget, vars
  <2> QED BY <1>3, <2>1 DEF ClosedIsQuiet
<1> QED BY <1>1, <1>2, <1>3

\* Numbers not yet minted name no call (bridge.ts invoke: the sequence).
Minted == \A c \in Subcalls : c > sequence => In(c, "none")

\* A call that is not minted stays so, but for the one an intent begins.
LEMMA MintedStep ==
  ASSUME TypeOK, LeaseInv, Minted, [Next]_vars
  PROVE  Minted'
<1>1. ASSUME NEW f \in Frames, Invoke(f) PROVE Minted'
  BY <1>1, LeaseAssumption DEF Invoke, Minted, TypeOK, In, NoCall, Subcalls
<1>2. ASSUME NEW C \in SUBSET Subcalls, \A c \in C : ~In(c, "none"), sequence' = sequence,
             \A c \in Subcalls \ C : calls'[c] = calls[c]
      PROVE  Minted'
  BY <1>2 DEF Minted, In
<1>3. ASSUME NEW c \in Subcalls, Publish(c) \/ IntentFails(c) \/ HandlerReturns(c) PROVE Minted'
  <2>1. /\ ~In(c, "none") /\ sequence' = sequence
        /\ \A d \in Subcalls \ {c} : calls'[d] = calls[d]
    BY <1>3 DEF Publish, IntentFails, HandlerReturns, TypeOK, In, admission
  <2> QED BY <1>2, <2>1, {c} \in SUBSET Subcalls
<1>4. ASSUME NEW c \in Subcalls, PublishTooLate(c) PROVE Minted'
  <2>1. PICK handed \in Handoffs({c}) :
          DisposeUnstarted({c}, handed, [rows EXCEPT ![c] = Started(@)])
    BY <1>4 DEF PublishTooLate
  <2>2. ~In(c, "none") /\ sequence' = sequence
    BY <1>4 DEF PublishTooLate, In
  <2>3. \A d \in Subcalls \ {c} : calls'[d] = calls[d]
    BY <2>1 DEF DisposeUnstarted
  <2> QED BY <1>2, <2>2, <2>3, {c} \in SUBSET Subcalls
<1>5. ASSUME NEW c \in Subcalls, Settle(c) \/ SettlementFails(c) PROVE Minted'
  <2>1. /\ In(c, "settling") /\ RunNext(c) /\ sequence' = sequence
    BY <1>5 DEF Settle, SettlementFails, admission
  <2>2. \A d \in Subcalls \ {c} : calls[d]' = calls[d] \/ In(d, "queued")
    BY <2>1, RunNextFits DEF In, LeaseInv
  <2> DEFINE C == {d \in Subcalls : d = c \/ In(d, "queued")}
  <2>3. /\ C \in SUBSET Subcalls /\ \A d \in C : ~In(d, "none")
        /\ \A d \in Subcalls \ C : calls'[d] = calls[d]
    BY <2>1, <2>2 DEF In
  <2> HIDE DEF C
  <2> QED BY <1>2, <2>1, <2>3
<1>6. ASSUME BeginClose PROVE Minted'
  <2>1. PICK handed \in Handoffs(Unstarted) : DisposeUnstarted(Unstarted, handed, rows)
    BY <1>6 DEF BeginClose
  <2>2. Unstarted \in SUBSET Subcalls /\ \A c \in Unstarted : ~In(c, "none")
    BY DEF Unstarted, ToSet, TypeOK, QueueFits, LeaseInv, In
  <2>3. \A d \in Subcalls \ Unstarted : calls'[d] = calls[d]
    BY <2>1 DEF DisposeUnstarted
  <2>4. sequence' = sequence
    BY <1>6 DEF BeginClose, admission
  <2> QED BY <1>2, <2>2, <2>3, <2>4
<1>7. ASSUME \/ \E f \in Frames : Refuse(f) \/ Join(f)
             \/ \E c \in Subcalls : Record(c) \/ RecordFails(c)
             \/ EndClose \/ Forget \/ UNCHANGED vars
      PROVE  Minted'
  BY <1>7 DEF Refuse, Join, Record, RecordFails, EndClose, Forget, vars, Minted, In, admission
<1> QED BY <1>1, <1>3, <1>4, <1>5, <1>6, <1>7 DEF Next, Progress, LedgerAnswers

Inv == TypeOK /\ LeaseInv /\ Minted

LEMMA InvHolds == Spec => []Inv
<1>1. Init => Inv
  <2> SUFFICES ASSUME Init PROVE LeaseInv /\ Minted
    BY InitTypes DEF Inv
  <2>1. \A c \in Subcalls : In(c, "none") /\ rows[c] = NoRow /\ writes[c] = None
    BY DEF Init, In
  <2>2. executed = {} /\ jobs = {} /\ queue = <<>> /\ state = "OPEN"
    BY DEF Init
  <2> QED BY <2>1, <2>2 DEF LeaseInv, CallsFit, CallFits, QueueFits, ClosedIsQuiet, Minted, In
<1>2. Inv /\ [Next]_vars => Inv'
  BY TypeStep, LeaseStep, ClosedStep, MintedStep DEF Inv, LeaseInv, Minted
<1> QED BY <1>1, <1>2, PTL DEF Spec

\* Wherever the host dies, the ledger's rows say of every call whether its tool may
\* have run (bridge-ledger.ts outcomeIsUnknown, bridge.ts CellLease).
THEOREM LedgerTruthful == Spec => []LedgerTellsTheTruth
<1>1. Inv => LedgerTellsTheTruth
  <2> SUFFICES ASSUME Inv, NEW c \in Subcalls
               PROVE  /\ c \in executed => rows[c].settled \/ outcomeIsUnknown(rows[c])
                      /\ c \in jobs \/ rows[c].disposition \in NeverRan => c \notin executed
                      /\ rows[c].settled => c \in executed
    BY DEF LedgerTellsTheTruth
  <2>1. calls[c].phase \in Phases /\ CallFits(c)
    BY DEF Inv, TypeOK, LeaseInv, CallsFit, Call
  <2> QED BY <2>1 DEF CallFits, In, GivenUp, Phases, outcomeIsUnknown, NoRow, Started, NeverRan, None
<1> QED BY <1>1, InvHolds, PTL

\* A closed lease left no accepted call without a disposition and a known outcome,
\* but the ones it named (bridge.ts drain, flush).
THEOREM ClosedComplete == Spec => []ClosedRecordComplete
<1>1. Inv => ClosedRecordComplete
  <2> SUFFICES ASSUME Inv, state = "CLOSED", NEW c \in Subcalls, rows[c].started,
                      c \notin unrecorded
               PROVE  rows[c].disposition # None /\ ~outcomeIsUnknown(rows[c])
    BY DEF ClosedRecordComplete
  <2>1. calls[c].phase \in Phases /\ CallFits(c)
    BY DEF Inv, TypeOK, LeaseInv, CallsFit, Call
  <2>2. /\ calls[c].phase \notin {"intent", "queued", "running", "settling", "stuck"}
        /\ writes[c] = None
    BY DEF Inv, LeaseInv, ClosedIsQuiet, Quiescent, Flushed, inFlight, pendingIntents, In
  <2> QED BY <2>1, <2>2
          DEF CallFits, In, GivenUp, Accounted, Phases, outcomeIsUnknown, NoRow, NeverRan, None
<1> QED BY <1>1, InvHolds, PTL

\* What a caller reads of a closed lease is final (bridge.ts drain).
THEOREM ClosedForGood == Spec => ClosedIsFinal
<1>1. Inv /\ [Next]_vars => [state = "CLOSED" => UNCHANGED <<rows, jobs, executed>>]_vars
  BY ClosedStep DEF Inv, LeaseInv
<1> QED BY <1>1, InvHolds, PTL DEF Spec, ClosedIsFinal

------------------------------------------------------------------------------

\* A subcall that was minted for a frame of request r.
IsFor(c, r) == c <= sequence /\ calls[c].frame \in Frames /\ RequestOfCall(c) = r

\* The tables and the frames name calls that were minted for their own request.
NamesFit ==
  /\ \A c \in Subcalls : c <= sequence => calls[c].frame \in Frames
  /\ \A r \in Requests : /\ accepting[r] # NoCall => IsFor(accepting[r], r)
                         /\ byRequestId[r] # NoCall => IsFor(byRequestId[r], r)
  /\ \A f \in Frames : frames[f].call # NoCall =>
       IsFor(frames[f].call, RequestOf[f]) /\ ArgumentsOfCall(frames[f].call) = ArgumentsOf[f]

\* A call keeps the frame it was minted for, and only Invoke mints (bridge.ts invoke).
LEMMA FrameKept ==
  ASSUME Inv, [Next]_vars, NEW c \in Subcalls
  PROVE  \/ sequence' = sequence /\ calls'[c].frame = calls[c].frame
         \/ \E f \in Frames : Invoke(f)
<1> DEFINE Kept == sequence' = sequence /\ calls'[c].frame = calls[c].frame
<1> USE DEF Inv, admission
<1>1. ASSUME NEW C, NEW handed, NEW table, DisposeUnstarted(C, handed, table)
      PROVE  calls'[c].frame = calls[c].frame
  BY <1>1 DEF DisposeUnstarted, TypeOK, Call
<1>2. ASSUME NEW d \in Subcalls, RunNext(d)
      PROVE  calls'[c].frame = calls[c].frame
  BY <1>2 DEF RunNext, TypeOK, Call
<1>3. ASSUME NEW d \in Subcalls, LedgerAnswers(d) \/ HandlerReturns(d)
      PROVE  Kept
  <2>1. CASE Publish(d) \/ IntentFails(d) \/ HandlerReturns(d)
    <3>1. \E phase \in Phases : calls' = [calls EXCEPT ![d].phase = phase]
      BY <2>1 DEF Publish, IntentFails, HandlerReturns, Phases
    <3>2. sequence' = sequence
      BY <2>1 DEF Publish, IntentFails, HandlerReturns
    <3> QED BY <3>1, <3>2 DEF TypeOK, Call
  <2>2. CASE PublishTooLate(d)
    <3>1. PICK handed \in Handoffs({d}) :
            DisposeUnstarted({d}, handed, [rows EXCEPT ![d] = Started(@)])
      BY <2>2 DEF PublishTooLate
    <3> QED BY <1>1, <2>2, <3>1 DEF PublishTooLate
  <2>3. CASE Settle(d) \/ SettlementFails(d)
    BY <1>2, <2>3 DEF Settle, SettlementFails
  <2>4. CASE Record(d) \/ RecordFails(d)
    BY <2>4 DEF Record, RecordFails
  <2> QED BY <1>3, <2>1, <2>2, <2>3, <2>4 DEF LedgerAnswers
<1>4. ASSUME BeginClose PROVE Kept
  <2>1. PICK handed \in Handoffs(Unstarted) : DisposeUnstarted(Unstarted, handed, rows)
    BY <1>4 DEF BeginClose
  <2> QED BY <1>1, <1>4, <2>1 DEF BeginClose
<1>5. ASSUME \/ \E f \in Frames : Refuse(f) \/ Join(f)
             \/ EndClose \/ Forget \/ UNCHANGED vars
      PROVE  Kept
  BY <1>5 DEF Refuse, Join, EndClose, Forget, vars
<1> HIDE DEF Kept
<1>6. Kept \/ \E f \in Frames : Invoke(f)
  BY <1>3, <1>4, <1>5 DEF Next, Progress
<1> QED BY <1>6 DEF Kept

\* A frame is given only the call of its own request and arguments, and the tables
\* stay its guide (bridge.ts invoke, publish).
LEMMA NamesStep ==
  ASSUME Inv, NamesFit, [Next]_vars
  PROVE  NamesFit'
<1> USE DEF NoCall
<1>1. /\ \A r \in Requests : /\ accepting[r] \in Subcalls \cup {NoCall}
                            /\ byRequestId[r] \in Subcalls \cup {NoCall}
      /\ \A f \in Frames : frames[f].call \in Subcalls \cup {NoCall}
      /\ sequence \in Nat
  BY LeaseAssumption DEF Inv, TypeOK, Subcalls
<1>2. \A f \in Frames : RequestOf[f] \in Requests
  BY LeaseAssumption
<1>3. ASSUME NEW f \in Frames, Invoke(f) PROVE NamesFit'
  <2>0. PICK n \in Subcalls : n = sequence + 1
    BY <1>3 DEF Invoke
  <2>1. /\ calls' = [calls EXCEPT ![n] = [frame |-> f, phase |-> "intent"]]
        /\ accepting' = [accepting EXCEPT ![RequestOf[f]] = n]
        /\ frames' = [frames EXCEPT ![f].call = n]
        /\ byRequestId' = byRequestId /\ sequence' = n
    BY <1>3, <2>0 DEF Invoke
  <2>2. \A c \in Subcalls : calls'[c].frame = IF c = n THEN f ELSE calls[c].frame
    BY <2>1 DEF Inv, TypeOK
  <2>3. \A r \in Requests : accepting'[r] = IF r = RequestOf[f] THEN n ELSE accepting[r]
    BY <2>1 DEF Inv, TypeOK
  <2>4. \A g \in Frames : frames'[g].call = IF g = f THEN n ELSE frames[g].call
    BY <2>1 DEF Inv, TypeOK
  <2>5. \A c \in Subcalls : c # n => (c <= n <=> c <= sequence)
    BY <1>1, <2>0, LeaseAssumption DEF Subcalls
  <2>6. \A c \in Subcalls : c <= sequence' => calls'[c].frame \in Frames
    BY <2>1, <2>2, <2>5 DEF NamesFit
  <2>7. ASSUME NEW c \in Subcalls, NEW r, IsFor(c, r)
        PROVE  c # n /\ c <= sequence' /\ calls'[c].frame = calls[c].frame
    BY <1>1, <2>0, <2>1, <2>2, <2>5, <2>7, LeaseAssumption DEF IsFor, Subcalls
  <2>8. n <= sequence' /\ calls'[n].frame = f
    BY <2>1, <2>2, LeaseAssumption DEF Subcalls
  <2> QED BY <1>1, <1>2, <2>1, <2>3, <2>4, <2>6, <2>7, <2>8
          DEF NamesFit, IsFor, RequestOfCall, ArgumentsOfCall
<1>4. ASSUME ~ \E f \in Frames : Invoke(f),
             \A r \in Requests : /\ accepting'[r] \in {accepting[r], NoCall}
                                /\ \/ byRequestId'[r] = byRequestId[r]
                                   \/ byRequestId'[r] \in Subcalls /\ IsFor(byRequestId'[r], r),
             \A f \in Frames :
               \/ frames'[f].call = frames[f].call
               \/ /\ frames'[f].call \in Subcalls /\ IsFor(frames'[f].call, RequestOf[f])
                  /\ ArgumentsOfCall(frames'[f].call) = ArgumentsOf[f]
      PROVE  NamesFit'
  <2>1. \A c \in Subcalls : sequence' = sequence /\ calls'[c].frame = calls[c].frame
    BY <1>4, FrameKept
  <2>2. \A c \in Subcalls : c <= sequence' => calls'[c].frame \in Frames
    BY <2>1 DEF NamesFit
  <2>3. ASSUME NEW r \in Requests
        PROVE  /\ accepting'[r] # NoCall => IsFor(accepting[r], r)'
               /\ byRequestId'[r] # NoCall => IsFor(byRequestId[r], r)'
    BY <1>1, <1>4, <2>1 DEF NamesFit, IsFor, RequestOfCall
  <2>4. ASSUME NEW f \in Frames, frames'[f].call # NoCall
        PROVE  /\ IsFor(frames[f].call, RequestOf[f])'
               /\ ArgumentsOfCall(frames[f].call)' = ArgumentsOf[f]
    BY <1>1, <1>4, <2>1, <2>4 DEF NamesFit, IsFor, RequestOfCall, ArgumentsOfCall
  <2> QED BY <2>2, <2>3, <2>4 DEF NamesFit, IsFor, RequestOfCall, ArgumentsOfCall
<1>5. ASSUME NEW f \in Frames, Refuse(f) \/ Join(f), ~ \E g \in Frames : Invoke(g)
      PROVE  NamesFit'
  <2>1. UNCHANGED <<accepting, byRequestId>>
    BY <1>5 DEF Refuse, Join
  <2>2. CASE Refuse(f)
    <3>1. \A g \in Frames : frames'[g].call = frames[g].call
      BY <2>2 DEF Refuse, Inv, TypeOK
    <3> QED BY <1>4, <1>5, <2>1, <3>1
  <2>3. CASE Join(f)
    <3> DEFINE c == Previous(f)
    <3>1. c \in Subcalls /\ IsFor(c, RequestOf[f]) /\ ArgumentsOfCall(c) = ArgumentsOf[f]
      BY <1>1, <1>2, <2>3 DEF Join, Previous, Refusal, SameOperation, NamesFit, None
    <3>2. frames' = [frames EXCEPT ![f].call = c]
      BY <2>3 DEF Join
    <3>3. \A g \in Frames : frames'[g].call = IF g = f THEN c ELSE frames[g].call
      BY <3>2 DEF Inv, TypeOK
    <3> HIDE DEF c
    <3> QED BY <1>4, <1>5, <2>1, <3>1, <3>3
  <2> QED BY <1>5, <2>2, <2>3
<1>6. ASSUME NEW c \in Subcalls, Publish(c) \/ PublishTooLate(c) \/ IntentFails(c),
             ~ \E f \in Frames : Invoke(f)
      PROVE  NamesFit'
  <2>1. /\ In(c, "intent") /\ UNCHANGED frames
        /\ accepting' = [accepting EXCEPT ![RequestOfCall(c)] = NoCall]
        /\ byRequestId' \in {byRequestId, [byRequestId EXCEPT ![RequestOfCall(c)] = c]}
    BY <1>6 DEF Publish, PublishTooLate, IntentFails, EndIntent
  <2>2. c <= sequence
    BY <1>1, <2>1, LeaseAssumption DEF Inv, Minted, In, Subcalls
  <2>3. IsFor(c, RequestOfCall(c))
    BY <2>2 DEF NamesFit, IsFor
  <2>4. \A r \in Requests : /\ accepting'[r] \in {accepting[r], NoCall}
                            /\ \/ byRequestId'[r] = byRequestId[r]
                               \/ byRequestId'[r] = c /\ r = RequestOfCall(c)
    BY <2>1 DEF Inv, TypeOK
  <2> QED BY <1>4, <1>6, <2>1, <2>3, <2>4
<1>7. ASSUME \/ \E c \in Subcalls : \/ HandlerReturns(c) \/ Settle(c) \/ SettlementFails(c)
                                    \/ Record(c) \/ RecordFails(c)
             \/ BeginClose \/ EndClose \/ Forget \/ UNCHANGED vars,
             ~ \E f \in Frames : Invoke(f)
      PROVE  NamesFit'
  <2>1. UNCHANGED <<accepting, byRequestId, frames>>
    BY <1>7 DEF HandlerReturns, Settle, SettlementFails, Record, RecordFails, BeginClose,
                EndClose, Forget, vars, admission
  <2> QED BY <1>4, <1>7, <2>1
<1> QED BY <1>3, <1>5, <1>6, <1>7 DEF Next, Progress, LedgerAnswers

\* A frame is answered with its own request's and operation's outcome, however many
\* frames carry the id and whenever they come (bridge.ts invoke).
THEOREM OwnCall == Spec => []FrameGetsItsOwnCall
<1>1. Init => NamesFit
  BY LeaseAssumption DEF Init, NamesFit, Unsent, NoCall, Subcalls
<1>2. Inv /\ NamesFit /\ [Next]_vars => NamesFit'
  BY NamesStep
<1>3. NamesFit => FrameGetsItsOwnCall
  BY DEF NamesFit, IsFor, FrameGetsItsOwnCall
<1> QED BY <1>1, <1>2, <1>3, InvHolds, PTL DEF Spec

------------------------------------------------------------------------------

\* The call that stands for its request: minted, and its intent not rejected.
Counts(c) == calls[c].phase \notin {"none", "refused"}

Working(c) == calls[c].phase \in {"running", "settling", "stuck"}

OneCallEach ==
  \A c, d \in Subcalls :
    Counts(c) /\ Counts(d) /\ RequestOfCall(c) = RequestOfCall(d) => c = d

\* The tables know every call that counts, as long as frames may still come.
Told(c) ==
  /\ In(c, "intent") => accepting[RequestOfCall(c)] = c
  /\ Working(c) \/ In(c, "queued") \/ In(c, "settled") => byRequestId[RequestOfCall(c)] = c
  /\ In(c, "disposed") => byRequestId[RequestOfCall(c)] = c \/ state # "OPEN"

OneRunner ==
  \A c, d \in Subcalls : Working(c) => drainScheduled /\ (Working(d) => c = d)

\* The inductive invariant of the refinement: one call for each request, one runner.
OnceInv == OneCallEach /\ (\A c \in Subcalls : Told(c)) /\ OneRunner

\* A step that mints nothing and lets no call count anew keeps one call per request.
LEMMA OneCallKept ==
  ASSUME OneCallEach,
         \A c \in Subcalls : calls'[c].frame = calls[c].frame /\ (Counts(c)' => Counts(c))
  PROVE  OneCallEach'
BY DEF OneCallEach, RequestOfCall

\* A call whose own phase, frame and table entries a step leaves alone is still told.
LEMMA ToldKept ==
  ASSUME NEW c \in Subcalls, Told(c), calls'[c] = calls[c], state' = state \/ state' # "OPEN",
         Counts(c) => /\ accepting'[RequestOfCall(c)] = accepting[RequestOfCall(c)]
                      /\ byRequestId'[RequestOfCall(c)] = byRequestId[RequestOfCall(c)]
  PROVE  Told(c)'
BY DEF Told, Counts, Working, In, RequestOfCall

\* A call that counts was minted for a frame (bridge.ts invoke).
LEMMA CountedFor ==
  ASSUME Inv, NamesFit, NEW c \in Subcalls, Counts(c)
  PROVE  calls[c].frame \in Frames /\ RequestOfCall(c) \in Requests
<1>1. c <= sequence
  BY LeaseAssumption DEF Inv, Minted, TypeOK, Counts, In, Subcalls, NoCall
<1> QED BY <1>1, LeaseAssumption DEF NamesFit, RequestOfCall

\* A new call is made only for a request no call stands for (bridge.ts invoke).
LEMMA OnceInvoke ==
  ASSUME Inv, NamesFit, OnceInv, NEW f \in Frames, Invoke(f)
  PROVE  OnceInv'
<1>0. PICK n \in Subcalls : n = sequence + 1
  BY DEF Invoke
<1>1. /\ calls' = [calls EXCEPT ![n] = [frame |-> f, phase |-> "intent"]]
      /\ accepting' = [accepting EXCEPT ![RequestOf[f]] = n]
      /\ UNCHANGED <<byRequestId, state, drainScheduled>>
  BY <1>0 DEF Invoke, runner
<1>2. PICK r \in Requests : r = RequestOf[f]
  BY LeaseAssumption
<1>3. accepting[r] = NoCall /\ byRequestId[r] = NoCall /\ state = "OPEN"
  BY <1>2 DEF Invoke, Previous, Refusal, None
<1>4. ASSUME NEW d \in Subcalls, Counts(d) PROVE RequestOfCall(d) # r
  <2>1. d # NoCall /\ Told(d) /\ calls[d].phase \in Phases
    BY LeaseAssumption DEF OnceInv, Inv, TypeOK, Call, NoCall, Subcalls
  <2> QED BY <1>3, <1>4, <2>1 DEF Told, Counts, Working, In, Phases
<1>5. /\ calls'[n] = [frame |-> f, phase |-> "intent"]
      /\ \A d \in Subcalls \ {n} : calls'[d] = calls[d]
      /\ accepting'[r] = n
      /\ \A q \in Requests \ {r} : accepting'[q] = accepting[q]
  BY <1>1, <1>2 DEF Inv, TypeOK
<1>6. RequestOfCall(n)' = r /\ \A d \in Subcalls \ {n} : RequestOfCall(d)' = RequestOfCall(d)
  BY <1>2, <1>5 DEF RequestOfCall
<1>7. OneCallEach'
  BY <1>4, <1>5, <1>6 DEF OneCallEach, Counts, OnceInv
<1>8. ASSUME NEW d \in Subcalls PROVE Told(d)'
  <2>1. CASE d = n
    BY <1>5, <1>6, <2>1 DEF Told, In, Working
  <2>2. CASE d # n
    BY <1>1, <1>4, <1>5, <2>2, ToldKept, CountedFor DEF OnceInv
  <2> QED BY <2>1, <2>2
<1>9. OneRunner'
  BY <1>1, <1>5 DEF OneRunner, Working, OnceInv
<1> QED BY <1>7, <1>8, <1>9 DEF OnceInv

\* Accepting, refusing or giving up an intent (bridge.ts publish).
LEMMA OnceIntent ==
  ASSUME Inv, NamesFit, OnceInv, NEW c \in Subcalls,
         Publish(c) \/ PublishTooLate(c) \/ IntentFails(c),
         \A d \in Subcalls : calls'[d].frame = calls[d].frame
  PROVE  OnceInv'
<1> USE DEF OnceInv
<1>1. /\ In(c, "intent") /\ state' = state
      /\ accepting' = [accepting EXCEPT ![RequestOfCall(c)] = NoCall]
      /\ \/ byRequestId' = byRequestId
         \/ byRequestId' = [byRequestId EXCEPT ![RequestOfCall(c)] = c]
  BY DEF Publish, PublishTooLate, IntentFails, EndIntent
<1>2. \A d \in Subcalls \ {c} : calls'[d] = calls[d]
  <2>1. CASE PublishTooLate(c)
    BY <2>1 DEF PublishTooLate, DisposeUnstarted
  <2>2. CASE Publish(c) \/ IntentFails(c)
    BY <2>2 DEF Publish, IntentFails, Inv, TypeOK
  <2> QED BY <2>1, <2>2
<1>3. Counts(c)
  BY <1>1 DEF Counts, In
<1>4. OneCallEach'
  BY <1>2, <1>3, OneCallKept DEF Counts
<1>5. PICK r \in Requests : r = RequestOfCall(c)
  BY <1>3, CountedFor
<1>6. \A q \in Requests \ {r} : accepting'[q] = accepting[q] /\ byRequestId'[q] = byRequestId[q]
  BY <1>1, <1>5 DEF Inv, TypeOK
<1>7. ASSUME NEW d \in Subcalls \ {c} PROVE Told(d)'
  <2>1. Counts(d) => RequestOfCall(d) \in Requests \ {r}
    BY <1>3, <1>5, CountedFor DEF OneCallEach
  <2> QED BY <1>1, <1>2, <1>6, <2>1, ToldKept
<1>8. RequestOfCall(c)' = r
  BY <1>5 DEF RequestOfCall
<1>9. Told(c)' /\ OneRunner'
  <2>1. CASE Publish(c)
    <3>1. /\ calls' = [calls EXCEPT ![c].phase = IF ~drainScheduled THEN "running" ELSE "queued"]
          /\ byRequestId' = [byRequestId EXCEPT ![r] = c] /\ drainScheduled' = TRUE
      BY <1>5, <2>1 DEF Publish
    <3>2. /\ calls'[c].phase = IF ~drainScheduled THEN "running" ELSE "queued"
          /\ byRequestId'[r] = c
      BY <3>1 DEF Inv, TypeOK, Call
    <3>3. Told(c)'
      BY <1>8, <3>2 DEF Told, In
    <3>4. OneRunner'
      BY <1>2, <3>1, <3>2 DEF OneRunner, Working
    <3> QED BY <3>3, <3>4
  <2>2. CASE PublishTooLate(c)
    <3>1. /\ calls'[c].phase = "disposed" /\ state # "OPEN" /\ UNCHANGED drainScheduled
      BY <2>2 DEF PublishTooLate, DisposeUnstarted, Inv, TypeOK, Call, runner
    <3>2. Told(c)'
      BY <1>1, <3>1 DEF Told, In, Working
    <3> QED BY <1>2, <3>1, <3>2 DEF OneRunner, Working
  <2>3. CASE IntentFails(c)
    <3>1. /\ calls'[c].phase = "refused" /\ UNCHANGED drainScheduled
      BY <2>3 DEF IntentFails, Inv, TypeOK, Call, runner
    <3>2. Told(c)'
      BY <3>1 DEF Told, In, Working
    <3> QED BY <1>2, <3>1, <3>2 DEF OneRunner, Working
  <2> QED BY <2>1, <2>2, <2>3
<1> QED BY <1>4, <1>7, <1>9

\* The runner settles its one call and goes to the next (bridge.ts runQueue).
LEMMA OnceRunner ==
  ASSUME Inv, NamesFit, OnceInv, NEW c \in Subcalls, In(c, "settling"), RunNext(c),
         UNCHANGED <<state, accepting, byRequestId>>,
         \A d \in Subcalls : calls'[d].frame = calls[d].frame
  PROVE  OnceInv'
<1> USE DEF OnceInv
<1>1. \A d \in Subcalls : Working(d) => d = c
  BY DEF OneRunner, Working, In
<1>2. /\ In(c, "settled")'
      /\ \A d \in Subcalls \ {c} : calls'[d] = calls[d] \/ (In(d, "queued") /\ In(d, "running")')
  <2>1. ~In(c, "queued")
    BY DEF In
  <2> QED BY <2>1, RunNextFits DEF Inv, LeaseInv
<1>3. OneCallEach'
  BY <1>2, OneCallKept DEF Counts, In
<1>4. ASSUME NEW d \in Subcalls PROVE Told(d)'
  <2>1. Told(d) /\ RequestOfCall(d)' = RequestOfCall(d)
    BY DEF RequestOfCall
  <2> QED BY <1>2, <2>1 DEF Told, Working, In
<1>5. OneRunner'
  <2>1. CASE queue = <<>>
    <3>1. \A d \in Subcalls \ {c} : calls'[d] = calls[d]
      BY <2>1 DEF RunNext, Inv, TypeOK
    <3>2. \A d \in Subcalls : ~Working(d)'
      BY <1>1, <1>2, <3>1 DEF Working, In
    <3> QED BY <3>2 DEF OneRunner
  <2>2. CASE queue # <<>>
    <3>1. /\ calls' = [calls EXCEPT ![c].phase = "settled", ![Head(queue)].phase = "running"]
          /\ drainScheduled' = drainScheduled /\ drainScheduled
      BY <2>2 DEF RunNext, OneRunner, Working, In
    <3>2. \A d \in Subcalls \ {c, Head(queue)} : calls'[d] = calls[d]
      BY <3>1 DEF Inv, TypeOK
    <3>3. \A d \in Subcalls : Working(d)' => d = Head(queue)
      BY <1>1, <1>2, <3>2 DEF Working, In
    <3> QED BY <3>1, <3>3 DEF OneRunner
  <2> QED BY <2>1, <2>2
<1> QED BY <1>3, <1>4, <1>5

\* Every step keeps one call for each request and one runner.
LEMMA OnceStep ==
  ASSUME Inv, NamesFit, OnceInv, [Next]_vars
  PROVE  OnceInv'
<1>1. CASE \E f \in Frames : Invoke(f)
  BY <1>1, OnceInvoke
<1> SUFFICES ASSUME ~ \E f \in Frames : Invoke(f) PROVE OnceInv'
  BY <1>1
<1>0. \A c \in Subcalls : calls'[c].frame = calls[c].frame
  BY FrameKept
<1>2. ASSUME NEW c \in Subcalls, Publish(c) \/ PublishTooLate(c) \/ IntentFails(c)
      PROVE  OnceInv'
  BY <1>0, <1>2, OnceIntent
<1>3. ASSUME NEW c \in Subcalls, Settle(c) \/ SettlementFails(c) PROVE OnceInv'
  <2>1. In(c, "settling") /\ RunNext(c) /\ UNCHANGED <<state, accepting, byRequestId>>
    BY <1>3 DEF Settle, SettlementFails, admission
  <2> QED BY <1>0, <2>1, OnceRunner
<1>4. ASSUME NEW c \in Subcalls, HandlerReturns(c) PROVE OnceInv'
  <2>1. /\ In(c, "running") /\ calls'[c].phase \in {"settling", "stuck"}
        /\ \A d \in Subcalls \ {c} : calls'[d] = calls[d]
        /\ UNCHANGED <<state, accepting, byRequestId, drainScheduled>>
    BY <1>4 DEF HandlerReturns, Inv, TypeOK, Call, runner, admission
  <2>2. OneCallEach'
    BY <1>0, <2>1, OneCallKept DEF OnceInv, Counts, In
  <2>3. ASSUME NEW d \in Subcalls PROVE Told(d)'
    <3>1. Told(d) /\ RequestOfCall(d)' = RequestOfCall(d)
      BY <1>0 DEF OnceInv, RequestOfCall
    <3> QED BY <2>1, <3>1 DEF Told, Working, In
  <2>4. OneRunner'
    BY <2>1 DEF OnceInv, OneRunner, Working, In
  <2> QED BY <2>2, <2>3, <2>4 DEF OnceInv
<1>5. ASSUME BeginClose PROVE OnceInv'
  <2>1. PICK handed \in Handoffs(Unstarted) : DisposeUnstarted(Unstarted, handed, rows)
    BY <1>5 DEF BeginClose
  <2>2. /\ \A d \in Unstarted : In(d, "queued") /\ In(d, "disposed")'
        /\ \A d \in Subcalls \ Unstarted : calls'[d] = calls[d]
        /\ Unstarted \in SUBSET Subcalls
    <3>1. Unstarted \in SUBSET Subcalls /\ \A d \in Unstarted : In(d, "queued")
      BY DEF Unstarted, ToSet, Inv, TypeOK, QueueFits, LeaseInv
    <3> QED BY <2>1, <3>1 DEF DisposeUnstarted, In, Inv, TypeOK, Call
  <2>3. state' # "OPEN" /\ UNCHANGED <<accepting, byRequestId, drainScheduled>>
    BY <1>5 DEF BeginClose, admission
  <2>4. OneCallEach'
    BY <1>0, <2>2, OneCallKept DEF OnceInv, Counts, In
  <2>5. ASSUME NEW d \in Subcalls PROVE Told(d)'
    BY <2>2, <2>3, ToldKept DEF OnceInv, Told, Working, In
  <2>6. OneRunner'
    BY <2>2, <2>3 DEF OnceInv, OneRunner, Working, In
  <2> QED BY <2>4, <2>5, <2>6 DEF OnceInv
<1>6. ASSUME \/ \E f \in Frames : Refuse(f) \/ Join(f)
             \/ \E c \in Subcalls : Record(c) \/ RecordFails(c)
             \/ EndClose \/ Forget \/ UNCHANGED vars
      PROVE  OnceInv'
  <2>1. /\ UNCHANGED <<calls, accepting, byRequestId, drainScheduled>>
        /\ state' = state \/ state' # "OPEN"
    BY <1>6 DEF Refuse, Join, Record, RecordFails, EndClose, Forget, vars, admission, runner
  <2>2. OneCallEach' /\ OneRunner'
    BY <2>1 DEF OnceInv, OneCallEach, OneRunner, Counts, Working, RequestOfCall
  <2>3. ASSUME NEW d \in Subcalls PROVE Told(d)'
    BY <2>1, ToldKept DEF OnceInv
  <2> QED BY <2>2, <2>3 DEF OnceInv
<1> QED BY <1>2, <1>3, <1>4, <1>5, <1>6 DEF Next, Progress, LedgerAnswers

------------------------------------------------------------------------------

\* Where a call is in the life of its request, by its phase alone.
StatusOf(c) ==
  IF Working(c) THEN "running"
  ELSE IF In(c, "settled") THEN "returned"
  ELSE IF In(c, "disposed") THEN "dropped" ELSE "new"

NameBy(c) == IF In(c, "disposed") THEN NoArguments ELSE ArgumentsOfCall(c)

\* What the refinement mapping shows of a request is what its one call shows.
Shows(r) ==
  /\ \A c \in Subcalls : RequestOfCall(c) = r /\ StatusOf(c) # "new" =>
       OnceStatus(r) = StatusOf(c) /\ OnceNames(r) = NameBy(c)
  /\ (\A c \in Subcalls : RequestOfCall(c) = r => StatusOf(c) = "new") =>
       OnceStatus(r) = "new" /\ OnceNames(r) = NoArguments

Mapped == Inv /\ NamesFit /\ OnceInv

LEMMA StatusShown == Mapped => \A r \in Requests : Shows(r)
<1> SUFFICES ASSUME Mapped, NEW r \in Requests PROVE Shows(r)
  OBVIOUS
<1>1. ASSUME NEW c \in Subcalls
      PROVE  /\ c \in executed <=> (Working(c) \/ In(c, "settled"))
             /\ c \in executed => (c \in inFlight <=> Working(c))
  <2>1. CallFits(c) /\ calls[c].phase \in Phases
    BY DEF Mapped, Inv, TypeOK, LeaseInv, CallsFit, Call
  <2> QED BY <2>1 DEF CallFits, Phases, Working, In, inFlight
<1>2. executed \subseteq Subcalls
  BY DEF Mapped, Inv, TypeOK
<1>3. ASSUME NEW c \in Subcalls, RequestOfCall(c) = r, StatusOf(c) # "new"
      PROVE  OnceStatus(r) = StatusOf(c) /\ OnceNames(r) = NameBy(c)
  <2>1. \A d \in Subcalls : RequestOfCall(d) = r /\ StatusOf(d) # "new" => d = c
    BY <1>3 DEF Mapped, OnceInv, OneCallEach, Counts, StatusOf, Working, In
  <2>2. \A d \in RanFor(r) : d = c
    BY <1>1, <1>2, <2>1 DEF RanFor, StatusOf
  <2>3. CASE In(c, "disposed")
    <3>1. ~Working(c) /\ ~In(c, "settled")
      BY <2>3 DEF In, Working
    <3>2. RanFor(r) = {}
      BY <1>1, <2>2, <3>1 DEF RanFor
    <3> QED BY <1>3, <2>3, <3>1, <3>2 DEF OnceStatus, OnceNames, StatusOf, NameBy
  <2>4. CASE ~In(c, "disposed")
    <3>1. Working(c) \/ In(c, "settled")
      BY <1>3, <2>4 DEF StatusOf
    <3>2. RanFor(r) = {c} /\ c \in executed
      BY <1>1, <1>3, <2>2, <3>1 DEF RanFor
    <3>3. OnceStatus(r) = StatusOf(c)
      BY <1>1, <3>1, <3>2 DEF OnceStatus, StatusOf
    <3>4. OnceNames(r) = ArgumentsOfCall(c)
      BY <3>2 DEF OnceNames
    <3> QED BY <2>4, <3>3, <3>4 DEF NameBy
  <2> QED BY <2>3, <2>4
<1>4. ASSUME \A c \in Subcalls : RequestOfCall(c) = r => StatusOf(c) = "new"
      PROVE  OnceStatus(r) = "new" /\ OnceNames(r) = NoArguments
  <2>1. RanFor(r) = {}
    BY <1>1, <1>2, <1>4 DEF RanFor, StatusOf
  <2>2. ~ \E c \in Subcalls : In(c, "disposed") /\ RequestOfCall(c) = r
    BY <1>4 DEF StatusOf, Working, In
  <2> QED BY <2>1, <2>2 DEF OnceStatus, OnceNames
<1> QED BY <1>3, <1>4 DEF Shows

LEMMA StatusShownNext == Mapped' => \A r \in Requests : Shows(r)'
<1>1. (Mapped => \A r \in Requests : Shows(r))'
  BY StatusShown, PTL
<1> QED BY <1>1

\* A request whose calls show the same before and after a step shows the same.
LEMMA SameShown ==
  ASSUME Mapped, Mapped', NEW r \in Requests,
         \A d \in Subcalls :
           \/ /\ StatusOf(d)' = StatusOf(d)
              /\ StatusOf(d) # "new" => calls'[d].frame = calls[d].frame
           \/ RequestOfCall(d) # r /\ calls'[d].frame = calls[d].frame
  PROVE  OnceStatus(r)' = OnceStatus(r) /\ OnceNames(r)' = OnceNames(r)
<1>1. Shows(r) /\ Shows(r)'
  BY StatusShown, StatusShownNext
<1>2. \A d \in Subcalls :
        RequestOfCall(d)' = r /\ StatusOf(d)' # "new" =>
          /\ RequestOfCall(d) = r /\ StatusOf(d) = StatusOf(d)'
          /\ calls'[d].frame = calls[d].frame
  BY DEF RequestOfCall
<1>3. \A d \in Subcalls :
        RequestOfCall(d) = r /\ StatusOf(d) # "new" =>
          /\ RequestOfCall(d)' = r /\ StatusOf(d) = StatusOf(d)'
          /\ NameBy(d)' = NameBy(d)
  BY DEF RequestOfCall, NameBy, ArgumentsOfCall, StatusOf, Working, In
<1>4. CASE \E d \in Subcalls : RequestOfCall(d) = r /\ StatusOf(d) # "new"
  <2>1. PICK d \in Subcalls : RequestOfCall(d) = r /\ StatusOf(d) # "new"
    BY <1>4
  <2>2. OnceStatus(r) = StatusOf(d) /\ OnceNames(r) = NameBy(d)
    BY <1>1, <2>1 DEF Shows
  <2>3. OnceStatus(r)' = StatusOf(d)' /\ OnceNames(r)' = NameBy(d)'
    BY <1>1, <1>3, <2>1 DEF Shows
  <2> QED BY <1>3, <2>1, <2>2, <2>3
<1>5. CASE \A d \in Subcalls : RequestOfCall(d) = r => StatusOf(d) = "new"
  <2>1. \A d \in Subcalls : RequestOfCall(d)' = r => StatusOf(d)' = "new"
    BY <1>2, <1>5
  <2> QED BY <1>1, <1>5, <2>1 DEF Shows
<1> QED BY <1>4, <1>5

\* A request whose call counts shows what that call shows.
LEMMA OwnShown ==
  ASSUME Mapped, NEW c \in Subcalls, Counts(c)
  PROVE  /\ RequestOfCall(c) \in Requests
         /\ OnceStatus(RequestOfCall(c)) = StatusOf(c)
         /\ StatusOf(c) # "new" => OnceNames(RequestOfCall(c)) = NameBy(c)
<1>1. PICK r \in Requests : r = RequestOfCall(c)
  BY CountedFor DEF Mapped
<1>2. Shows(r)
  BY StatusShown
<1>3. \A d \in Subcalls : RequestOfCall(d) = r /\ StatusOf(d) # "new" => d = c
  BY <1>1 DEF Mapped, OnceInv, OneCallEach, Counts, StatusOf, Working, In
<1> QED BY <1>1, <1>2, <1>3 DEF Shows

LEMMA OwnShownNext ==
  ASSUME Mapped', NEW c \in Subcalls, StatusOf(c)' # "new"
  PROVE  /\ RequestOfCall(c)' \in Requests =>
              /\ OnceStatus(RequestOfCall(c))' = StatusOf(c)'
              /\ OnceNames(RequestOfCall(c))' = NameBy(c)'
<1>1. SUFFICES ASSUME RequestOfCall(c)' \in Requests
      PROVE  /\ OnceStatus(RequestOfCall(c))' = StatusOf(c)'
             /\ OnceNames(RequestOfCall(c))' = NameBy(c)'
  OBVIOUS
<1>2. PICK r \in Requests : r = RequestOfCall(c)'
  BY <1>1
<1>3. Shows(r)'
  BY StatusShownNext
<1> QED BY <1>2, <1>3 DEF Shows

Status == [r \in Requests |-> OnceStatus(r)]
Names == [r \in Requests |-> OnceNames(r)]

\* A step that changes what one call shows changes what its request shows.
LEMMA OneShown ==
  ASSUME Mapped, Mapped', NEW c \in Subcalls, Counts(c),
         \A d \in Subcalls : calls'[d].frame = calls[d].frame,
         \A d \in Subcalls \ {c} : StatusOf(d)' = StatusOf(d),
         StatusOf(c)' # "new"
  PROVE  LET r == RequestOfCall(c)
         IN /\ r \in Requests /\ Status[r] = StatusOf(c)
            /\ Status' = [Status EXCEPT ![r] = StatusOf(c)']
            /\ Names' = [Names EXCEPT ![r] = NameBy(c)']
            /\ StatusOf(c) # "new" => Names[r] = NameBy(c)
<1>1. PICK r \in Requests : r = RequestOfCall(c) /\ RequestOfCall(c)' = r
  BY OwnShown DEF RequestOfCall
<1>2. OnceStatus(r)' = StatusOf(c)' /\ OnceNames(r)' = NameBy(c)'
  BY <1>1, OwnShownNext
<1>3. ASSUME NEW q \in Requests \ {r}
      PROVE  OnceStatus(q)' = OnceStatus(q) /\ OnceNames(q)' = OnceNames(q)
  BY <1>1, SameShown
<1>4. OnceStatus(r) = StatusOf(c) /\ (StatusOf(c) # "new" => OnceNames(r) = NameBy(c))
  BY <1>1, OwnShown
<1> QED BY <1>1, <1>2, <1>3, <1>4 DEF Status, Names

\* A step under which no call shows anything else changes nothing.
LEMMA NoneShown ==
  ASSUME Mapped, Mapped',
         \A d \in Subcalls : /\ StatusOf(d)' = StatusOf(d)
                             /\ StatusOf(d) # "new" => calls'[d].frame = calls[d].frame
  PROVE  Status' = Status /\ Names' = Names
<1>1. ASSUME NEW q \in Requests
      PROVE  OnceStatus(q)' = OnceStatus(q) /\ OnceNames(q)' = OnceNames(q)
  BY SameShown
<1> QED BY <1>1 DEF Status, Names

\* No request runs while no call does.
LEMMA NoneRuns ==
  ASSUME Mapped, \A d \in Subcalls : ~Working(d), NEW r \in Requests
  PROVE  Status[r] # "running"
<1>1. Shows(r)
  BY StatusShown
<1>2. \A d \in Subcalls : StatusOf(d) # "running"
  BY DEF StatusOf
<1>3. OnceStatus(r) # "running"
  BY <1>1, <1>2 DEF Shows
<1> QED BY <1>3 DEF Status

\* The runner starts a request's one operation, when it is idle (bridge.ts publish).
LEMMA PublishMaps ==
  ASSUME Mapped, Mapped', NEW c \in Subcalls, Publish(c),
         \A d \in Subcalls : calls'[d].frame = calls[d].frame
  PROVE  \/ \E r \in Requests, a \in Arguments :
              /\ Status[r] = "new" /\ \A q \in Requests : Status[q] # "running"
              /\ Status' = [Status EXCEPT ![r] = "running"]
              /\ Names' = [Names EXCEPT ![r] = a]
         \/ Status' = Status /\ Names' = Names
<1>1. /\ In(c, "intent") /\ \A d \in Subcalls \ {c} : calls'[d] = calls[d]
      /\ calls'[c].phase = IF ~drainScheduled THEN "running" ELSE "queued"
  BY DEF Publish, Mapped, Inv, TypeOK, Call
<1>2. \A d \in Subcalls \ {c} : StatusOf(d)' = StatusOf(d)
  BY <1>1 DEF StatusOf, Working, In
<1>3. StatusOf(c) = "new" /\ Counts(c)
  BY <1>1 DEF StatusOf, Working, In, Counts
<1>4. CASE drainScheduled
  <2>1. StatusOf(c)' = "new"
    BY <1>1, <1>4 DEF StatusOf, Working, In
  <2> QED BY <1>2, <1>3, <2>1, NoneShown
<1>5. CASE ~drainScheduled
  <2>1. StatusOf(c)' = "running" /\ NameBy(c)' = ArgumentsOfCall(c)
    BY <1>1, <1>5 DEF StatusOf, Working, In, NameBy, ArgumentsOfCall
  <2>2. ArgumentsOfCall(c) \in Arguments
    BY <1>3, CountedFor, LeaseAssumption DEF Mapped, ArgumentsOfCall
  <2>3. \A q \in Requests : Status[q] # "running"
    BY <1>5, NoneRuns DEF Mapped, OnceInv, OneRunner
  <2> QED BY <1>2, <1>3, <2>1, <2>2, <2>3, OneShown
<1> QED BY <1>4, <1>5

\* An intent accepted too late gives its request up (bridge.ts publish).
LEMMA TooLateMaps ==
  ASSUME Mapped, Mapped', NEW c \in Subcalls, PublishTooLate(c),
         \A d \in Subcalls : calls'[d].frame = calls[d].frame
  PROVE  \E r \in Requests :
           /\ Status[r] = "new" /\ Names[r] = NoArguments
           /\ Status' = [Status EXCEPT ![r] = "dropped"] /\ Names' = Names
<1>1. /\ In(c, "intent") /\ \A d \in Subcalls \ {c} : calls'[d] = calls[d]
      /\ calls'[c].phase = "disposed"
  BY DEF PublishTooLate, DisposeUnstarted, Mapped, Inv, TypeOK, Call
<1>2. \A d \in Subcalls \ {c} : StatusOf(d)' = StatusOf(d)
  BY <1>1 DEF StatusOf, Working, In
<1>3. StatusOf(c) = "new" /\ Counts(c)
  BY <1>1 DEF StatusOf, Working, In, Counts
<1>4. StatusOf(c)' = "dropped" /\ NameBy(c)' = NoArguments
  BY <1>1 DEF StatusOf, Working, In, NameBy
<1>5. PICK r \in Requests : r = RequestOfCall(c)
  BY <1>3, OwnShown
<1>6. Shows(r)
  BY StatusShown
<1>7. Names[r] = NoArguments
  BY <1>3, <1>5, <1>6 DEF Mapped, OnceInv, OneCallEach, Counts, StatusOf, Working, In, Shows, Names
<1>8. /\ Status[r] = "new" /\ Status' = [Status EXCEPT ![r] = "dropped"]
      /\ Names' = [Names EXCEPT ![r] = NoArguments]
  BY <1>2, <1>3, <1>4, <1>5, OneShown
<1>9. [Names EXCEPT ![r] = NoArguments] = Names
  BY <1>7 DEF Names
<1> QED BY <1>7, <1>8, <1>9

\* The runner returns one request's call and may go on to another's (bridge.ts
\* runQueue).
LEMMA RunnerMaps ==
  ASSUME Mapped, Mapped', NEW c \in Subcalls, In(c, "settling"), RunNext(c),
         \A d \in Subcalls : calls'[d].frame = calls[d].frame
  PROVE  \/ \E r \in Requests :
              /\ Status[r] = "running"
              /\ Status' = [Status EXCEPT ![r] = "returned"] /\ Names' = Names
         \/ \E r, q \in Requests, a \in Arguments :
              /\ Status[r] = "running" /\ Status[q] = "new"
              /\ Status' = [Status EXCEPT ![r] = "returned", ![q] = "running"]
              /\ Names' = [Names EXCEPT ![q] = a]
<1>1. /\ StatusOf(c) = "running" /\ Counts(c) /\ NameBy(c) = ArgumentsOfCall(c)
      /\ ArgumentsOfCall(c)' = ArgumentsOfCall(c)
  BY DEF StatusOf, Working, In, Counts, NameBy, ArgumentsOfCall
<1>2. PICK r \in Requests : r = RequestOfCall(c) /\ RequestOfCall(c)' = r
  BY <1>1, OwnShown DEF RequestOfCall
<1>3. Status[r] = "running" /\ Names[r] = NameBy(c)
  BY <1>1, <1>2, OwnShown DEF Status, Names
<1>4. CASE queue = <<>>
  <2>1. calls'[c].phase = "settled" /\ \A d \in Subcalls \ {c} : calls'[d] = calls[d]
    BY <1>4 DEF RunNext, Mapped, Inv, TypeOK, Call
  <2>2. \A d \in Subcalls \ {c} : StatusOf(d)' = StatusOf(d)
    BY <2>1 DEF StatusOf, Working, In
  <2>3. StatusOf(c)' = "returned" /\ NameBy(c)' = ArgumentsOfCall(c)
    BY <1>1, <2>1 DEF StatusOf, Working, In, NameBy
  <2>4. /\ Status' = [Status EXCEPT ![r] = "returned"]
        /\ Names' = [Names EXCEPT ![r] = NameBy(c)]
    BY <1>1, <1>2, <2>2, <2>3, OneShown
  <2>5. [Names EXCEPT ![r] = NameBy(c)] = Names
    BY <1>3 DEF Names
  <2> QED BY <1>3, <2>4, <2>5
<1>5. CASE queue # <<>>
  <2>1. PICK h \in Subcalls : h = Head(queue) /\ In(h, "queued")
    BY <1>5 DEF Mapped, Inv, TypeOK, LeaseInv, QueueFits
  <2>2. c # h
    BY <2>1 DEF In
  <2>3. /\ calls'[c].phase = "settled" /\ calls'[h].phase = "running"
        /\ \A d \in Subcalls \ {c, h} : calls'[d] = calls[d]
    BY <1>5, <2>1, <2>2 DEF RunNext, Mapped, Inv, TypeOK, Call
  <2>4. /\ Counts(h) /\ StatusOf(h) = "new" /\ StatusOf(h)' = "running"
        /\ StatusOf(c)' = "returned" /\ NameBy(c)' = ArgumentsOfCall(c)
        /\ NameBy(h)' = ArgumentsOfCall(h)
    BY <1>1, <2>1, <2>3 DEF StatusOf, Working, In, Counts, NameBy, ArgumentsOfCall
  <2>5. PICK q \in Requests : q = RequestOfCall(h) /\ RequestOfCall(h)' = q
    BY <2>4, OwnShown DEF RequestOfCall
  <2>6. q # r
    BY <1>1, <1>2, <2>2, <2>4, <2>5 DEF Mapped, OnceInv, OneCallEach
  <2>7. ArgumentsOfCall(h) \in Arguments
    BY <2>4, CountedFor, LeaseAssumption DEF Mapped, ArgumentsOfCall
  <2>8. \A d \in Subcalls \ {c, h} : StatusOf(d)' = StatusOf(d)
    BY <2>3 DEF StatusOf, Working, In
  <2>9. ASSUME NEW p \in Requests \ {r, q}
        PROVE  OnceStatus(p)' = OnceStatus(p) /\ OnceNames(p)' = OnceNames(p)
    BY <1>2, <2>5, <2>8, SameShown
  <2>10. /\ OnceStatus(r)' = "returned" /\ OnceNames(r)' = ArgumentsOfCall(c)
         /\ OnceStatus(q)' = "running" /\ OnceNames(q)' = ArgumentsOfCall(h)
    BY <1>2, <2>4, <2>5, OwnShownNext
  <2>11. Status[q] = "new"
    BY <2>4, <2>5, OwnShown DEF Status
  <2>12. Status' = [Status EXCEPT ![r] = "returned", ![q] = "running"]
    BY <2>6, <2>9, <2>10 DEF Status
  <2>13. Names' = [Names EXCEPT ![q] = ArgumentsOfCall(h)]
    BY <1>1, <1>3, <2>6, <2>9, <2>10 DEF Names
  <2> QED BY <1>3, <2>7, <2>11, <2>12, <2>13
<1> QED BY <1>4, <1>5

\* A close gives up, together, the requests of the calls that wait (bridge.ts
\* close).
LEMMA CloseMaps ==
  ASSUME Mapped, Mapped', BeginClose,
         \A d \in Subcalls : calls'[d].frame = calls[d].frame
  PROVE  \E R \in SUBSET Requests :
           /\ \A r \in R : Status[r] = "new"
           /\ Status' = [r \in Requests |-> IF r \in R THEN "dropped" ELSE Status[r]]
           /\ Names' = Names
<1>1. PICK handed \in Handoffs(Unstarted) : DisposeUnstarted(Unstarted, handed, rows)
  BY DEF BeginClose
<1>2. /\ \A d \in Unstarted : In(d, "queued") /\ In(d, "disposed")'
      /\ \A d \in Subcalls \ Unstarted : calls'[d] = calls[d]
      /\ Unstarted \in SUBSET Subcalls
  <2>1. Unstarted \in SUBSET Subcalls /\ \A d \in Unstarted : In(d, "queued")
    BY DEF Unstarted, ToSet, Mapped, Inv, TypeOK, QueueFits, LeaseInv
  <2> QED BY <1>1, <2>1 DEF DisposeUnstarted, In, Mapped, Inv, TypeOK, Call
<1>3. PICK R \in SUBSET Requests :
        R = {r \in Requests : \E d \in Unstarted : RequestOfCall(d) = r}
  OBVIOUS
<1>4. \A d \in Unstarted : /\ StatusOf(d) = "new" /\ Counts(d)
                           /\ StatusOf(d)' = "dropped" /\ NameBy(d)' = NoArguments
                           /\ RequestOfCall(d)' = RequestOfCall(d)
  BY <1>2 DEF StatusOf, Working, In, Counts, NameBy, RequestOfCall
<1>5. \A d \in Subcalls \ Unstarted : StatusOf(d)' = StatusOf(d)
  BY <1>2 DEF StatusOf, Working, In
<1>6. ASSUME NEW r \in R
      PROVE  /\ OnceStatus(r) = "new" /\ OnceNames(r) = NoArguments
             /\ OnceStatus(r)' = "dropped" /\ OnceNames(r)' = NoArguments
  <2>1. PICK d \in Unstarted : RequestOfCall(d) = r
    BY <1>3
  <2>2. Counts(d) /\ d \in Subcalls
    BY <1>2, <1>4
  <2>3. \A e \in Subcalls : RequestOfCall(e) = r /\ Counts(e) => e = d
    BY <2>1, <2>2 DEF Mapped, OnceInv, OneCallEach
  <2>4. \A e \in Subcalls : RequestOfCall(e) = r => StatusOf(e) = "new"
    BY <1>4, <2>3 DEF Counts, StatusOf, Working, In
  <2>5. OnceStatus(r) = "new" /\ OnceNames(r) = NoArguments
    BY <1>3, <2>4, StatusShown DEF Shows
  <2> QED BY <1>3, <1>4, <2>1, <2>2, <2>5, OwnShownNext
<1>7. ASSUME NEW r \in Requests \ R
      PROVE  OnceStatus(r)' = OnceStatus(r) /\ OnceNames(r)' = OnceNames(r)
  <2>1. \A d \in Unstarted : RequestOfCall(d) # r
    BY <1>3
  <2> QED BY <1>5, <2>1, SameShown
<1>8. /\ \A r \in R : Status[r] = "new"
      /\ Status' = [r \in Requests |-> IF r \in R THEN "dropped" ELSE Status[r]]
      /\ Names' = Names
  BY <1>6, <1>7 DEF Status, Names
<1> QED BY <1>8

\* However often its frame is sent and whenever the cell closes, a request id runs
\* one operation, at most once, alone and never after it was given up: every step of
\* the lease is a step of RequestOnce or leaves it alone (bridge.ts invoke, publish,
\* runQueue, close).
THEOREM LeaseImplementsOnce == Spec => ImplementsOnce
<1>1. Init => NamesFit /\ OnceInv
  <2> SUFFICES ASSUME Init PROVE NamesFit /\ OnceInv
    OBVIOUS
  <2>1. NamesFit
    BY LeaseAssumption DEF Init, NamesFit, Unsent, NoCall, Subcalls
  <2>2. \A c \in Subcalls : calls[c].phase = "none"
    BY DEF Init
  <2> QED BY <2>1, <2>2 DEF OnceInv, OneCallEach, Told, OneRunner, Counts, Working, In
<1>2. Inv /\ NamesFit /\ OnceInv /\ [Next]_vars => NamesFit' /\ OnceInv'
  BY NamesStep, OnceStep
<1>3. Init => Once!Init
  <2> SUFFICES ASSUME Init, NEW r \in Requests
               PROVE  OnceStatus(r) = "new" /\ OnceNames(r) = NoArguments
    BY DEF Once!Init
  <2>1. executed = {} /\ \A c \in Subcalls : calls[c].phase = "none"
    BY DEF Init
  <2> QED BY <2>1 DEF OnceStatus, OnceNames, RanFor, In
<1>4. Mapped /\ Mapped' /\ [Next]_vars => [Once!Next]_(Once!vars)
  <2> SUFFICES ASSUME Mapped, Mapped', [Next]_vars
               PROVE  Once!Next \/ (Status' = Status /\ Names' = Names)
    BY DEF Once!vars, Status, Names
  <2>1. ASSUME NEW f \in Frames, Invoke(f) PROVE Status' = Status /\ Names' = Names
    <3>0. PICK n \in Subcalls : n = sequence + 1
      BY <2>1 DEF Invoke
    <3>1. /\ In(n, "none") /\ calls'[n].phase = "intent"
          /\ \A d \in Subcalls \ {n} : calls'[d] = calls[d]
      BY <2>1, <3>0, LeaseAssumption DEF Invoke, Mapped, Inv, TypeOK, Minted, NoCall, Subcalls
    <3> QED BY <3>1, NoneShown DEF StatusOf, Working, In
  <2> SUFFICES ASSUME ~ \E f \in Frames : Invoke(f)
               PROVE  Once!Next \/ (Status' = Status /\ Names' = Names)
    BY <2>1
  <2>2. \A d \in Subcalls : calls'[d].frame = calls[d].frame
    BY FrameKept DEF Mapped
  <2>3. ASSUME \A d \in Subcalls : StatusOf(d)' = StatusOf(d)
        PROVE  Status' = Status /\ Names' = Names
    BY <2>2, <2>3, NoneShown
  <2>4. ASSUME NEW c \in Subcalls, Publish(c)
        PROVE  Once!Next \/ (Status' = Status /\ Names' = Names)
    BY <2>2, <2>4, PublishMaps DEF Once!Next, Once!Run, Status, Names
  <2>5. ASSUME NEW c \in Subcalls, PublishTooLate(c) PROVE Once!Next
    <3>1. PICK r \in Requests : /\ Status[r] = "new"
                               /\ Status' = [Status EXCEPT ![r] = "dropped"]
                               /\ Names' = Names
      BY <2>2, <2>5, TooLateMaps
    <3>2. PICK R \in SUBSET Requests : R = {r}
      OBVIOUS
    <3>3. /\ \A q \in R : Status[q] = "new"
          /\ Status' = [q \in Requests |-> IF q \in R THEN "dropped" ELSE Status[q]]
      BY <3>1, <3>2 DEF Status
    <3> QED BY <3>1, <3>3 DEF Once!Next, Once!GiveUp, Status, Names
  <2>6. ASSUME NEW c \in Subcalls, Settle(c) \/ SettlementFails(c) PROVE Once!Next
    <3>1. In(c, "settling") /\ RunNext(c)
      BY <2>6 DEF Settle, SettlementFails
    <3> QED BY <2>2, <3>1, RunnerMaps DEF Once!Next, Once!Return, Once!Hand, Status, Names
  <2>7. ASSUME BeginClose PROVE Once!Next
    BY <2>2, <2>7, CloseMaps DEF Once!Next, Once!GiveUp, Status, Names
  <2>8. ASSUME NEW c \in Subcalls, IntentFails(c) \/ HandlerReturns(c)
        PROVE  Status' = Status /\ Names' = Names
    <3>1. /\ \/ In(c, "intent") /\ calls'[c].phase = "refused"
             \/ In(c, "running") /\ calls'[c].phase \in {"settling", "stuck"}
          /\ \A d \in Subcalls \ {c} : calls'[d] = calls[d]
      BY <2>8 DEF IntentFails, HandlerReturns, Mapped, Inv, TypeOK, Call
    <3>2. \A d \in Subcalls : StatusOf(d)' = StatusOf(d)
      BY <3>1 DEF StatusOf, Working, In
    <3> QED BY <2>3, <3>2
  <2>9. ASSUME \/ \E f \in Frames : Refuse(f) \/ Join(f)
               \/ \E c \in Subcalls : Record(c) \/ RecordFails(c)
               \/ EndClose \/ Forget \/ UNCHANGED vars
        PROVE  Status' = Status /\ Names' = Names
    <3>1. calls' = calls
      BY <2>9 DEF Refuse, Join, Record, RecordFails, EndClose, Forget, vars
    <3> QED BY <2>3, <3>1 DEF StatusOf, Working, In
  <2> QED BY <2>4, <2>5, <2>6, <2>7, <2>8, <2>9 DEF Next, Progress, LedgerAnswers
<1> QED BY <1>1, <1>2, <1>3, <1>4, InvHolds, PTL DEF Spec, ImplementsOnce, Once!Spec, Mapped
=============================================================================
