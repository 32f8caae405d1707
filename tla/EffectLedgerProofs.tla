-------------------------- MODULE EffectLedgerProofs --------------------------
(***************************************************************************)
(* Theorems of EffectLedger: an effect is sent at most once, and its       *)
(* record and the answers given tell what became of it.                    *)
(***************************************************************************)
EXTENDS EffectLedger, TLAPS

Busy == Writes \cup {"sending", "querying"}
Active == Busy \cup {"waiting"}

\* A chain holds distinct calls of its operation, and only the first is under way.
ChainsFit ==
  \A o \in Operations : \A i \in 1..Len(chains[o]) :
    /\ calls[chains[o][i]].phase \in Active /\ calls[chains[o][i]].op = o
    /\ \A j \in 1..Len(chains[o]) : chains[o][i] = chains[o][j] => i = j
BusyHaveTurn == \A c \in Calls : calls[c].phase \in Busy => HasTurn(c)
ChainInv == TypeOK /\ ChainsFit /\ BusyHaveTurn

\* A row that was never marked says so.
RowFits(row) ==
  /\ row.status = "absent" => row = NoRow
  /\ row.status = "intent_recorded" => row = Fresh(row.digest)

\* A row that may be written over `held` at the end of a call.
NoteFits(held, row) ==
  IF held = NoRow THEN row.attempts = 0 /\ row.status \in {"intent_recorded", "unknown"}
  ELSE /\ row.digest = held.digest /\ row.attempts = held.attempts
       /\ Sendable(row.status) => row = held

\* What a caller is told agrees with the record.
Says(c, row, outcome) ==
  /\ outcome = "confirmed" => row.status = "confirmed" /\ row.digest = calls[c].digest
  /\ outcome = "not_started" => row.status \in {"intent_recorded", "not_started"}

CallFits(c) ==
  LET held == rows[calls[c].op]
      fresh == Fresh(calls[c].digest)
  IN /\ calls[c].phase = "intent" => held = NoRow /\ calls[c].next = fresh
     /\ calls[c].phase = "marking" => held = fresh /\ calls[c].next = Marked(fresh)
     /\ calls[c].phase = "sending" => /\ held = Marked(fresh) /\ calls[c].next = held
                                      /\ c \in sent
     /\ calls[c].phase = "querying" => /\ held.status \in {"sent", "unknown"}
                                       /\ held.digest = calls[c].digest
     /\ calls[c].phase = "noting" => /\ NoteFits(held, calls[c].next)
                                     /\ calls[c].outcome \in Outcomes
                                     /\ Says(c, calls[c].next, calls[c].outcome)

\* What was sent left its mark.
MarkFits(c, row) == row.attempts > 0 /\ ~Sendable(row.status) /\ row.digest = calls[c].digest
SentFits(c) == calls[c].phase # "new" /\ MarkFits(c, rows[calls[c].op])

EffectInv ==
  /\ ChainInv
  /\ \A o \in Operations : RowFits(rows[o])
  /\ \A c \in Calls : CallFits(c)
  /\ \A c \in sent : SentFits(c)
  /\ flying \subseteq sent /\ landed \subseteq sent
  /\ SentOnce

------------------------------------------------------------------------------
(* The chains. *)

LEMMA EffectTypes ==
  /\ NoRow \in Row
  /\ \A d \in Digests : Fresh(d) \in Row /\ Fresh(d) # NoRow
  /\ \A r \in Row : Marked(r) \in Row
  /\ \A r \in Row, s \in Statuses : [r EXCEPT !.status = s] \in Row
<1>1. NoRow \in Row
  BY DEF NoRow, Row
<1>2. \A d \in Digests : Fresh(d) \in Row /\ Fresh(d) # NoRow
  BY DEF Fresh, NoRow, Row, Statuses
<1>3. \A r \in Row : Marked(r) \in Row
  BY DEF Marked, Row, Statuses
<1>4. \A r \in Row, s \in Statuses : [r EXCEPT !.status = s] \in Row
  BY DEF Row
<1> QED BY <1>1, <1>2, <1>3, <1>4

\* The first of a chain is the only call of its operation that is under way.
LEMMA OneTurn ==
  ASSUME NEW c \in Calls, NEW d \in Calls, BusyHaveTurn, HasTurn(c),
         calls[d].phase \in Busy, calls[d].op = calls[c].op
  PROVE  d = c
BY DEF BusyHaveTurn, HasTurn

\* A call that is under way, or may begin, has the record of a call.
LEMMA ActiveCall ==
  ASSUME TypeOK, NEW c \in Calls, calls[c].phase # "new"
  PROVE  calls[c] \in Call /\ calls[c].op \in Operations /\ calls[c].digest \in Digests
BY DEF TypeOK, NewCall, Call

\* A call that goes on keeps its place.
LEMMA GoOn ==
  ASSUME ChainInv, NEW c \in Calls, calls[c].phase \in Active, HasTurn(c),
         NEW phase \in Busy, NEW row \in Row, NEW outcome \in Outcomes \cup {None},
         Put(c, phase, row, outcome)
  PROVE  /\ calls' \in [Calls -> Call \cup {NewCall}] /\ chains' \in [Operations -> Seq(Calls)]
         /\ ChainsFit' /\ BusyHaveTurn'
         /\ \A d \in Calls : d # c => calls'[d] = calls[d]
         /\ calls'[c].op = calls[c].op /\ calls'[c].digest = calls[c].digest
         /\ calls'[c].phase = phase /\ calls'[c].next = row /\ calls'[c].outcome = outcome
<1>1. calls[c] \in Call
  BY ActiveCall DEF ChainInv, Active, Busy, Writes
<1>2. calls' \in [Calls -> Call \cup {NewCall}]
  BY <1>1 DEF Put, ChainInv, TypeOK, Call, Busy, Writes
<1>3. /\ \A d \in Calls : d # c => calls'[d] = calls[d]
      /\ calls'[c].op = calls[c].op /\ calls'[c].digest = calls[c].digest
      /\ calls'[c].phase = phase /\ calls'[c].next = row /\ calls'[c].outcome = outcome
  BY <1>1 DEF Put, ChainInv, TypeOK, Call
<1>4. ChainsFit'
  BY <1>3 DEF Put, ChainsFit, ChainInv, TypeOK, Active
<1>5. BusyHaveTurn'
  BY <1>3 DEF Put, BusyHaveTurn, HasTurn, ChainInv
<1> QED BY <1>2, <1>3, <1>4, <1>5 DEF Put, ChainInv, TypeOK

\* A call that returns leaves its place to the next one.
LEMMA GoBack ==
  ASSUME ChainInv, NEW c \in Calls, calls[c].phase \in Active, HasTurn(c),
         NEW outcome \in Outcomes, Return(c, outcome)
  PROVE  /\ calls' \in [Calls -> Call \cup {NewCall}] /\ chains' \in [Operations -> Seq(Calls)]
         /\ ChainsFit' /\ BusyHaveTurn'
         /\ \A d \in Calls : d # c => calls'[d] = calls[d]
         /\ calls'[c].op = calls[c].op /\ calls'[c].digest = calls[c].digest
         /\ calls'[c].phase = "done" /\ calls'[c].outcome = outcome
<1>1. calls[c] \in Call /\ calls[c].op \in Operations
  BY ActiveCall DEF ChainInv, Active, Busy, Writes
<1>2. calls' \in [Calls -> Call \cup {NewCall}]
  BY <1>1, EffectTypes DEF Return, ChainInv, TypeOK, Call
<1>3. /\ \A d \in Calls : d # c => calls'[d] = calls[d]
      /\ calls'[c].op = calls[c].op /\ calls'[c].digest = calls[c].digest
      /\ calls'[c].phase = "done" /\ calls'[c].outcome = outcome
  BY <1>1 DEF Return, ChainInv, TypeOK, Call
<1> DEFINE o == calls[c].op
<1>4. /\ chains[o] \in Seq(Calls) /\ chains[o] # <<>> /\ chains[o][1] = c
      /\ chains'[o] = Tail(chains[o])
      /\ \A p \in Operations : p # o => chains'[p] = chains[p]
  BY <1>1 DEF Return, ChainInv, TypeOK, HasTurn
<1>5. /\ chains'[o] \in Seq(Calls) /\ Len(chains'[o]) = Len(chains[o]) - 1
      /\ \A i \in 1..Len(chains'[o]) : chains'[o][i] = chains[o][i + 1]
  BY <1>4
<1>6. chains' \in [Operations -> Seq(Calls)]
  BY <1>1, <1>4, <1>5 DEF Return, ChainInv, TypeOK
<1>7. ASSUME NEW p \in Operations, NEW i \in 1..Len(chains'[p])
      PROVE  /\ chains'[p][i] \in Calls /\ chains'[p][i] # c
             /\ calls'[chains'[p][i]].phase \in Active /\ calls'[chains'[p][i]].op = p
             /\ \A j \in 1..Len(chains'[p]) : chains'[p][i] = chains'[p][j] => i = j
  <2>1. CASE p = o
    <3>1. i + 1 \in 1..Len(chains[o]) /\ 1 \in 1..Len(chains[o])
      BY <2>1, <1>4, <1>5
    <3>2. chains[o][i + 1] \in Calls
      BY <3>1, <1>4
    <3>3. chains[o][i + 1] # c
      BY <3>1, <1>1, <1>4 DEF ChainInv, ChainsFit
    <3>4. \A j \in 1..Len(chains'[o]) : chains[o][i + 1] = chains[o][j + 1] => i = j
      <4> SUFFICES ASSUME NEW j \in 1..Len(chains'[o]), chains[o][i + 1] = chains[o][j + 1]
                   PROVE  i = j
        OBVIOUS
      <4>1. j + 1 \in 1..Len(chains[o])
        BY <1>4, <1>5
      <4>2. i + 1 = j + 1
        BY <4>1, <3>1, <1>1 DEF ChainInv, ChainsFit
      <4> QED BY <4>2, <2>1, <1>5
    <3>5. calls[chains[o][i + 1]].phase \in Active /\ calls[chains[o][i + 1]].op = o
      BY <3>1, <1>1 DEF ChainInv, ChainsFit
    <3> QED BY <2>1, <1>3, <1>5, <3>2, <3>3, <3>4, <3>5
  <2>2. CASE p # o
    <3>1. chains'[p] = chains[p] /\ chains[p] \in Seq(Calls)
      BY <2>2, <1>4 DEF ChainInv, TypeOK
    <3>2. chains[p][i] # c
      BY <3>1, <2>2 DEF ChainInv, ChainsFit
    <3> QED BY <3>1, <3>2, <1>3 DEF ChainInv, ChainsFit
  <2> QED BY <2>1, <2>2
<1>8. ChainsFit'
  BY <1>7 DEF ChainsFit
<1>9. BusyHaveTurn'
  <2> SUFFICES ASSUME NEW d \in Calls, calls'[d].phase \in Busy PROVE HasTurn(d)'
    BY DEF BusyHaveTurn
  <2>1. d # c
    BY <1>3 DEF Busy, Writes
  <2>2. calls[d].phase \in Busy /\ HasTurn(d)
    BY <2>1, <1>3 DEF ChainInv, BusyHaveTurn
  <2>3. calls[d].op # o
    BY <2>1, <2>2, OneTurn DEF ChainInv
  <2>4. calls[d].op \in Operations
    BY <2>2, ActiveCall DEF Busy, Writes, ChainInv
  <2> QED BY <2>1, <2>2, <2>3, <2>4, <1>3, <1>4 DEF HasTurn
<1> QED BY <1>2, <1>3, <1>6, <1>8, <1>9

\* A call that asks the remote keeps its place and its record.
LEMMA GoAsk ==
  ASSUME ChainInv, NEW c \in Calls, calls[c].phase \in Active, HasTurn(c), Query(c)
  PROVE  /\ calls' \in [Calls -> Call \cup {NewCall}] /\ chains' \in [Operations -> Seq(Calls)]
         /\ ChainsFit' /\ BusyHaveTurn'
         /\ \A d \in Calls : d # c => calls'[d] = calls[d]
         /\ calls'[c].op = calls[c].op /\ calls'[c].digest = calls[c].digest
         /\ calls'[c].phase = "querying"
<1>1. calls[c] \in Call
  BY ActiveCall DEF ChainInv, Active, Busy, Writes
<1>2. Put(c, "querying", calls[c].next, calls[c].outcome)
  BY <1>1 DEF Put, Query, Call, ChainInv, TypeOK
<1>3. calls[c].next \in Row /\ calls[c].outcome \in Outcomes \cup {None}
  BY <1>1 DEF Call
<1>4. "querying" \in Busy
  BY DEF Busy
<1> QED BY <1>2, <1>3, <1>4, GoOn

------------------------------------------------------------------------------
(* A call that begins. *)

\* What a beginning call may do, given what it finds.
BeginShape(c) ==
  LET held == rows[calls[c].op]
      fresh == Fresh(calls[c].digest)
  IN \/ \E outcome \in Outcomes : Says(c, held, outcome) /\ Return(c, outcome)
     \/ \E row \in Row, outcome \in {"conflict", "recorded", "unknown"} :
          /\ NoteFits(held, row) /\ (row = held \/ row.status \in {"intent_recorded", "unknown"})
          /\ Put(c, "noting", row, outcome)
     \/ held = NoRow /\ Put(c, "intent", fresh, None)
     \/ held = fresh /\ Put(c, "marking", Marked(fresh), None)
     \/ held.status \in {"sent", "unknown"} /\ held.digest = calls[c].digest /\ Query(c)

LEMMA BeginsFit ==
  ASSUME TypeOK, NEW c \in Calls, calls[c].phase = "waiting", RowFits(rows[calls[c].op]),
         Perform(c, rows[calls[c].op]) \/ RecordIntent(c, rows[calls[c].op])
           \/ Examine(c, rows[calls[c].op])
  PROVE  BeginShape(c)
<1> DEFINE held == rows[calls[c].op]
           fresh == Fresh(calls[c].digest)
<1>1. calls[c].op \in Operations /\ calls[c].digest \in Digests
  BY ActiveCall
<1>2. held \in Row /\ fresh \in Row /\ NoRow \in Row
  BY <1>1, EffectTypes DEF TypeOK
<1>3. held = NoRow \/ held.status # "absent"
  BY DEF RowFits
<1>4. ASSUME Reconcile(c, held), held # NoRow, held.digest = calls[c].digest
      PROVE  BeginShape(c)
  <2>1. \/ \E outcome \in Outcomes : Says(c, held, outcome) /\ Return(c, outcome)
        \/ held.status \in {"sent", "unknown"} /\ Query(c)
    BY <1>4 DEF Reconcile, Outcomes, Says
  <2> QED BY <2>1, <1>4 DEF BeginShape
<1>5. ASSUME Put(c, "noting", held, "conflict"), held # NoRow
      PROVE  BeginShape(c)
  <2>1. NoteFits(held, held)
    BY <1>5 DEF NoteFits
  <2> QED BY <2>1, <1>2, <1>5 DEF BeginShape
<1>6. ASSUME \E outcome \in {"thrown", "recorded", "unknown", "conflict"} : Return(c, outcome)
      PROVE  BeginShape(c)
  BY <1>6 DEF BeginShape, Outcomes, Says
<1>7. CASE Perform(c, held)
  <2>1. CASE Conflicts(c, held)
    BY <2>1, <1>7, <1>5 DEF Perform, Conflicts
  <2>2. CASE ~Conflicts(c, held) /\ ~Sendable(held.status)
    <3>1. held # NoRow
      BY <2>2 DEF NoRow, Sendable
    <3> QED BY <3>1, <2>2, <1>4, <1>7 DEF Perform, Conflicts
  <2>3. CASE ~Conflicts(c, held) /\ Sendable(held.status)
    <3>1. Send(c, held)
      BY <2>3, <1>7 DEF Perform
    <3>2. held = NoRow \/ held = fresh
      BY <2>3, <1>3 DEF Sendable, RowFits, Conflicts
    <3> DEFINE base == IF held = NoRow THEN fresh ELSE held
               dropped == [base EXCEPT !.status = "unknown"]
    <3>3. base = fresh
      BY <3>2
    <3>4. CASE Runnable
      BY <3>1, <3>2, <3>4 DEF Send, BeginShape
    <3>5. CASE ~Runnable
      <4>1. Put(c, "noting", dropped, "unknown")
        BY <3>1, <3>5 DEF Send
      <4>2. dropped \in Row
        BY <3>3, <1>2, EffectTypes DEF Statuses
      <4>3. dropped.status = "unknown" /\ dropped.attempts = 0 /\ dropped.digest = calls[c].digest
        BY <3>3 DEF Fresh
      <4>4. NoteFits(held, dropped)
        BY <4>3, <3>2 DEF NoteFits, Fresh, Sendable
      <4> QED BY <4>1, <4>2, <4>3, <4>4 DEF BeginShape
    <3> QED BY <3>4, <3>5
  <2> QED BY <2>1, <2>2, <2>3
<1>8. CASE RecordIntent(c, held)
  <2>1. CASE held = NoRow /\ ~Conflicts(c, held)
    <3>1. NoteFits(held, fresh) /\ fresh.status = "intent_recorded"
      BY <2>1 DEF NoteFits, Fresh
    <3> QED BY <3>1, <2>1, <1>2, <1>8 DEF RecordIntent, BeginShape
  <2>2. CASE ~(held = NoRow /\ ~Conflicts(c, held))
    BY <2>2, <1>8, <1>6 DEF RecordIntent
  <2> QED BY <2>1, <2>2
<1>9. CASE Examine(c, held)
  <2>1. CASE held = NoRow
    BY <2>1, <1>9, <1>6 DEF Examine
  <2>2. CASE held # NoRow /\ Conflicts(c, held)
    BY <2>2, <1>9, <1>5, <1>6 DEF Examine
  <2>3. CASE held # NoRow /\ ~Conflicts(c, held)
    BY <2>3, <1>9, <1>4 DEF Examine, Conflicts
  <2> QED BY <2>1, <2>2, <2>3
<1> QED BY <1>7, <1>8, <1>9

------------------------------------------------------------------------------
(* What a step leaves to the others. *)

\* A call's step concerns no other call that is under way.
LEMMA OthersFit ==
  ASSUME EffectInv, NEW c \in Calls, calls[c].phase \in Active, HasTurn(c),
         \A d \in Calls : d # c => calls'[d] = calls[d],
         \A o \in Operations : o # calls[c].op => rows'[o] = rows[o],
         sent \subseteq sent'
  PROVE  \A d \in Calls : d # c => CallFits(d)'
<1> SUFFICES ASSUME NEW d \in Calls, d # c PROVE CallFits(d)'
  OBVIOUS
<1>1. calls'[d] = calls[d] /\ CallFits(d)
  BY DEF EffectInv
<1>2. CASE calls[d].phase \in Busy
  <2>1. calls[d].op # calls[c].op
    BY <1>2, OneTurn DEF EffectInv, ChainInv
  <2>2. calls[d].op \in Operations
    BY <1>2, ActiveCall DEF EffectInv, ChainInv, Busy, Writes
  <2> QED BY <2>1, <2>2, <1>1 DEF CallFits, Says
<1>3. CASE calls[d].phase \notin Busy
  BY <1>3, <1>1 DEF CallFits, Busy, Writes
<1> QED BY <1>2, <1>3

\* A row about to be written keeps what the row says of the requests made.
LEMMA NextKeeps ==
  ASSUME EffectInv, NEW c \in Calls, calls[c].phase \in Writes
  PROVE  /\ calls[c].next \in Row /\ RowFits(calls[c].next)
         /\ \A d \in sent : calls[d].op = calls[c].op => MarkFits(d, calls[c].next)
<1> DEFINE held == rows[calls[c].op]
           fresh == Fresh(calls[c].digest)
           next == calls[c].next
<1>1. calls[c] \in Call /\ calls[c].op \in Operations /\ calls[c].digest \in Digests
  BY ActiveCall DEF EffectInv, ChainInv, Writes
<1>2. next \in Row /\ held \in Row /\ RowFits(held)
  BY <1>1 DEF EffectInv, ChainInv, TypeOK, Call
<1>3. CallFits(c)
  BY DEF EffectInv
<1>4. \A d \in sent : calls[d].op = calls[c].op => MarkFits(d, held)
  BY DEF EffectInv, SentFits
<1>5. CASE calls[c].phase = "intent"
  BY <1>5, <1>2, <1>3, <1>4 DEF CallFits, MarkFits, NoRow, Fresh, RowFits, Sendable
<1>6. CASE calls[c].phase = "marking"
  BY <1>6, <1>2, <1>3, <1>4 DEF CallFits, MarkFits, Marked, Fresh, RowFits, Sendable
<1>7. CASE calls[c].phase = "noting"
  <2>1. NoteFits(held, next)
    BY <1>7, <1>3 DEF CallFits
  <2>2. CASE held = NoRow
    <3>1. next.attempts = 0 /\ next.status \in {"intent_recorded", "unknown"}
      BY <2>1, <2>2 DEF NoteFits
    <3>2. next = [status |-> next.status, digest |-> next.digest, attempts |-> next.attempts]
      BY <1>2 DEF Row
    <3>3. RowFits(next)
      BY <3>1, <3>2 DEF RowFits, Fresh
    <3>4. ~\E d \in sent : calls[d].op = calls[c].op
      BY <1>4, <2>2 DEF MarkFits, NoRow
    <3> QED BY <3>3, <3>4, <1>2
  <2>3. CASE held # NoRow
    <3>1. next.digest = held.digest /\ next.attempts = held.attempts
          /\ (Sendable(next.status) => next = held)
      BY <2>1, <2>3 DEF NoteFits
    <3>2. RowFits(next)
      BY <3>1, <1>2 DEF RowFits, Sendable
    <3> QED BY <3>1, <3>2, <1>2, <1>4 DEF MarkFits
  <2> QED BY <2>2, <2>3
<1> QED BY <1>5, <1>6, <1>7 DEF Writes

LEMMA EffectInit == Init => EffectInv
<1> SUFFICES ASSUME Init PROVE EffectInv
  OBVIOUS
<1> USE EffectAssumption
<1>1. NoRow \in Row
  BY EffectTypes
<1>2. TypeOK
  BY <1>1 DEF Init, TypeOK
<1>3. ChainsFit /\ BusyHaveTurn
  BY DEF Init, ChainsFit, BusyHaveTurn, NewCall, Busy, Writes
<1>4. \A o \in Operations : RowFits(rows[o])
  BY DEF Init, RowFits, NoRow
<1>5. \A c \in Calls : CallFits(c)
  BY DEF Init, CallFits, NewCall
<1>6. sent = {} /\ flying = {} /\ landed = {}
  BY DEF Init
<1> QED BY <1>2, <1>3, <1>4, <1>5, <1>6 DEF EffectInv, ChainInv, SentOnce
------------------------------------------------------------------------------
(* The steps. *)

\* A step of c alone, among the calls.
Moves(c) ==
  /\ calls' \in [Calls -> Call \cup {NewCall}] /\ chains' \in [Operations -> Seq(Calls)]
  /\ ChainsFit' /\ BusyHaveTurn'
  /\ \A d \in Calls : d # c => calls'[d] = calls[d]
  /\ calls'[c].op = calls[c].op /\ calls'[c].digest = calls[c].digest /\ calls'[c].phase # "new"

\* A step of c alone, which leaves its operation's row fit for the requests made.
LEMMA StepFits ==
  ASSUME EffectInv, NEW c \in Calls, calls[c].phase \in Active, HasTurn(c), Moves(c),
         NEW row \in Row, RowFits(row), rows' = [rows EXCEPT ![calls[c].op] = row],
         sent \subseteq sent', sent' \subseteq sent \cup {c},
         \A d \in sent' : calls[d].op = calls[c].op => MarkFits(d, row),
         CallFits(c)', SentOnce',
         flying' \subseteq sent', landed' \subseteq sent', UNCHANGED adapter,
         crashes' \in 0..MaxCrashes, faults' \in 0..MaxFaults
  PROVE  EffectInv'
<1>1. calls[c].op \in Operations
  BY ActiveCall DEF EffectInv, ChainInv, Active, Busy, Writes
<1>2. /\ rows' \in [Operations -> Row] /\ rows'[calls[c].op] = row
      /\ \A o \in Operations : o # calls[c].op => rows'[o] = rows[o]
  BY <1>1 DEF EffectInv, ChainInv, TypeOK
<1>3. TypeOK'
  BY <1>2 DEF EffectInv, ChainInv, TypeOK, Moves
<1>4. \A o \in Operations : RowFits(rows[o])'
  BY <1>2 DEF EffectInv, RowFits
<1>5. \A d \in Calls : CallFits(d)'
  <2>1. \A d \in Calls : d # c => CallFits(d)'
    BY <1>2, OthersFit DEF Moves
  <2> QED BY <2>1
<1>6. \A d \in sent' : SentFits(d)'
  <2> SUFFICES ASSUME NEW d \in sent' PROVE SentFits(d)'
    OBVIOUS
  <2>1. d \in Calls
    BY DEF EffectInv, ChainInv, TypeOK
  <2>2. calls'[d].op = calls[d].op /\ calls'[d].digest = calls[d].digest /\ calls'[d].phase # "new"
    BY <2>1 DEF Moves, EffectInv, SentFits
  <2>3. CASE calls[d].op = calls[c].op
    BY <2>2, <2>3, <1>2 DEF SentFits, MarkFits
  <2>4. CASE calls[d].op # calls[c].op
    <3>1. d \in sent /\ calls[d].phase # "new"
      BY <2>4 DEF EffectInv, SentFits
    <3>2. rows'[calls[d].op] = rows[calls[d].op]
      BY <3>1, <2>1, <2>4, <1>2, ActiveCall DEF EffectInv, ChainInv
    <3> QED BY <3>1, <3>2, <2>2 DEF SentFits, MarkFits, EffectInv
  <2> QED BY <2>3, <2>4
<1> QED BY <1>3, <1>4, <1>5, <1>6 DEF EffectInv, ChainInv, Moves

\* A step that sends nothing and writes nothing.
LEMMA QuietFits ==
  ASSUME EffectInv, NEW c \in Calls, calls[c].phase \in Active, HasTurn(c), Moves(c),
         UNCHANGED <<adapter, rows, sent, flying, landed>>, CallFits(c)',
         crashes' \in 0..MaxCrashes, faults' \in 0..MaxFaults
  PROVE  EffectInv'
<1>1. calls[c].op \in Operations
  BY ActiveCall DEF EffectInv, ChainInv, Active, Busy, Writes
<1> DEFINE row == rows[calls[c].op]
<1>2. row \in Row /\ RowFits(row) /\ rows' = [rows EXCEPT ![calls[c].op] = row]
  BY <1>1 DEF EffectInv, ChainInv, TypeOK
<1>3. \A d \in sent' : calls[d].op = calls[c].op => MarkFits(d, row)
  BY DEF EffectInv, SentFits
<1>4. SentOnce'
  <2>1. \A d \in Calls : calls'[d].op = calls[d].op
    BY DEF Moves
  <2>2. sent' = sent /\ sent \subseteq Calls
    BY DEF EffectInv, ChainInv, TypeOK
  <2> QED BY <2>1, <2>2 DEF EffectInv, SentOnce
<1>5. flying' \subseteq sent' /\ landed' \subseteq sent' /\ sent' = sent
  BY DEF EffectInv
<1> HIDE DEF row
<1> QED BY <1>2, <1>3, <1>4, <1>5, StepFits

\* A call that has returned asks nothing more of its row.
LEMMA DoneFits ==
  ASSUME NEW c, calls'[c].phase = "done"
  PROVE  CallFits(c)'
BY DEF CallFits

LEMMA AskFits ==
  ASSUME EffectInv, NEW c \in Calls, NEW kind \in Kinds, NEW o \in Operations,
         NEW digest \in Digests, Ask(c, kind, o, digest), UNCHANGED adapter
  PROVE  EffectInv'
<1> DEFINE call == [phase |-> "waiting", kind |-> kind, op |-> o, digest |-> digest,
                    next |-> NoRow, outcome |-> None]
<1>1. call \in Call
  BY EffectTypes DEF Call
<1>2. /\ calls[c].phase = "new" /\ calls' = [calls EXCEPT ![c] = call]
      /\ chains' = [chains EXCEPT ![o] = Append(@, c)]
      /\ UNCHANGED <<adapter, rows, sent, flying, landed, crashes, faults>>
  BY DEF Ask
<1>3. /\ calls' \in [Calls -> Call \cup {NewCall}] /\ calls'[c] = call
      /\ \A d \in Calls : d # c => calls'[d] = calls[d]
  BY <1>1, <1>2 DEF EffectInv, ChainInv, TypeOK
<1>4. /\ chains \in [Operations -> Seq(Calls)] /\ chains' \in [Operations -> Seq(Calls)]
      /\ chains'[o] = Append(chains[o], c)
      /\ \A p \in Operations : p # o => chains'[p] = chains[p]
  BY <1>2 DEF EffectInv, ChainInv, TypeOK
<1>5. \A p \in Operations : \A i \in 1..Len(chains[p]) : chains[p][i] \in Calls \ {c}
  <2> SUFFICES ASSUME NEW p \in Operations, NEW i \in 1..Len(chains[p])
               PROVE  chains[p][i] \in Calls /\ chains[p][i] # c
    OBVIOUS
  <2>1. calls[chains[p][i]].phase \in Active
    BY DEF EffectInv, ChainInv, ChainsFit
  <2>2. calls[c].phase \notin Active
    BY <1>2 DEF Active, Busy, Writes
  <2>3. chains[p] \in Seq(Calls)
    BY <1>4
  <2> QED BY <2>1, <2>2, <2>3
<1>6. ChainsFit'
  <2> SUFFICES ASSUME NEW p \in Operations, NEW i \in 1..Len(chains'[p])
               PROVE  /\ calls'[chains'[p][i]].phase \in Active /\ calls'[chains'[p][i]].op = p
                      /\ \A j \in 1..Len(chains'[p]) : chains'[p][i] = chains'[p][j] => i = j
    BY DEF ChainsFit
  <2>1. CASE p # o
    <3>1. chains'[p] = chains[p]
      BY <2>1, <1>4
    <3>2. calls'[chains[p][i]] = calls[chains[p][i]]
      BY <3>1, <1>3, <1>5
    <3>3. /\ calls[chains[p][i]].phase \in Active /\ calls[chains[p][i]].op = p
          /\ \A j \in 1..Len(chains[p]) : chains[p][i] = chains[p][j] => i = j
      BY <3>1 DEF EffectInv, ChainInv, ChainsFit
    <3> QED BY <3>1, <3>2, <3>3
  <2>2. CASE p = o
    <3> DEFINE n == Len(chains[o])
    <3>1. /\ n \in Nat /\ Len(chains'[o]) = n + 1 /\ chains'[o][n + 1] = c
          /\ \A j \in 1..n : chains'[o][j] = chains[o][j]
      BY <1>4
    <3>2. \A j \in 1..n : /\ chains'[o][j] \in Calls \ {c}
                           /\ calls'[chains'[o][j]].phase \in Active
                           /\ calls'[chains'[o][j]].op = o
      BY <3>1, <1>3, <1>5 DEF EffectInv, ChainInv, ChainsFit
    <3>3. \A j, k \in 1..n : chains'[o][j] = chains'[o][k] => j = k
      BY <3>1 DEF EffectInv, ChainInv, ChainsFit
    <3>4. calls'[c].phase \in Active /\ calls'[c].op = o
      BY <1>3 DEF Active
    <3> HIDE DEF n
    <3>5. \A j \in 1..(n + 1) : j \in 1..n \/ j = n + 1
      BY <3>1
    <3> QED BY <2>2, <3>1, <3>2, <3>3, <3>4, <3>5
  <2> QED BY <2>1, <2>2
<1>7. BusyHaveTurn'
  <2> SUFFICES ASSUME NEW d \in Calls, calls'[d].phase \in Busy PROVE HasTurn(d)'
    BY DEF BusyHaveTurn
  <2>1. d # c
    BY <1>3 DEF Busy, Writes
  <2>2. calls'[d] = calls[d] /\ HasTurn(d)
    BY <2>1, <1>3 DEF EffectInv, ChainInv, BusyHaveTurn
  <2>3. calls[d].op \in Operations
    BY <2>2, ActiveCall DEF EffectInv, ChainInv, Busy, Writes
  <2>4. CASE calls[d].op = o
    BY <2>2, <2>4, <1>4 DEF HasTurn
  <2>5. CASE calls[d].op # o
    BY <2>2, <2>3, <2>5, <1>4 DEF HasTurn
  <2> QED BY <2>4, <2>5
<1>8. TypeOK'
  BY <1>2, <1>3, <1>4 DEF EffectInv, ChainInv, TypeOK
<1>9. \A d \in Calls : CallFits(d)'
  BY <1>2, <1>3 DEF EffectInv, CallFits, Says
<1>10. \A d \in sent : d \in Calls /\ d # c
  BY <1>2 DEF EffectInv, SentFits, ChainInv, TypeOK
<1>11. (\A d \in sent : SentFits(d))' /\ SentOnce'
  BY <1>2, <1>3, <1>10 DEF EffectInv, SentFits, MarkFits, SentOnce
<1> QED BY <1>2, <1>6, <1>7, <1>8, <1>9, <1>11 DEF EffectInv, ChainInv, RowFits

LEMMA BeginFits ==
  ASSUME EffectInv, NEW c \in Calls, Begin(c), UNCHANGED adapter
  PROVE  EffectInv'
<1> DEFINE held == rows[calls[c].op]
           fresh == Fresh(calls[c].digest)
<1>1. /\ calls[c].phase = "waiting" /\ calls[c].phase \in Active /\ HasTurn(c)
      /\ calls[c].op \in Operations /\ calls[c].digest \in Digests
  BY ActiveCall DEF Begin, Active, EffectInv, ChainInv
<1>2. UNCHANGED <<adapter, rows, sent, flying, landed>>
      /\ crashes' \in 0..MaxCrashes /\ faults' \in 0..MaxFaults
  BY DEF Begin, EffectInv, ChainInv, TypeOK
<1>3. BeginShape(c)
  BY <1>1, BeginsFit DEF Begin, EffectInv, ChainInv
<1>4. ChainInv /\ fresh \in Row /\ Marked(fresh) \in Row
  BY <1>1, EffectTypes DEF EffectInv
<1>5. ASSUME NEW outcome \in Outcomes, Return(c, outcome)
      PROVE  Moves(c) /\ CallFits(c)'
  <2>1. Moves(c) /\ calls'[c].phase = "done"
    BY <1>1, <1>4, <1>5, GoBack DEF Moves
  <2> QED BY <2>1, DoneFits
<1>6. ASSUME NEW phase \in Busy, NEW row \in Row, NEW outcome \in Outcomes \cup {None},
             Put(c, phase, row, outcome)
      PROVE  /\ Moves(c) /\ calls'[c].phase = phase /\ calls'[c].next = row
             /\ calls'[c].outcome = outcome /\ rows'[calls'[c].op] = held /\ calls'[c].digest = calls[c].digest
  <2>1. /\ calls' \in [Calls -> Call \cup {NewCall}] /\ chains' \in [Operations -> Seq(Calls)]
        /\ ChainsFit' /\ BusyHaveTurn'
        /\ \A d \in Calls : d # c => calls'[d] = calls[d]
        /\ calls'[c].op = calls[c].op /\ calls'[c].digest = calls[c].digest
        /\ calls'[c].phase = phase /\ calls'[c].next = row /\ calls'[c].outcome = outcome
    BY <1>6, <1>1, <1>4, GoOn
  <2>2. phase # "new"
    BY DEF Busy, Writes
  <2> QED BY <2>1, <2>2, <1>2 DEF Moves
<1>7. Moves(c) /\ CallFits(c)'
  <2>1. CASE \E outcome \in Outcomes : Says(c, held, outcome) /\ Return(c, outcome)
    BY <2>1, <1>5
  <2>2. CASE \E row \in Row, outcome \in {"conflict", "recorded", "unknown"} :
               /\ NoteFits(held, row) /\ (row = held \/ row.status \in {"intent_recorded", "unknown"})
               /\ Put(c, "noting", row, outcome)
    <3>1. PICK row \in Row, outcome \in {"conflict", "recorded", "unknown"} :
                 NoteFits(held, row) /\ Put(c, "noting", row, outcome)
      BY <2>2
    <3>2. outcome \in Outcomes /\ outcome \in Outcomes \cup {None} /\ "noting" \in Busy
      BY DEF Outcomes, Busy, Writes
    <3>3. Moves(c) /\ calls'[c].phase = "noting" /\ calls'[c].next = row
          /\ calls'[c].outcome = outcome /\ rows'[calls'[c].op] = held
      BY <3>1, <3>2, <1>6
    <3> QED BY <3>1, <3>2, <3>3 DEF CallFits, Says
  <2>3. CASE held = NoRow /\ Put(c, "intent", fresh, None)
    <3>1. Moves(c) /\ calls'[c].phase = "intent" /\ calls'[c].next = fresh
          /\ rows'[calls'[c].op] = held /\ calls'[c].digest = calls[c].digest
      BY <2>3, <1>4, <1>6 DEF Busy, Writes
    <3> QED BY <3>1, <2>3 DEF CallFits
  <2>4. CASE held = fresh /\ Put(c, "marking", Marked(fresh), None)
    <3>1. Moves(c) /\ calls'[c].phase = "marking" /\ calls'[c].next = Marked(fresh)
          /\ rows'[calls'[c].op] = held /\ calls'[c].digest = calls[c].digest
      BY <2>4, <1>4, <1>6 DEF Busy, Writes
    <3> QED BY <3>1, <2>4 DEF CallFits
  <2>5. CASE held.status \in {"sent", "unknown"} /\ held.digest = calls[c].digest /\ Query(c)
    <3>1. Moves(c) /\ calls'[c].phase = "querying"
          /\ rows'[calls'[c].op] = held /\ calls'[c].digest = calls[c].digest
      BY <2>5, <1>1, <1>2, <1>4, GoAsk DEF Moves
    <3> QED BY <3>1, <2>5 DEF CallFits
  <2> QED BY <1>3, <2>1, <2>2, <2>3, <2>4, <2>5 DEF BeginShape
<1> QED BY <1>1, <1>2, <1>7, QuietFits

\* A call under way has its turn and the record of a call.
LEMMA BusyCall ==
  ASSUME EffectInv, NEW c \in Calls, calls[c].phase \in Busy
  PROVE  /\ calls[c].phase \in Active /\ HasTurn(c) /\ ChainInv /\ CallFits(c)
         /\ calls[c] \in Call /\ calls[c].op \in Operations /\ calls[c].digest \in Digests
         /\ rows[calls[c].op] \in Row /\ RowFits(rows[calls[c].op])
         /\ crashes \in 0..MaxCrashes /\ faults \in 0..MaxFaults
<1>1. calls[c].phase # "new" /\ calls[c].phase \in Active
  BY DEF Busy, Writes, Active
<1>2. HasTurn(c) /\ ChainInv /\ CallFits(c) /\ TypeOK
  BY DEF EffectInv, ChainInv, BusyHaveTurn
<1>3. calls[c] \in Call /\ calls[c].op \in Operations /\ calls[c].digest \in Digests
  BY <1>1, <1>2, ActiveCall
<1> QED BY <1>1, <1>2, <1>3 DEF EffectInv, TypeOK

LEMMA IntentFits ==
  ASSUME EffectInv, NEW c \in Calls, IntentWritten(c), UNCHANGED adapter
  PROVE  EffectInv'
<1> DEFINE next == calls[c].next
           fresh == Fresh(calls[c].digest)
<1>1. calls[c].phase = "intent" /\ calls[c].phase \in Writes /\ calls[c].phase \in Busy
  BY DEF IntentWritten, Writes, Busy
<1>2. /\ calls[c].phase \in Active /\ HasTurn(c) /\ ChainInv
      /\ calls[c].op \in Operations /\ calls[c].digest \in Digests
      /\ next = fresh /\ UNCHANGED <<crashes, faults>>
      /\ crashes \in 0..MaxCrashes /\ faults \in 0..MaxFaults
  BY <1>1, BusyCall DEF CallFits, IntentWritten
<1>3. fresh \in Row /\ Marked(fresh) \in Row
  BY <1>2, EffectTypes
<1>4. Put(c, "marking", Marked(fresh), None)
  BY <1>2 DEF IntentWritten
<1>5. /\ Moves(c) /\ calls'[c].phase = "marking" /\ calls'[c].next = Marked(fresh)
      /\ calls'[c].op = calls[c].op /\ calls'[c].digest = calls[c].digest
  BY <1>2, <1>3, <1>4, GoOn DEF Moves, Busy, Writes
<1>6. rows' = [rows EXCEPT ![calls[c].op] = fresh]
  BY <1>2 DEF IntentWritten, Written
<1>7. rows'[calls'[c].op] = fresh
  BY <1>2, <1>5, <1>6 DEF ChainInv, TypeOK
<1>8. CallFits(c)'
  BY <1>5, <1>7 DEF CallFits
<1>9. RowFits(fresh) /\ \A d \in sent : calls[d].op = calls[c].op => MarkFits(d, fresh)
  BY <1>1, <1>2, NextKeeps
<1>10. UNCHANGED <<sent, flying, landed>> /\ flying \subseteq sent /\ landed \subseteq sent
       /\ sent \subseteq Calls /\ SentOnce
  BY <1>2 DEF IntentWritten, EffectInv, ChainInv, TypeOK
<1>11. SentOnce'
  BY <1>5, <1>10 DEF SentOnce, Moves
<1> HIDE DEF fresh
<1> QED BY <1>2, <1>3, <1>5, <1>6, <1>8, <1>9, <1>10, <1>11, StepFits

LEMMA MarkedFits ==
  ASSUME EffectInv, NEW c \in Calls, MarkWritten(c), UNCHANGED adapter
  PROVE  EffectInv'
<1> DEFINE held == rows[calls[c].op]
           fresh == Fresh(calls[c].digest)
           mark == Marked(fresh)
<1>1. calls[c].phase = "marking" /\ calls[c].phase \in Busy
  BY DEF MarkWritten, Writes, Busy
<1>2. /\ calls[c].phase \in Active /\ HasTurn(c) /\ ChainInv /\ calls[c] \in Call
      /\ calls[c].op \in Operations /\ calls[c].digest \in Digests
      /\ held = fresh /\ calls[c].next = mark /\ UNCHANGED <<landed, crashes, faults>>
      /\ crashes \in 0..MaxCrashes /\ faults \in 0..MaxFaults
  BY <1>1, BusyCall DEF CallFits, MarkWritten
<1>3. mark \in Row
  BY <1>2, EffectTypes
<1>4. Put(c, "sending", mark, calls[c].outcome)
  BY <1>2 DEF MarkWritten, Put, Call, ChainInv, TypeOK
<1>5. /\ Moves(c) /\ calls'[c].phase = "sending" /\ calls'[c].next = mark
      /\ calls'[c].op = calls[c].op /\ calls'[c].digest = calls[c].digest
  <2> DEFINE outcome == calls[c].outcome
  <2>1. outcome \in Outcomes \cup {None} /\ "sending" \in Busy
    BY <1>2 DEF Call, Busy
  <2>2. Put(c, "sending", mark, outcome)
    BY <1>4
  <2> HIDE DEF mark, outcome
  <2>3. /\ calls' \in [Calls -> Call \cup {NewCall}] /\ chains' \in [Operations -> Seq(Calls)]
        /\ ChainsFit' /\ BusyHaveTurn'
        /\ \A d \in Calls : d # c => calls'[d] = calls[d]
        /\ calls'[c].op = calls[c].op /\ calls'[c].digest = calls[c].digest
        /\ calls'[c].phase = "sending" /\ calls'[c].next = mark
    BY <2>1, <2>2, <1>2, <1>3, GoOn
  <2> QED BY <2>3 DEF Moves
<1>6. rows' = [rows EXCEPT ![calls[c].op] = mark]
  BY <1>2 DEF MarkWritten, Written
<1>7. sent' = sent \cup {c} /\ flying' = flying \cup {c}
  BY DEF MarkWritten
<1>8. CallFits(c)'
  <2>1. rows'[calls'[c].op] = mark
    BY <1>2, <1>5, <1>6 DEF ChainInv, TypeOK
  <2> QED BY <2>1, <1>5, <1>7 DEF CallFits
<1>9. mark.attempts = 1 /\ mark.status = "sent" /\ mark.digest = calls[c].digest
  BY DEF Marked, Fresh
\* The row it found was never marked, so no request preceded its own.
<1>10. \A d \in sent : calls[d].op # calls[c].op
  BY <1>2 DEF EffectInv, SentFits, MarkFits, Fresh
<1>11. \A d \in sent' : calls[d].op = calls[c].op => MarkFits(d, mark)
  BY <1>7, <1>9, <1>10 DEF MarkFits, Sendable
<1>12. RowFits(mark)
  BY <1>9 DEF RowFits
<1>13. SentOnce'
  <2>1. sent \subseteq Calls /\ \A d \in Calls : calls'[d].op = calls[d].op
    BY <1>5 DEF Moves, EffectInv, ChainInv, TypeOK
  <2> QED BY <2>1, <1>7, <1>10 DEF SentOnce, EffectInv
<1>14. flying' \subseteq sent' /\ landed' \subseteq sent'
  BY <1>2, <1>7 DEF EffectInv
<1> HIDE DEF mark
<1> QED BY <1>2, <1>3, <1>5, <1>6, <1>7, <1>8, <1>11, <1>12, <1>13, <1>14, StepFits

LEMMA NotedFits ==
  ASSUME EffectInv, NEW c \in Calls, NoteWritten(c), UNCHANGED adapter
  PROVE  EffectInv'
<1> DEFINE next == calls[c].next
<1>1. calls[c].phase \in Writes /\ calls[c].phase \in Busy
  BY DEF NoteWritten, Writes, Busy
<1>2. /\ calls[c].phase \in Active /\ HasTurn(c) /\ ChainInv /\ calls[c].op \in Operations
      /\ UNCHANGED <<sent, flying, landed, crashes, faults>> /\ calls[c].outcome \in Outcomes
      /\ crashes \in 0..MaxCrashes /\ faults \in 0..MaxFaults
  BY <1>1, BusyCall DEF NoteWritten, CallFits
<1>3. /\ next \in Row /\ RowFits(next)
      /\ \A d \in sent : calls[d].op = calls[c].op => MarkFits(d, next)
  BY <1>1, NextKeeps
<1>4. Return(c, calls[c].outcome) /\ rows' = [rows EXCEPT ![calls[c].op] = next]
  BY DEF NoteWritten, Written
<1>5. Moves(c) /\ calls'[c].phase = "done"
  BY <1>2, <1>4, GoBack DEF Moves
<1>6. CallFits(c)'
  BY <1>5, DoneFits
<1>7. flying \subseteq sent /\ landed \subseteq sent /\ sent \subseteq Calls /\ SentOnce
  BY DEF EffectInv, ChainInv, TypeOK
<1>8. SentOnce'
  BY <1>2, <1>5, <1>7 DEF SentOnce, Moves
<1> HIDE DEF next
<1> QED BY <1>2, <1>3, <1>4, <1>5, <1>6, <1>7, <1>8, StepFits

LEMMA FailureFits ==
  ASSUME EffectInv, NEW c \in Calls, WriteFails(c), UNCHANGED adapter
  PROVE  EffectInv'
<1>1. calls[c].phase \in Busy
  BY DEF WriteFails, Busy
<1>2. /\ calls[c].phase \in Active /\ HasTurn(c) /\ ChainInv
      /\ crashes \in 0..MaxCrashes /\ faults \in 0..MaxFaults
  BY <1>1, BusyCall
<1>3. Return(c, "thrown") /\ "thrown" \in Outcomes
      /\ UNCHANGED <<adapter, rows, sent, flying, landed, crashes>>
  BY DEF WriteFails, Outcomes
<1>4. Moves(c) /\ calls'[c].phase = "done"
  BY <1>2, <1>3, GoBack DEF Moves
<1>5. CallFits(c)'
  BY <1>4, DoneFits
<1>6. faults' \in 0..MaxFaults
  BY <1>2, EffectAssumption DEF WriteFails, Fault
<1> QED BY <1>2, <1>3, <1>4, <1>5, <1>6, QuietFits

\* What a call that sent or asked records next.
LEMMA OutcomeFits ==
  ASSUME EffectInv, NEW c \in Calls, calls[c].phase \in Busy,
         NEW status \in {"confirmed", "not_started", "unknown"},
         NEW held, held = rows[calls[c].op], held.status \in {"sent", "unknown"},
         held.digest = calls[c].digest,
         Put(c, "noting", [held EXCEPT !.status = status], status),
         UNCHANGED <<adapter, rows, sent, flying, landed, crashes, faults>>
  PROVE  EffectInv'
<1> DEFINE row == [held EXCEPT !.status = status]
<1>1. /\ calls[c].phase \in Active /\ HasTurn(c) /\ ChainInv /\ held \in Row
      /\ crashes' \in 0..MaxCrashes /\ faults' \in 0..MaxFaults
  BY BusyCall
<1>2. row \in Row /\ status \in Outcomes /\ status \in Outcomes \cup {None} /\ "noting" \in Busy
  BY <1>1, EffectTypes DEF Statuses, Outcomes, Busy, Writes
<1>3. row.status = status /\ row.digest = held.digest /\ row.attempts = held.attempts
  BY <1>1 DEF Row
<1>4. NoteFits(held, row)
  BY <1>3 DEF NoteFits, NoRow, Sendable
<1>5. Put(c, "noting", row, status)
  OBVIOUS
<1> HIDE DEF row
<1>6. /\ Moves(c) /\ calls'[c].phase = "noting" /\ calls'[c].next = row
      /\ calls'[c].outcome = status /\ calls'[c].op = calls[c].op
      /\ calls'[c].digest = calls[c].digest
  BY <1>1, <1>2, <1>5, GoOn DEF Moves
<1>7. CallFits(c)'
  BY <1>2, <1>3, <1>4, <1>6 DEF CallFits, Says
<1> QED BY <1>1, <1>6, <1>7, QuietFits

LEMMA ReplyFits ==
  ASSUME EffectInv, NEW c \in Calls, TransportReturns(c), UNCHANGED adapter
  PROVE  EffectInv'
<1> DEFINE held == rows[calls[c].op]
<1>1. calls[c].phase = "sending" /\ calls[c].phase \in Busy
      /\ UNCHANGED <<adapter, rows, sent, flying, landed, crashes, faults>>
  BY DEF TransportReturns, Busy
<1>2. calls[c].next = held /\ held.status = "sent" /\ held.digest = calls[c].digest
  <2>1. CallFits(c)
    BY <1>1, BusyCall
  <2>2. calls[c].next = held /\ held = Marked(Fresh(calls[c].digest))
    BY <2>1, <1>1 DEF CallFits
  <2> QED BY <2>2 DEF Marked, Fresh
<1>3. PICK reply \in {"confirmed", "not_started", "unknown"} :
             Put(c, "noting", [held EXCEPT !.status = reply], reply)
  BY <1>2 DEF TransportReturns, Replies
<1> HIDE DEF held
<1>4. held = rows[calls[c].op]
  BY DEF held
<1> QED BY <1>1, <1>2, <1>3, <1>4, OutcomeFits

LEMMA AnswerFits ==
  ASSUME EffectInv, NEW c \in Calls, QueryAnswered(c), UNCHANGED adapter
  PROVE  EffectInv'
<1> DEFINE held == rows[calls[c].op]
<1>1. calls[c].phase = "querying" /\ calls[c].phase \in Busy
      /\ UNCHANGED <<adapter, rows, sent, flying, landed, crashes, faults>>
  BY DEF QueryAnswered, Busy
<1>2. /\ calls[c].phase \in Active /\ HasTurn(c) /\ ChainInv /\ held.status \in {"sent", "unknown"}
      /\ held.digest = calls[c].digest
      /\ crashes' \in 0..MaxCrashes /\ faults' \in 0..MaxFaults
  BY <1>1, BusyCall DEF CallFits
<1>3. PICK answer \in {"confirmed", "not_started", "unknown"} :
             IF answer = "unknown" THEN Return(c, "unknown")
             ELSE Put(c, "noting", [held EXCEPT !.status = answer], answer)
  BY DEF QueryAnswered, Answers
<1>4. CASE answer = "unknown"
  <2>1. Return(c, "unknown") /\ "unknown" \in Outcomes
    BY <1>3, <1>4 DEF Outcomes
  <2>2. Moves(c) /\ calls'[c].phase = "done"
    BY <1>2, <2>1, GoBack DEF Moves
  <2>3. CallFits(c)'
    BY <2>2, DoneFits
  <2> QED BY <1>1, <1>2, <2>2, <2>3, QuietFits
<1>5. CASE answer # "unknown"
  <2>1. Put(c, "noting", [held EXCEPT !.status = answer], answer)
    BY <1>3, <1>5
  <2> HIDE DEF held
  <2>2. held = rows[calls[c].op]
    BY DEF held
  <2> QED BY <1>1, <1>2, <2>1, <2>2, OutcomeFits
<1> QED BY <1>4, <1>5

\* What becomes of a request concerns no record.
LEMMA FlightFits ==
  ASSUME EffectInv, UNCHANGED <<adapter, rows, calls, chains, sent, crashes, faults>>,
         flying' \subseteq sent, landed' \subseteq sent
  PROVE  EffectInv'
<1>1. /\ UNCHANGED <<adapter, rows, calls, chains, sent, crashes, faults>>
      /\ flying' \subseteq sent' /\ landed' \subseteq sent'
  OBVIOUS
<1>2. TypeOK'
  BY <1>1 DEF EffectInv, ChainInv, TypeOK
<1>3. ChainsFit' /\ BusyHaveTurn'
  BY <1>1 DEF EffectInv, ChainInv, ChainsFit, BusyHaveTurn, HasTurn
<1>4. (\A d \in Calls : CallFits(d))'
  BY <1>1 DEF EffectInv, CallFits, Says
<1>5. (\A d \in sent : SentFits(d))' /\ SentOnce'
  BY <1>1 DEF EffectInv, SentFits, SentOnce, MarkFits
<1>6. (\A o \in Operations : RowFits(rows[o]))'
  BY <1>1 DEF EffectInv
<1> QED BY <1>1, <1>2, <1>3, <1>4, <1>5, <1>6 DEF EffectInv, ChainInv

\* The process ends: each row is as it was, or as the write under way would have it.
LEMMA CrashFits ==
  ASSUME EffectInv, Crash, UNCHANGED adapter
  PROVE  EffectInv'
<1> DEFINE writing == {o \in Operations : chains[o] # <<>>
                                           /\ calls[Head(chains[o])].phase \in Writes}
           gone(c) == calls[c].phase \notin {"new", "done"}
<1>1. PICK kept \in SUBSET writing :
        rows' = [o \in Operations |-> IF o \in kept THEN calls[Head(chains[o])].next ELSE rows[o]]
  BY DEF Crash
<1>2. /\ calls' = [c \in Calls |-> IF calls[c].phase \in {"new", "done"} THEN calls[c]
                                    ELSE [calls[c] EXCEPT !.phase = "dead", !.next = NoRow]]
      /\ chains' = [o \in Operations |-> <<>>] /\ UNCHANGED <<adapter, sent, flying, landed, faults>>
      /\ crashes' = crashes + 1 /\ crashes < MaxCrashes
  BY DEF Crash
<1>3. ASSUME NEW o \in Operations
      PROVE  /\ rows'[o] \in Row /\ RowFits(rows'[o])
             /\ \A d \in sent : calls[d].op = o => MarkFits(d, rows'[o])
  <2>1. CASE o \notin kept
    BY <1>1, <2>1 DEF EffectInv, ChainInv, TypeOK, SentFits
  <2>2. CASE o \in kept
    <3> DEFINE c == Head(chains[o])
    <3>1. chains[o] \in Seq(Calls) /\ chains[o] # <<>> /\ calls[c].phase \in Writes
      BY <2>2 DEF EffectInv, ChainInv, TypeOK
    <3>2. c \in Calls /\ c = chains[o][1] /\ 1 \in 1..Len(chains[o])
      BY <3>1
    <3>3. calls[c].op = o
      BY <3>2 DEF EffectInv, ChainInv, ChainsFit
    <3>4. rows'[o] = calls[c].next
      BY <1>1, <2>2
    <3> HIDE DEF c
    <3> QED BY <3>1, <3>2, <3>3, <3>4, NextKeeps
  <2> QED BY <2>1, <2>2
<1>4. ASSUME NEW c \in Calls
      PROVE  /\ calls'[c] \in Call \cup {NewCall}
             /\ ~gone(c) => calls'[c] = calls[c]
             /\ gone(c) => /\ calls'[c].phase = "dead"
                            /\ calls'[c].op = calls[c].op /\ calls'[c].digest = calls[c].digest
  <2>1. CASE gone(c)
    <3>1. calls[c] \in Call
      BY <2>1, ActiveCall DEF EffectInv, ChainInv
    <3>2. calls'[c] = [calls[c] EXCEPT !.phase = "dead", !.next = NoRow]
      BY <1>2, <2>1
    <3> QED BY <2>1, <3>1, <3>2, EffectTypes DEF Call
  <2>2. CASE ~gone(c)
    BY <1>2, <2>2 DEF EffectInv, ChainInv, TypeOK
  <2> QED BY <2>1, <2>2
<1>5. rows' \in [Operations -> Row] /\ calls' \in [Calls -> Call \cup {NewCall}]
  BY <1>1, <1>2, <1>3, <1>4
<1> HIDE DEF writing, gone
<1>6. TypeOK'
  <2>1. chains' \in [Operations -> Seq(Calls)]
    <3>1. chains' = [o \in Operations |-> <<>>]
      BY DEF Crash
    <3> QED BY <3>1
  <2>2. crashes' \in 0..MaxCrashes
    <3>1. crashes \in 0..MaxCrashes /\ crashes < MaxCrashes /\ crashes' = crashes + 1
      BY DEF Crash, EffectInv, ChainInv, TypeOK
    <3> QED BY <3>1, EffectAssumption
  <2>3. UNCHANGED <<adapter, sent, flying, landed, faults>> /\ TypeOK
    BY <1>2 DEF EffectInv, ChainInv
  <2> QED BY <1>5, <2>1, <2>2, <2>3 DEF TypeOK
<1>7. \A c \in Calls : calls'[c].phase \notin Busy
  BY <1>4 DEF gone, Busy, Writes, EffectInv, ChainInv, TypeOK
<1>8. ChainsFit' /\ BusyHaveTurn'
  <2>1. \A o \in Operations : chains'[o] = <<>>
    BY <1>2
  <2>2. ChainsFit'
    BY <2>1 DEF ChainsFit
  <2>3. BusyHaveTurn'
    BY <1>7 DEF BusyHaveTurn
  <2> QED BY <2>2, <2>3
<1>9. \A c \in Calls : CallFits(c)'
  BY <1>7 DEF CallFits, Busy, Writes
<1>10. ASSUME NEW d \in sent
       PROVE  SentFits(d)' /\ calls'[d].op = calls[d].op
  <2>1. d \in Calls /\ calls[d].phase # "new" /\ MarkFits(d, rows[calls[d].op])
    BY DEF EffectInv, ChainInv, TypeOK, SentFits
  <2>2. calls[d].op \in Operations
    BY <2>1, ActiveCall DEF EffectInv, ChainInv
  <2>3. calls'[d].op = calls[d].op /\ calls'[d].digest = calls[d].digest /\ calls'[d].phase # "new"
    BY <2>1, <1>4
  <2>4. MarkFits(d, rows'[calls[d].op])
    BY <2>2, <1>3
  <2> QED BY <2>3, <2>4 DEF SentFits, MarkFits
<1>11. SentOnce'
  <2>1. sent' = sent /\ SentOnce
    BY <1>2 DEF EffectInv
  <2> QED BY <2>1, <1>10 DEF SentOnce
<1>12. flying' \subseteq sent' /\ landed' \subseteq sent' /\ sent' = sent
  BY <1>2 DEF EffectInv
<1>13. \A o \in Operations : RowFits(rows[o])'
  BY <1>3 DEF RowFits
<1> QED BY <1>6, <1>8, <1>9, <1>10, <1>11, <1>12, <1>13 DEF EffectInv, ChainInv

LEMMA EffectStep == EffectInv /\ [Next]_vars => EffectInv'
<1> SUFFICES ASSUME EffectInv, [Next]_vars PROVE EffectInv'
  OBVIOUS
<1>1. CASE UNCHANGED vars
  <2>1. UNCHANGED <<adapter, rows, calls, chains, sent, crashes, faults>>
        /\ flying' \subseteq sent /\ landed' \subseteq sent
    BY <1>1 DEF vars, EffectInv
  <2> QED BY <2>1, FlightFits
<1>2. CASE Next
  <2>1. CASE Crash
    BY <1>2, <2>1, CrashFits DEF Next
  <2>2. ASSUME NEW c \in Calls, NEW kind \in Kinds, NEW o \in Operations, NEW digest \in Digests,
               Ask(c, kind, o, digest)
        PROVE  EffectInv'
    BY <1>2, <2>2, AskFits DEF Next
  <2>3. ASSUME NEW c \in Calls, Continue(c)
        PROVE  EffectInv'
    BY <1>2, <2>3, BeginFits, IntentFits, MarkedFits, NotedFits, FailureFits, ReplyFits,
       AnswerFits DEF Next, Continue
  <2>4. ASSUME NEW c \in Calls, Lands(c) \/ Lost(c)
        PROVE  EffectInv'
    <3>1. UNCHANGED <<adapter, rows, calls, chains, sent, crashes, faults>>
          /\ flying' \subseteq sent /\ landed' \subseteq sent
      BY <1>2, <2>4 DEF Next, Lands, Lost, EffectInv
    <3> QED BY <3>1, FlightFits
  <2> QED BY <1>2, <2>1, <2>2, <2>3, <2>4 DEF Next, Step
<1> QED BY <1>1, <1>2

\* The variables range over their types.
THEOREM EffectTypeCorrect == Spec => []TypeOK
<1>1. EffectInv => TypeOK
  BY DEF EffectInv, ChainInv
<1> QED BY <1>1, EffectInit, EffectStep, PTL DEF Spec

\* Whoever performs an operation, however often, with whatever parameters and across
\* whatever crashes (send is only reached from a row that was never marked, and marks
\* it first), its transport is invoked once at most.
THEOREM EffectSentOnce == Spec => []SentOnce
<1>1. EffectInv => SentOnce
  BY DEF EffectInv
<1> QED BY <1>1, EffectInit, EffectStep, PTL DEF Spec

------------------------------------------------------------------------------
(* With a remote whose denials are final: the record and the answers given  *)
(* tell what became of the request.                                         *)

\* What a row with this status says took place.
Claim(o, row) ==
  /\ row.status = "confirmed" => \E d \in sent : calls[d].op = o /\ d \in landed
  /\ row.status = "not_started" => \A d \in sent : calls[d].op = o => d \notin landed \cup flying

Truth ==
  /\ \A o \in Operations : Claim(o, rows[o])
  /\ \A c \in Calls : calls[c].phase = "noting" => Claim(calls[c].op, calls[c].next)
TruthInv == EffectInv /\ Truth

------------------------------------------------------------------------------

\* Nothing new happened to a request.
Still == UNCHANGED <<sent, flying, landed>>

\* A step of one call that writes, if anything, a row whose claim is true.
LEMMA TruthMoves ==
  ASSUME TruthInv, Still, NEW c \in Calls, Moves(c), calls[c].phase \in Active,
         \A o \in Operations : rows'[o] = rows[o] \/ Claim(o, rows'[o]),
         calls'[c].phase = "noting" => Claim(calls[c].op, calls'[c].next)
  PROVE  Truth'
<1>1. calls[c].op \in Operations /\ EffectInv
  BY ActiveCall DEF TruthInv, EffectInv, ChainInv, Active, Busy, Writes
<1>2. sent' = sent /\ landed' = landed /\ flying' = flying
      /\ \A d \in sent : calls'[d].op = calls[d].op
  BY <1>1 DEF Still, Moves, EffectInv, ChainInv, TypeOK
<1>3. ASSUME NEW o \in Operations
      PROVE  Claim(o, rows[o])'
  <2>1. Claim(o, rows'[o])
    BY DEF TruthInv, Truth
  <2> QED BY <2>1, <1>2 DEF Claim
<1>4. ASSUME NEW d \in Calls, calls'[d].phase = "noting"
      PROVE  Claim(calls[d].op, calls[d].next)'
  <2>1. Claim(calls[d].op, calls'[d].next) /\ calls'[d].op = calls[d].op
    BY <1>4 DEF TruthInv, Truth, Moves
  <2> QED BY <2>1, <1>2 DEF Claim
<1> QED BY <1>3, <1>4 DEF Truth

\* The two ways a call's step ends, in one statement each.
LEMMA PutMoves ==
  ASSUME EffectInv, NEW c \in Calls, calls[c].phase \in Active, HasTurn(c),
         NEW phase \in Busy, NEW row \in Row, NEW outcome \in Outcomes \cup {None},
         Put(c, phase, row, outcome)
  PROVE  Moves(c) /\ calls'[c].phase = phase /\ calls'[c].next = row
<1>1. ChainInv /\ phase # "new"
  BY DEF EffectInv, Busy, Writes
<1> QED BY <1>1, GoOn DEF Moves

LEMMA ReturnMoves ==
  ASSUME EffectInv, NEW c \in Calls, calls[c].phase \in Active, HasTurn(c),
         NEW outcome \in Outcomes, Return(c, outcome)
  PROVE  Moves(c) /\ calls'[c].phase = "done"
<1>1. ChainInv
  BY DEF EffectInv
<1> QED BY <1>1, GoBack DEF Moves

LEMMA AskTrue ==
  ASSUME TruthInv, NEW c \in Calls, NEW kind \in Kinds, NEW o \in Operations,
         NEW digest \in Digests, Ask(c, kind, o, digest)
  PROVE  Truth'
<1>1. /\ calls'[c].phase = "waiting" /\ \A d \in Calls : d # c => calls'[d] = calls[d]
      /\ UNCHANGED <<rows, sent, flying, landed>>
  BY DEF Ask, TruthInv, EffectInv, ChainInv, TypeOK
<1>2. \A d \in sent : d \in Calls /\ d # c
  BY DEF Ask, TruthInv, EffectInv, SentFits, ChainInv, TypeOK
<1> QED BY <1>1, <1>2 DEF TruthInv, Truth, Claim

LEMMA BeginTrue ==
  ASSUME TruthInv, NEW c \in Calls, Begin(c)
  PROVE  Truth'
<1> DEFINE held == rows[calls[c].op]
           fresh == Fresh(calls[c].digest)
<1>1. /\ EffectInv /\ calls[c].phase = "waiting" /\ calls[c].phase \in Active /\ HasTurn(c)
      /\ calls[c].op \in Operations /\ calls[c].digest \in Digests
      /\ UNCHANGED <<rows, sent, flying, landed>>
  BY ActiveCall DEF Begin, Active, TruthInv, EffectInv, ChainInv
<1>2. BeginShape(c)
  BY <1>1, BeginsFit DEF Begin, EffectInv, ChainInv
<1>3. fresh \in Row /\ Marked(fresh) \in Row
  BY <1>1, EffectTypes
<1>4. Claim(calls[c].op, held)
  BY <1>1 DEF TruthInv, Truth
<1>5. Moves(c) /\ (calls'[c].phase = "noting" => Claim(calls[c].op, calls'[c].next))
  <2>1. CASE \E outcome \in Outcomes : Says(c, held, outcome) /\ Return(c, outcome)
    BY <2>1, <1>1, ReturnMoves
  <2>2. CASE \E row \in Row, outcome \in {"conflict", "recorded", "unknown"} :
               /\ NoteFits(held, row) /\ (row = held \/ row.status \in {"intent_recorded", "unknown"})
               /\ Put(c, "noting", row, outcome)
    <3>1. PICK row \in Row, outcome \in {"conflict", "recorded", "unknown"} :
                 /\ row = held \/ row.status \in {"intent_recorded", "unknown"}
                 /\ Put(c, "noting", row, outcome)
      BY <2>2
    <3>2. outcome \in Outcomes \cup {None} /\ "noting" \in Busy
      BY DEF Outcomes, Busy, Writes
    <3>3. Moves(c) /\ calls'[c].next = row
      BY <3>1, <3>2, <1>1, PutMoves
    <3> QED BY <3>1, <3>3, <1>4 DEF Claim
  <2>3. CASE held = NoRow /\ Put(c, "intent", fresh, None)
    BY <2>3, <1>1, <1>3, PutMoves DEF Busy, Writes
  <2>4. CASE held = fresh /\ Put(c, "marking", Marked(fresh), None)
    BY <2>4, <1>1, <1>3, PutMoves DEF Busy, Writes
  <2>5. CASE held.status \in {"sent", "unknown"} /\ held.digest = calls[c].digest /\ Query(c)
    BY <2>5, <1>1, GoAsk DEF Moves, EffectInv
  <2> QED BY <1>2, <2>1, <2>2, <2>3, <2>4, <2>5 DEF BeginShape
<1> QED BY <1>1, <1>5, TruthMoves DEF Still

LEMMA IntentTrue ==
  ASSUME TruthInv, NEW c \in Calls, IntentWritten(c)
  PROVE  Truth'
<1> DEFINE fresh == Fresh(calls[c].digest)
<1>1. EffectInv /\ calls[c].phase = "intent" /\ calls[c].phase \in Busy
  BY DEF IntentWritten, Writes, Busy, TruthInv
<1>2. /\ calls[c].phase \in Active /\ HasTurn(c) /\ calls[c].op \in Operations
      /\ calls[c].digest \in Digests /\ calls[c].next = fresh
  BY <1>1, BusyCall DEF CallFits
<1>3. Put(c, "marking", Marked(fresh), None) /\ rows' = [rows EXCEPT ![calls[c].op] = fresh]
      /\ Still
  BY <1>2 DEF IntentWritten, Written, Still
<1>4. Marked(fresh) \in Row
  BY <1>2, EffectTypes
<1>5. Moves(c) /\ calls'[c].phase = "marking"
  BY <1>1, <1>2, <1>3, <1>4, PutMoves DEF Busy, Writes
<1>6. \A o \in Operations : rows'[o] = rows[o] \/ rows'[o] = fresh
  BY <1>2, <1>3 DEF TruthInv, EffectInv, ChainInv, TypeOK
<1>7. \A o \in Operations : Claim(o, fresh)
  BY DEF Claim, Fresh
<1> HIDE DEF fresh
<1> QED BY <1>2, <1>3, <1>5, <1>6, <1>7, TruthMoves

LEMMA NotedTrue ==
  ASSUME TruthInv, NEW c \in Calls, NoteWritten(c)
  PROVE  Truth'
<1> DEFINE next == calls[c].next
<1>1. EffectInv /\ calls[c].phase = "noting" /\ calls[c].phase \in Busy
  BY DEF NoteWritten, Writes, Busy, TruthInv
<1>2. /\ calls[c].phase \in Active /\ HasTurn(c) /\ calls[c].op \in Operations
      /\ calls[c].outcome \in Outcomes
  BY <1>1, BusyCall DEF CallFits
<1>3. Return(c, calls[c].outcome) /\ rows' = [rows EXCEPT ![calls[c].op] = next] /\ Still
  BY DEF NoteWritten, Written, Still
<1>4. Moves(c) /\ calls'[c].phase = "done"
  BY <1>1, <1>2, <1>3, ReturnMoves
<1>5. Claim(calls[c].op, next)
  BY <1>1 DEF TruthInv, Truth
<1>6. \A o \in Operations : rows'[o] = rows[o] \/ (o = calls[c].op /\ rows'[o] = next)
  BY <1>2, <1>3 DEF TruthInv, EffectInv, ChainInv, TypeOK
<1> HIDE DEF next
<1> QED BY <1>2, <1>3, <1>4, <1>5, <1>6, TruthMoves

LEMMA FailureTrue ==
  ASSUME TruthInv, NEW c \in Calls, WriteFails(c)
  PROVE  Truth'
<1>1. EffectInv /\ calls[c].phase \in Busy
  BY DEF WriteFails, Busy, TruthInv
<1>2. calls[c].phase \in Active /\ HasTurn(c)
  BY <1>1, BusyCall
<1>3. Return(c, "thrown") /\ "thrown" \in Outcomes /\ Still /\ rows' = rows
  BY DEF WriteFails, Outcomes, Still
<1>4. Moves(c) /\ calls'[c].phase = "done"
  BY <1>1, <1>2, <1>3, ReturnMoves
<1> QED BY <1>2, <1>3, <1>4, TruthMoves

\* A new request: the row that bears its mark claims nothing of it yet.
LEMMA MarkedTrue ==
  ASSUME TruthInv, NEW c \in Calls, MarkWritten(c)
  PROVE  Truth'
<1> DEFINE mark == calls[c].next
           p == calls[c].op
<1>1. EffectInv /\ calls[c].phase = "marking" /\ calls[c].phase \in Busy
  BY DEF MarkWritten, Writes, Busy, TruthInv
<1>2. /\ calls[c] \in Call /\ p \in Operations /\ mark.status = "sent"
      /\ ChainInv
  <2>1. mark = Marked(Fresh(calls[c].digest))
    BY <1>1, BusyCall DEF CallFits
  <2> QED BY <2>1, <1>1, BusyCall DEF Marked
<1>3. /\ rows' = [rows EXCEPT ![p] = mark] /\ calls' = [calls EXCEPT ![c].phase = "sending"]
      /\ sent' = sent \cup {c} /\ flying' = flying \cup {c} /\ landed' = landed
  BY DEF MarkWritten, Written
<1>4. /\ calls'[c].phase = "sending" /\ calls'[c].op = p
      /\ \A d \in Calls : d # c => calls'[d] = calls[d]
  BY <1>2, <1>3 DEF ChainInv, TypeOK, Call
<1>5. /\ rows'[p] = mark /\ \A o \in Operations : o # p => rows'[o] = rows[o]
      /\ sent \subseteq Calls
  BY <1>2, <1>3 DEF ChainInv, TypeOK
<1>6. ASSUME NEW o \in Operations, o # p, NEW row, Claim(o, row)
      PROVE  /\ row.status = "confirmed" => \E d \in sent' : calls'[d].op = o /\ d \in landed'
             /\ row.status = "not_started"
                  => \A d \in sent' : calls'[d].op = o => d \notin landed' \cup flying'
  BY <1>6, <1>3, <1>4, <1>5 DEF Claim
<1>7. \A o \in Operations : Claim(o, rows[o])'
  <2>1. \A o \in Operations : o # p => Claim(o, rows[o])'
    BY <1>3, <1>4, <1>5 DEF Claim, TruthInv, Truth
  <2>2. Claim(p, rows'[p]) /\ rows'[p].status = "sent"
    BY <1>2, <1>5 DEF Claim
  <2>3. \A o \in Operations : o = p => Claim(o, rows[o])'
    BY <2>2 DEF Claim
  <2> QED BY <2>1, <2>3
<1>8. ASSUME NEW d \in Calls, calls'[d].phase = "noting"
      PROVE  Claim(calls[d].op, calls[d].next)'
  <2>1. d # c /\ calls'[d] = calls[d]
    BY <1>4, <1>8
  <2>2. calls[d].op # p /\ calls[d].op \in Operations
    BY <2>1, <1>1, <1>8, BusyCall, OneTurn DEF Busy, Writes, ChainInv, EffectInv
  <2>3. Claim(calls[d].op, calls[d].next)
    BY <2>1, <1>8 DEF TruthInv, Truth
  <2> QED BY <2>1, <2>2, <2>3, <1>6 DEF Claim
<1> QED BY <1>7, <1>8 DEF Truth

LEMMA ReplyTrue ==
  ASSUME TruthInv, NEW c \in Calls, TransportReturns(c)
  PROVE  Truth'
<1> DEFINE held == rows[calls[c].op]
<1>1. EffectInv /\ calls[c].phase = "sending" /\ calls[c].phase \in Busy /\ Still /\ rows' = rows
  BY DEF TransportReturns, Busy, Still, TruthInv
<1>2. /\ calls[c].phase \in Active /\ HasTurn(c) /\ calls[c].next = held /\ c \in sent
      /\ held \in Row /\ SentOnce /\ landed \subseteq sent
  BY <1>1, BusyCall DEF CallFits, EffectInv
<1>3. PICK reply \in Replies(c) : Put(c, "noting", [held EXCEPT !.status = reply], reply)
  BY <1>2 DEF TransportReturns
<1> DEFINE row == [held EXCEPT !.status = reply]
<1>4. /\ reply \in Statuses /\ reply \in Outcomes \cup {None} /\ "noting" \in Busy
      /\ reply = "confirmed" => c \in landed
      /\ reply = "not_started" => c \notin landed \cup flying
  BY DEF Replies, Statuses, Outcomes, Busy, Writes
<1>5. row \in Row /\ row.status = reply
  BY <1>2, <1>4, EffectTypes DEF Row
<1>6. Put(c, "noting", row, reply)
  BY <1>3
<1> HIDE DEF row
<1>7. Moves(c) /\ calls'[c].next = row
  BY <1>1, <1>2, <1>4, <1>5, <1>6, PutMoves
<1>8. Claim(calls[c].op, row)
  BY <1>2, <1>4, <1>5 DEF Claim, SentOnce
<1> QED BY <1>1, <1>2, <1>7, <1>8, TruthMoves

\* A truthful remote that denies an operation has no request of it, and none to come.
LEMMA AnswerTrue ==
  ASSUME TruthInv, ~Straggling, NEW c \in Calls, QueryAnswered(c)
  PROVE  Truth'
<1> DEFINE held == rows[calls[c].op]
<1>1. EffectInv /\ calls[c].phase = "querying" /\ calls[c].phase \in Busy /\ Still /\ rows' = rows
  BY DEF QueryAnswered, Busy, Still, TruthInv
<1>2. /\ calls[c].phase \in Active /\ HasTurn(c) /\ held \in Row
      /\ landed \subseteq sent /\ flying \subseteq sent
  BY <1>1, BusyCall DEF EffectInv
<1>3. PICK answer \in Answers(calls[c].op) :
             IF answer = "unknown" THEN Return(c, "unknown")
             ELSE Put(c, "noting", [held EXCEPT !.status = answer], answer)
  BY DEF QueryAnswered
<1> DEFINE row == [held EXCEPT !.status = answer]
<1>4. /\ answer \in Statuses /\ answer \in Outcomes \cup {None} /\ "noting" \in Busy
      /\ answer = "confirmed" => \E d \in landed : calls[d].op = calls[c].op
      /\ answer = "not_started" => /\ ~\E d \in landed : calls[d].op = calls[c].op
                                   /\ ~\E d \in flying : calls[d].op = calls[c].op
  BY DEF Answers, Statuses, Outcomes, Busy, Writes
<1>5. row \in Row /\ row.status = answer
  BY <1>2, <1>4, EffectTypes DEF Row
<1>6. CASE answer = "unknown"
  <2>1. Return(c, "unknown") /\ "unknown" \in Outcomes
    BY <1>3, <1>6 DEF Outcomes
  <2>2. Moves(c) /\ calls'[c].phase = "done"
    BY <2>1, <1>1, <1>2, ReturnMoves
  <2> QED BY <2>2, <1>1, <1>2, TruthMoves
<1>7. CASE answer # "unknown"
  <2>1. Put(c, "noting", row, answer)
    BY <1>3, <1>7
  <2> HIDE DEF row
  <2>2. Moves(c) /\ calls'[c].next = row
    BY <2>1, <1>1, <1>2, <1>4, <1>5, PutMoves
  <2>3. Claim(calls[c].op, row)
    BY <1>2, <1>4, <1>5 DEF Claim
  <2> QED BY <2>2, <2>3, <1>1, <1>2, TruthMoves
<1> QED BY <1>6, <1>7

LEMMA FlightTrue ==
  ASSUME TruthInv, NEW c \in Calls, Lands(c) \/ Lost(c)
  PROVE  Truth'
<1>1. /\ UNCHANGED <<rows, calls, sent>> /\ landed \subseteq landed'
      /\ landed' \cup flying' \subseteq landed \cup flying
  BY DEF Lands, Lost
<1> QED BY <1>1 DEF TruthInv, Truth, Claim

\* The claim of a row whose write the end of the process left durable was already true.
LEMMA CrashTrue ==
  ASSUME TruthInv, Crash
  PROVE  Truth'
<1> DEFINE writing == {o \in Operations : chains[o] # <<>>
                                           /\ calls[Head(chains[o])].phase \in Writes}
<1>1. PICK kept \in SUBSET writing :
        rows' = [o \in Operations |-> IF o \in kept THEN calls[Head(chains[o])].next ELSE rows[o]]
  BY DEF Crash
<1>2. sent' = sent /\ flying' = flying /\ landed' = landed /\ EffectInv
  BY DEF Crash, TruthInv
<1>3. ASSUME NEW o \in Operations
      PROVE  Claim(o, rows'[o])
  <2>1. CASE o \notin kept
    BY <1>1, <2>1 DEF TruthInv, Truth
  <2>2. CASE o \in kept
    <3> DEFINE c == Head(chains[o])
    <3>1. chains[o] \in Seq(Calls) /\ chains[o] # <<>> /\ calls[c].phase \in Writes
      BY <2>2, <1>2 DEF EffectInv, ChainInv, TypeOK
    <3>2. c \in Calls /\ c = chains[o][1] /\ 1 \in 1..Len(chains[o])
      BY <3>1
    <3>3. calls[c].op = o /\ CallFits(c)
      BY <3>2, <1>2 DEF EffectInv, ChainInv, ChainsFit
    <3>4. rows'[o] = calls[c].next
      BY <1>1, <2>2
    <3> HIDE DEF c
    <3>5. CASE calls[c].phase = "noting"
      BY <3>2, <3>3, <3>4, <3>5 DEF TruthInv, Truth
    <3>6. CASE calls[c].phase \in {"intent", "marking"}
      BY <3>3, <3>4, <3>6 DEF CallFits, Claim, Fresh, Marked
    <3> QED BY <3>1, <3>5, <3>6 DEF Writes
  <2> QED BY <2>1, <2>2
<1>4. \A d \in Calls : calls'[d].phase # "noting"
  <2> SUFFICES ASSUME NEW d \in Calls PROVE calls'[d].phase # "noting"
    OBVIOUS
  <2>1. CASE calls[d].phase \in {"new", "done"}
    BY <2>1 DEF Crash
  <2>2. CASE calls[d].phase \notin {"new", "done"}
    <3>1. calls[d] \in Call
      BY <2>2, <1>2, ActiveCall DEF EffectInv, ChainInv
    <3>2. calls'[d] = [calls[d] EXCEPT !.phase = "dead", !.next = NoRow]
      BY <2>2 DEF Crash
    <3> QED BY <3>1, <3>2 DEF Call
  <2> QED BY <2>1, <2>2
<1>5. \A d \in sent : calls'[d].op = calls[d].op
  <2> SUFFICES ASSUME NEW d \in sent PROVE calls'[d].op = calls[d].op
    OBVIOUS
  <2>1. d \in Calls /\ calls[d] \in Call
    BY <1>2, ActiveCall DEF EffectInv, ChainInv, TypeOK, SentFits
  <2> QED BY <2>1 DEF Crash, Call
<1> QED BY <1>2, <1>3, <1>4, <1>5 DEF Truth, Claim

LEMMA TruthStep == ~Straggling /\ TruthInv /\ [Next]_vars => TruthInv'
<1> SUFFICES ASSUME ~Straggling, TruthInv, [Next]_vars PROVE TruthInv'
  OBVIOUS
<1>1. EffectInv'
  BY EffectStep DEF TruthInv
<1>2. CASE UNCHANGED vars
  BY <1>2, <1>1 DEF vars, TruthInv, Truth, Claim
<1>3. CASE Next
  <2>1. CASE Crash
    BY <2>1, <1>1, CrashTrue DEF TruthInv
  <2>2. ASSUME NEW c \in Calls, NEW kind \in Kinds, NEW o \in Operations, NEW digest \in Digests,
               Ask(c, kind, o, digest)
        PROVE  TruthInv'
    BY <2>2, <1>1, AskTrue DEF TruthInv
  <2>3. ASSUME NEW c \in Calls, Continue(c)
        PROVE  Truth'
    BY <2>3, BeginTrue, IntentTrue, MarkedTrue, NotedTrue, FailureTrue, ReplyTrue,
       AnswerTrue DEF Continue
  <2>4. ASSUME NEW c \in Calls, Lands(c) \/ Lost(c)
        PROVE  Truth'
    BY <2>4, FlightTrue
  <2> QED BY <1>1, <1>3, <2>1, <2>2, <2>3, <2>4 DEF Next, Step, TruthInv
<1> QED BY <1>2, <1>3

LEMMA TruthInit == Init => TruthInv
<1>1. Init => Truth
  BY DEF Init, Truth, Claim, NewCall, NoRow
<1> QED BY <1>1, EffectInit DEF TruthInv

\* A reader of the records alone, after any crash, knows what became of each request, as
\* long as the remote's denials are final.
THEOREM EffectRowTellsTheTruth ==
  ASSUME ~Straggling
  PROVE  Spec => []RowTellsTheTruth
<1>1. TruthInv => RowTellsTheTruth
  <2> SUFFICES ASSUME TruthInv, NEW o \in Operations
               PROVE  LET requests == {c \in sent : calls[c].op = o} IN
                      /\ requests # {} => rows[o].attempts > 0
                      /\ \A c \in requests : calls[c].digest = rows[o].digest
                      /\ rows[o].status = "confirmed" => requests \cap landed # {}
                      /\ rows[o].status = "not_started" => requests \cap (landed \cup flying) = {}
    BY DEF RowTellsTheTruth
  <2>1. \A c \in sent : calls[c].op = o => MarkFits(c, rows[o])
    BY DEF TruthInv, EffectInv, SentFits
  <2>2. Claim(o, rows[o])
    BY DEF TruthInv, Truth
  <2> QED BY <2>1, <2>2 DEF MarkFits, Claim
<1>2. TruthInv /\ [Next]_vars => TruthInv'
  BY TruthStep
<1> QED BY <1>1, <1>2, TruthInit, PTL DEF Spec

\* What a returning call says is what the record says, and that is true.
LEMMA ReturnsTruth ==
  ASSUME TruthInv, NEW c \in Calls, calls[c].phase # "new", NEW row, NEW outcome,
         RowFits(row), Claim(calls[c].op, row), Says(c, row, outcome),
         \A d \in sent : calls[d].op = calls[c].op => MarkFits(d, row)
  PROVE  LET requests == {d \in sent : calls[d].op = calls[c].op} IN
         /\ outcome = "confirmed"
              => \E d \in requests : d \in landed /\ calls[d].digest = calls[c].digest
         /\ outcome = "not_started" => requests \cap (landed \cup flying) = {}
<1>1. row.status = "intent_recorded" => \A d \in sent : calls[d].op # calls[c].op
  BY DEF MarkFits, Sendable
<1> QED BY <1>1 DEF Says, Claim, MarkFits

Told(c) ==
  LET requests == {d \in sent : calls[d].op = calls[c].op} IN
  /\ calls'[c].outcome = "confirmed"
       => \E d \in requests : d \in landed /\ calls[d].digest = calls[c].digest
  /\ calls'[c].outcome = "not_started" => requests \cap (landed \cup flying) = {}
AllTold == \A c \in Calls : Returns(c) => Told(c)

\* A step that returns nobody.
LEMMA NobodyTold ==
  ASSUME \A d \in Calls : calls'[d].phase = "done" => calls'[d] = calls[d]
  PROVE  AllTold
BY DEF AllTold, Returns

LEMMA PutTold ==
  ASSUME EffectInv, NEW c \in Calls, calls[c].phase \in Active, HasTurn(c),
         NEW phase \in Busy, NEW row \in Row, NEW outcome \in Outcomes \cup {None},
         Put(c, phase, row, outcome)
  PROVE  AllTold
<1>1. Moves(c) /\ calls'[c].phase = phase
  BY PutMoves
<1>2. phase # "done"
  BY DEF Busy, Writes
<1> QED BY <1>1, <1>2, NobodyTold DEF Moves

\* A step in which c returns with an outcome that a true row bears out.
LEMMA ReturnTold ==
  ASSUME TruthInv, NEW c \in Calls, calls[c].phase \in Active, HasTurn(c),
         NEW outcome \in Outcomes, Return(c, outcome), NEW row,
         outcome \in {"confirmed", "not_started"} =>
           /\ RowFits(row) /\ Claim(calls[c].op, row) /\ Says(c, row, outcome)
           /\ \A d \in sent : calls[d].op = calls[c].op => MarkFits(d, row)
  PROVE  AllTold
<1>1. EffectInv /\ ChainInv /\ calls[c].phase # "new"
  BY DEF TruthInv, EffectInv, Active, Busy, Writes
<1>2. calls'[c].outcome = outcome /\ \A d \in Calls : d # c => calls'[d] = calls[d]
  BY <1>1, GoBack
<1>3. outcome \in {"confirmed", "not_started"} => Told(c)
  BY <1>1, <1>2, ReturnsTruth DEF Told
<1>4. Told(c)
  BY <1>2, <1>3 DEF Told
<1>5. \A d \in Calls : d # c => ~Returns(d)
  BY <1>2 DEF Returns
<1> QED BY <1>4, <1>5 DEF AllTold

LEMMA BeginTold ==
  ASSUME TruthInv, NEW c \in Calls, Begin(c)
  PROVE  AllTold
<1> DEFINE held == rows[calls[c].op]
           fresh == Fresh(calls[c].digest)
<1>1. /\ EffectInv /\ calls[c].phase = "waiting" /\ calls[c].phase \in Active /\ HasTurn(c)
      /\ calls[c].op \in Operations /\ calls[c].digest \in Digests
  BY ActiveCall DEF Begin, Active, TruthInv, EffectInv, ChainInv
<1>2. BeginShape(c)
  BY <1>1, BeginsFit DEF Begin, EffectInv, ChainInv
<1>3. fresh \in Row /\ Marked(fresh) \in Row
  BY <1>1, EffectTypes
<1>4. /\ RowFits(held) /\ Claim(calls[c].op, held)
      /\ \A d \in sent : calls[d].op = calls[c].op => MarkFits(d, held)
  BY <1>1 DEF TruthInv, Truth, EffectInv, SentFits
<1>5. CASE \E outcome \in Outcomes : Says(c, held, outcome) /\ Return(c, outcome)
  BY <1>5, <1>1, <1>4, ReturnTold
<1>6. CASE \E row \in Row, outcome \in {"conflict", "recorded", "unknown"} :
             Put(c, "noting", row, outcome)
  <2>1. "noting" \in Busy /\ {"conflict", "recorded", "unknown"} \subseteq Outcomes \cup {None}
    BY DEF Busy, Writes, Outcomes
  <2> QED BY <1>6, <2>1, <1>1, PutTold
<1>7. CASE Put(c, "intent", fresh, None)
  BY <1>7, <1>1, <1>3, PutTold DEF Busy, Writes
<1>8. CASE Put(c, "marking", Marked(fresh), None)
  BY <1>8, <1>1, <1>3, PutTold DEF Busy, Writes
<1>9. CASE Query(c)
  <2>1. /\ calls'[c].phase = "querying" /\ \A d \in Calls : d # c => calls'[d] = calls[d]
    BY <1>9, <1>1, GoAsk DEF EffectInv
  <2> QED BY <2>1, NobodyTold
<1> QED BY <1>2, <1>5, <1>6, <1>7, <1>8, <1>9 DEF BeginShape

LEMMA ContinueTold ==
  ASSUME TruthInv, NEW c \in Calls, Continue(c)
  PROVE  AllTold
<1>1. CASE Begin(c)
  BY <1>1, BeginTold
<1>2. CASE IntentWritten(c) \/ MarkWritten(c)
  <2>1. calls[c].phase # "done" /\ \A d \in Calls : d # c => calls'[d] = calls[d]
    BY <1>2 DEF IntentWritten, MarkWritten, Put, TruthInv, EffectInv, ChainInv, TypeOK
  <2>2. calls[c].phase # "new"
    BY <1>2 DEF IntentWritten, MarkWritten
  <2>3. calls[c] \in Call
    BY <2>2, ActiveCall DEF TruthInv, EffectInv, ChainInv
  <2>4. calls'[c].phase # "done"
    BY <1>2, <2>3 DEF IntentWritten, MarkWritten, Put, TruthInv, EffectInv, ChainInv, TypeOK, Call
  <2> QED BY <2>1, <2>4, NobodyTold
<1>3. CASE NoteWritten(c)
  <2>1. calls[c].phase = "noting" /\ calls[c].phase \in Writes /\ calls[c].phase \in Busy /\ EffectInv
        /\ Return(c, calls[c].outcome)
    BY <1>3 DEF NoteWritten, Writes, Busy, TruthInv
  <2>2. /\ calls[c].phase \in Active /\ HasTurn(c) /\ calls[c].outcome \in Outcomes
        /\ Says(c, calls[c].next, calls[c].outcome)
    BY <2>1, BusyCall DEF CallFits
  <2>3. Claim(calls[c].op, calls[c].next)
    BY <2>1 DEF TruthInv, Truth
  <2>4. RowFits(calls[c].next) /\ \A d \in sent : calls[d].op = calls[c].op => MarkFits(d, calls[c].next)
    BY <2>1, NextKeeps
  <2> DEFINE next == calls[c].next
             outcome == calls[c].outcome
  <2>5. /\ RowFits(next) /\ Claim(calls[c].op, next) /\ Says(c, next, outcome)
        /\ \A d \in sent : calls[d].op = calls[c].op => MarkFits(d, next)
        /\ outcome \in Outcomes /\ Return(c, outcome)
    BY <2>1, <2>2, <2>3, <2>4
  <2> HIDE DEF next, outcome
  <2> QED BY <2>2, <2>5, ReturnTold
<1>4. CASE WriteFails(c)
  <2>1. calls[c].phase \in Busy /\ EffectInv /\ Return(c, "thrown") /\ "thrown" \in Outcomes
    BY <1>4 DEF WriteFails, Busy, TruthInv, Outcomes
  <2>2. calls[c].phase \in Active /\ HasTurn(c)
    BY <2>1, BusyCall
  <2> QED BY <2>1, <2>2, ReturnTold
<1>5. CASE TransportReturns(c)
  <2>1. calls[c].phase \in Busy /\ EffectInv
    BY <1>5 DEF TransportReturns, Busy, TruthInv
  <2>2. calls[c].phase \in Active /\ HasTurn(c) /\ calls[c].next \in Row
    BY <2>1, BusyCall DEF Call
  <2>3. PICK reply \in Replies(c) : Put(c, "noting", [calls[c].next EXCEPT !.status = reply], reply)
    BY <1>5 DEF TransportReturns
  <2>4. reply \in Statuses /\ reply \in Outcomes \cup {None} /\ "noting" \in Busy
    BY DEF Replies, Statuses, Outcomes, Busy, Writes
  <2> DEFINE row == [calls[c].next EXCEPT !.status = reply]
  <2>5. row \in Row
    BY <2>2, <2>4, EffectTypes
  <2>6. Put(c, "noting", row, reply)
    BY <2>3
  <2> HIDE DEF row
  <2> QED BY <2>1, <2>2, <2>4, <2>5, <2>6, PutTold
<1>6. CASE QueryAnswered(c)
  <2>1. calls[c].phase \in Busy /\ EffectInv
    BY <1>6 DEF QueryAnswered, Busy, TruthInv
  <2>2. calls[c].phase \in Active /\ HasTurn(c) /\ rows[calls[c].op] \in Row
    BY <2>1, BusyCall
  <2>3. PICK answer \in Answers(calls[c].op) :
               IF answer = "unknown" THEN Return(c, "unknown")
               ELSE Put(c, "noting", [rows[calls[c].op] EXCEPT !.status = answer], answer)
    BY <1>6 DEF QueryAnswered
  <2>4. answer \in Statuses /\ answer \in Outcomes \cup {None} /\ "noting" \in Busy
        /\ "unknown" \in Outcomes
    BY DEF Answers, Statuses, Outcomes, Busy, Writes
  <2>5. CASE answer = "unknown"
    BY <2>1, <2>2, <2>3, <2>4, <2>5, ReturnTold
  <2>6. CASE answer # "unknown"
    <3> DEFINE row == [rows[calls[c].op] EXCEPT !.status = answer]
    <3>1. row \in Row /\ Put(c, "noting", row, answer)
      BY <2>2, <2>3, <2>4, <2>6, EffectTypes
    <3> HIDE DEF row
    <3> QED BY <2>1, <2>2, <2>4, <3>1, PutTold
  <2> QED BY <2>5, <2>6
<1> QED BY <1>1, <1>2, <1>3, <1>4, <1>5, <1>6 DEF Continue

\* Callers are told the truth, by the record they find or by the one they leave.
THEOREM EffectAnswersAreTrue ==
  ASSUME ~Straggling
  PROVE  Spec => AnswersAreTrue
<1>1. TruthInv /\ [Next]_vars => [AllTold]_vars
  <2> SUFFICES ASSUME TruthInv, Next PROVE AllTold
    OBVIOUS
  <2>1. CASE Crash
    <3>1. \A d \in Calls : calls'[d].phase = "done" => calls'[d] = calls[d]
      <4> SUFFICES ASSUME NEW d \in Calls, calls[d].phase \notin {"new", "done"}
                   PROVE  calls'[d].phase # "done"
        BY <2>1 DEF Crash
      <4>1. calls[d] \in Call
        BY ActiveCall DEF TruthInv, EffectInv, ChainInv
      <4>2. calls'[d] = [calls[d] EXCEPT !.phase = "dead", !.next = NoRow]
        BY <2>1 DEF Crash
      <4> QED BY <4>1, <4>2 DEF Call
    <3> QED BY <3>1, NobodyTold
  <2>2. ASSUME NEW c \in Calls, NEW kind \in Kinds, NEW o \in Operations, NEW digest \in Digests,
               Ask(c, kind, o, digest)
        PROVE  AllTold
    <3>1. calls'[c].phase = "waiting" /\ \A d \in Calls : d # c => calls'[d] = calls[d]
      BY <2>2 DEF Ask, TruthInv, EffectInv, ChainInv, TypeOK
    <3> QED BY <3>1, NobodyTold
  <2>3. ASSUME NEW c \in Calls, Lands(c) \/ Lost(c)
        PROVE  AllTold
    BY <2>3, NobodyTold DEF Lands, Lost
  <2> QED BY <2>1, <2>2, <2>3, ContinueTold DEF Next, Step
<1>2. TruthInv /\ [Next]_vars => TruthInv'
  BY TruthStep
<1>3. Init => TruthInv
  BY TruthInit
<1>4. Spec => [][AllTold]_vars
  BY <1>1, <1>2, <1>3, PTL DEF Spec
<1>5. [AllTold]_vars <=> [\A c \in Calls : Returns(c) =>
       LET requests == {d \in sent : calls[d].op = calls[c].op} IN
       /\ calls'[c].outcome = "confirmed"
            => \E d \in requests : d \in landed /\ calls[d].digest = calls[c].digest
       /\ calls'[c].outcome = "not_started" => requests \cap (landed \cup flying) = {}]_vars
  BY DEF AllTold, Told
<1> QED BY <1>4, <1>5, PTL DEF AnswersAreTrue
=============================================================================
