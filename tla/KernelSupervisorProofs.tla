------------------------ MODULE KernelSupervisorProofs ------------------------
(***************************************************************************)
(* Theorems of KernelSupervisor, for every set of cells and every bound on *)
(* the queue, the commands and the failures. A handler maps the slot to a  *)
(* record and then drains the queue, so the invariant is stated of records *)
(* and shown of the record before the drain and of every record the drain  *)
(* may leave.                                                              *)
(***************************************************************************)
EXTENDS KernelSupervisor, TLAPS

\* The first m of the queue left it: c among them.
Left(k, m, c) == \E i \in 1..m : k.pending[i] = c

\* A cell handed to the transport (drain, execute).
Handed(x, p, e, b) == [x EXCEPT !.phase = "running", !.process = p, !.owed = TRUE,
                                !.startEpoch = e, !.crossed = b]

\* What a drain may do to a slot (kernel-lifecycle.ts drain): the first m cells leave
\* the queue, refused by the transport but for the last, which may be handed over.
DrainTo(k, s, m) ==
  /\ k.registered /\ k.active = None /\ k.state = "idle"
  /\ s.registered = k.registered /\ s.starting = k.starting
  /\ s.epoch = k.epoch /\ s.process = k.process
  /\ Len(s.pending) = Len(k.pending) - m
  /\ \A i \in 1..Len(s.pending) : s.pending[i] = k.pending[m + i]
  /\ \/ s.active = None /\ s.state = "idle"
     \/ s.active \in Cells /\ s.state = "busy" /\ Left(k, m, s.active)
  /\ \A c \in Cells :
       \/ s.cells[c] = k.cells[c] /\ c # s.active
       \/ Left(k, m, c) /\ c # s.active /\ s.cells[c] = [k.cells[c] EXCEPT !.phase = "answered"]
       \/ c = s.active /\ s.cells[c] = Handed(k.cells[c], k.process, k.epoch, UnderWay(k))

LEMMA SetCell ==
  ASSUME NEW f \in [Cells -> Cell], NEW h \in Cells, NEW x \in Cell, NEW g,
         g = [f EXCEPT ![h] = x]
  PROVE  g \in [Cells -> Cell] /\ g[h] = x /\ \A c \in Cells \ {h} : g[c] = f[c]
OBVIOUS

HandOver(f, h, p, e, b) == [f EXCEPT ![h].phase = "running", ![h].process = p,
                                     ![h].owed = TRUE, ![h].startEpoch = e,
                                     ![h].crossed = b]

LEMMA HandedCell ==
  ASSUME NEW f \in [Cells -> Cell], NEW h \in Cells, NEW p \in Nat, NEW e \in Nat,
         NEW b \in BOOLEAN
  PROVE  /\ HandOver(f, h, p, e, b) \in [Cells -> Cell]
         /\ HandOver(f, h, p, e, b)[h] = Handed(f[h], p, e, b)
         /\ \A c \in Cells \ {h} : HandOver(f, h, p, e, b)[c] = f[c]
<1>1. PICK x1 : x1 = [f[h] EXCEPT !.phase = "running"]
  OBVIOUS
<1>2. PICK x2 : x2 = [x1 EXCEPT !.process = p]
  OBVIOUS
<1>3. PICK x3 : x3 = [x2 EXCEPT !.owed = TRUE]
  OBVIOUS
<1>4. PICK x4 : x4 = [x3 EXCEPT !.startEpoch = e]
  OBVIOUS
<1>a. PICK x5 : x5 = [x4 EXCEPT !.crossed = b]
  OBVIOUS
<1>5. x1 \in Cell /\ x2 \in Cell /\ x3 \in Cell /\ x4 \in Cell /\ x5 \in Cell
  <2>1. x1 \in Cell
    BY <1>1 DEF Cell, Phases
  <2>2. x2 \in Cell
    BY <1>2, <2>1 DEF Cell
  <2>3. x3 \in Cell
    BY <1>3, <2>2 DEF Cell
  <2>4. x4 \in Cell
    BY <1>4, <2>3 DEF Cell
  <2>5. x5 \in Cell
    BY <1>a, <2>4 DEF Cell
  <2> QED BY <2>1, <2>2, <2>3, <2>4, <2>5
<1>6. PICK g1 : g1 = [f EXCEPT ![h].phase = "running"]
  OBVIOUS
<1>7. PICK g2 : g2 = [g1 EXCEPT ![h].process = p]
  OBVIOUS
<1>8. PICK g3 : g3 = [g2 EXCEPT ![h].owed = TRUE]
  OBVIOUS
<1>9. PICK g4 : g4 = [g3 EXCEPT ![h].startEpoch = e]
  OBVIOUS
<1>b. PICK g : g = [g4 EXCEPT ![h].crossed = b]
  OBVIOUS
<1>10. g1 \in [Cells -> Cell] /\ g1[h] = x1 /\ \A c \in Cells \ {h} : g1[c] = f[c]
  BY <1>1, <1>5, <1>6, SetCell
<1>11. g2 \in [Cells -> Cell] /\ g2[h] = x2 /\ \A c \in Cells \ {h} : g2[c] = f[c]
  BY <1>2, <1>5, <1>7, <1>10, SetCell
<1>12. g3 \in [Cells -> Cell] /\ g3[h] = x3 /\ \A c \in Cells \ {h} : g3[c] = f[c]
  BY <1>3, <1>5, <1>8, <1>11, SetCell
<1>13. g4 \in [Cells -> Cell] /\ g4[h] = x4 /\ \A c \in Cells \ {h} : g4[c] = f[c]
  BY <1>4, <1>5, <1>9, <1>12, SetCell
<1>c. g \in [Cells -> Cell] /\ g[h] = x5 /\ \A c \in Cells \ {h} : g[c] = f[c]
  BY <1>a, <1>5, <1>b, <1>13, SetCell
<1>14. x5 = Handed(f[h], p, e, b)
  <2>1. [[[[[f[h] EXCEPT !.phase = "running"] EXCEPT !.process = p]
                 EXCEPT !.owed = TRUE] EXCEPT !.startEpoch = e] EXCEPT !.crossed = b]
          = Handed(f[h], p, e, b)
    BY DEF Handed
  <2> QED BY <1>1, <1>2, <1>3, <1>4, <1>a, <2>1
<1>15. g = HandOver(f, h, p, e, b)
  BY <1>6, <1>7, <1>8, <1>9, <1>b DEF HandOver
<1> QED BY <1>c, <1>14, <1>15

LEMMA HandedOverIs ==
  ASSUME NEW k \in Slot, NEW n \in 0..Len(k.pending),
         k.registered, k.active = None, k.state = "idle"
  PROVE  /\ HandedOver(k, n) \in Slot
         /\ \E m \in 0..Len(k.pending) : DrainTo(k, HandedOver(k, n), m)
<1>1. PICK s : s = HandedOver(k, n)
  OBVIOUS
<1> SUFFICES s \in Slot /\ \E m \in 0..Len(k.pending) : DrainTo(k, s, m)
  BY <1>1
<1>2. PICK q : q = k.pending
  OBVIOUS
<1>3. q \in Seq(Cells) /\ Len(q) \in Nat /\ n \in Nat /\ n <= Len(q) /\ k.cells \in [Cells -> Cell]
  BY <1>2 DEF Slot
<1>4. PICK rest : rest = SubSeq(q, n + 1, Len(q))
  OBVIOUS
<1>5. /\ rest \in Seq(Cells) /\ Len(rest) = Len(q) - n
      /\ \A i \in 1..Len(rest) : rest[i] = q[n + i]
  BY <1>3, <1>4
<1>6. PICK refused : refused = ToSet(SubSeq(q, 1, n))
  OBVIOUS
<1>7. \A c \in refused : Left(k, n, c)
  <2>1. /\ Len(SubSeq(q, 1, n)) = n /\ SubSeq(q, 1, n) \in Seq(Cells)
        /\ \A i \in 1..n : SubSeq(q, 1, n)[i] = q[i]
    BY <1>3
  <2> QED BY <1>2, <1>6, <2>1 DEF ToSet, Left
<1>8. PICK f : f = [c \in Cells |-> IF c \in refused
                      THEN [k.cells[c] EXCEPT !.phase = "answered"] ELSE k.cells[c]]
  OBVIOUS
<1>9. /\ f \in [Cells -> Cell]
      /\ \A c \in Cells : \/ f[c] = k.cells[c]
                          \/ Left(k, n, c) /\ f[c] = [k.cells[c] EXCEPT !.phase = "answered"]
  <2>1. \A c \in Cells : f[c] \in Cell
    BY <1>3, <1>8 DEF Cell, Phases
  <2>2. f \in [Cells -> Cell]
    BY <1>8, <2>1
  <2> QED BY <1>7, <1>8, <2>2
<1>10. CASE rest = <<>>
  <2>1. s = [k EXCEPT !.pending = rest, !.cells = f]
    BY <1>1, <1>2, <1>4, <1>6, <1>8, <1>10 DEF HandedOver
  <2>2. s \in Slot
    BY <1>5, <1>9, <2>1 DEF Slot
  <2>3. /\ s.pending = rest /\ s.cells = f /\ s.active = None /\ s.state = "idle"
        /\ s.registered = k.registered /\ s.starting = k.starting
        /\ s.epoch = k.epoch /\ s.process = k.process
    BY <2>1 DEF Slot
  <2>4. \A c \in Cells : c # None
    BY SupervisorAssumption
  <2>5. DrainTo(k, s, n)
    BY <1>2, <1>5, <1>9, <2>3, <2>4 DEF DrainTo
  <2> QED BY <2>2, <2>5
<1>11. CASE rest # <<>>
  <2>1. PICK h \in Cells : h = Head(rest)
    BY <1>5, <1>11
  <2>2. PICK given : given = [f EXCEPT ![h].phase = "running", ![h].process = k.process,
                                       ![h].owed = TRUE, ![h].startEpoch = k.epoch,
                                       ![h].crossed = UnderWay(k)]
    OBVIOUS
  <2>3. s = [k EXCEPT !.pending = Tail(rest), !.state = "busy", !.active = h, !.cells = given]
    <3> DEFINE R == SubSeq(k.pending, n + 1, Len(k.pending))
               F == [c \in Cells |-> IF c \in ToSet(SubSeq(k.pending, 1, n))
                       THEN [k.cells[c] EXCEPT !.phase = "answered"] ELSE k.cells[c]]
               G == [F EXCEPT ![Head(R)].phase = "running", ![Head(R)].process = k.process,
                              ![Head(R)].owed = TRUE, ![Head(R)].startEpoch = k.epoch,
                              ![Head(R)].crossed = UnderWay(k)]
    <3>1. R = rest
      BY <1>2, <1>4
    <3>2. F = f
      BY <1>2, <1>6, <1>8
    <3>3. s = [k EXCEPT !.pending = Tail(R), !.state = "busy", !.active = Head(R), !.cells = G]
      BY <1>1, <1>11, <3>1 DEF HandedOver
    <3> HIDE DEF F
    <3>4. G = [f EXCEPT ![h].phase = "running", ![h].process = k.process,
                        ![h].owed = TRUE, ![h].startEpoch = k.epoch,
                        ![h].crossed = UnderWay(k)]
      BY <2>1, <3>1, <3>2
    <3> HIDE DEF G
    <3>5. G = given
      BY <2>2, <3>4
    <3> HIDE DEF R
    <3> QED BY <2>1, <3>1, <3>3, <3>5
  <2>4. PICK m \in 0..Len(k.pending) : m = n + 1
    BY <1>2, <1>3, <1>5, <1>11
  <2>5. /\ h = q[m] /\ Tail(rest) \in Seq(Cells) /\ Len(Tail(rest)) = Len(q) - m
        /\ \A i \in 1..Len(Tail(rest)) : Tail(rest)[i] = rest[i + 1]
    BY <1>3, <1>5, <1>11, <2>1, <2>4
  <2>6. \A i \in 1..Len(Tail(rest)) : Tail(rest)[i] = q[m + i]
    BY <1>3, <1>5, <2>4, <2>5
  <2>7. /\ given \in [Cells -> Cell]
        /\ given[h] = Handed(f[h], k.process, k.epoch, UnderWay(k))
        /\ \A c \in Cells \ {h} : given[c] = f[c]
    <3>1. PICK p \in Nat, e \in Nat, b \in BOOLEAN :
                 p = k.process /\ e = k.epoch /\ b = UnderWay(k)
      BY DEF Slot, UnderWay, Replacing
    <3>2. f \in [Cells -> Cell]
      BY <1>9
    <3>3. given = HandOver(f, h, p, e, b)
      BY <2>2, <3>1 DEF HandOver
    <3> QED BY <3>1, <3>2, <3>3, HandedCell
  <2>8. given[h] = Handed(k.cells[h], k.process, k.epoch, UnderWay(k))
    <3>1. f[h] = k.cells[h] \/ f[h] = [k.cells[h] EXCEPT !.phase = "answered"]
      BY <1>9
    <3>2. k.cells[h] \in Cell
      BY <1>3
    <3> QED BY <2>7, <3>1, <3>2 DEF Cell, Handed
  <2>9. s \in Slot
    BY <2>1, <2>3, <2>5, <2>7 DEF Slot, States
  <2>10. /\ s.pending = Tail(rest) /\ s.cells = given /\ s.active = h /\ s.state = "busy"
         /\ s.registered = k.registered /\ s.starting = k.starting
         /\ s.epoch = k.epoch /\ s.process = k.process
    BY <2>3 DEF Slot
  <2>11. Left(k, m, h) /\ \A c : Left(k, n, c) => Left(k, m, c)
    BY <1>2, <1>3, <2>4, <2>5 DEF Left
  <2>12. ASSUME NEW c \in Cells \ {h}
         PROVE  \/ s.cells[c] = k.cells[c]
                \/ Left(k, m, c) /\ s.cells[c] = [k.cells[c] EXCEPT !.phase = "answered"]
    BY <1>9, <2>7, <2>10, <2>11
  <2>13. Len(s.pending) = Len(k.pending) - m
         /\ \A i \in 1..Len(s.pending) : s.pending[i] = k.pending[m + i]
    BY <1>2, <2>5, <2>6, <2>10
  <2>14. s.cells[h] = Handed(k.cells[h], k.process, k.epoch, UnderWay(k))
    BY <2>8, <2>10
  <2>15. DrainTo(k, s, m)
    BY <2>10, <2>11, <2>12, <2>13, <2>14 DEF DrainTo
  <2> QED BY <2>9, <2>15
<1> QED BY <1>10, <1>11

LEMMA DrainedIs ==
  ASSUME NEW k \in Slot, NEW s \in Drained(k)
  PROVE  /\ s \in Slot
         /\ s = k \/ \E m \in 0..Len(k.pending) : DrainTo(k, s, m)
BY HandedOverIs DEF Drained

------------------------------------------------------------------------------

\* The queue holds distinct cells that never had a process.
Queued(k) ==
  /\ \A i, j \in 1..Len(k.pending) :
       /\ k.cells[k.pending[i]].phase = "pending"
       /\ i # j => k.pending[i] # k.pending[j]
  /\ \A c \in Cells : k.cells[c].phase \in {"new", "pending"} =>
       k.cells[c].process = 0 /\ ~k.cells[c].owed /\ k.cells[c].previous = 0

OneRuns(k) ==
  \A c \in Cells : /\ k.cells[c].phase = "running" <=> k.active = c
                   /\ k.cells[c].process <= k.process

\* A cell whose process is being replaced under it.
Leaving(k, c) == k.cells[c].previous # 0

\* A cell that is owed by the slot's process.
Holds(k, c) == k.cells[c].owed /\ k.cells[c].process = k.process

\* A cell that was given up, or is about to be, and still in the process.
Stray(k, c) == Holds(k, c) /\ (k.cells[c].phase # "running" \/ Leaving(k, c))

Sealed(k) == k.state \in {"wedged", "closed"}

\* An owner parks no kernel that is wedged or closed, and gives no command to one whose
\* register has not returned.
Careful == ~EarlyCommands /\ Parkable \cap {"wedged", "closed"} = {}

\* With such an owner nothing is handed over beside a stray, nor before the process has
\* started.
Guarded(k) == Careful =>
  /\ \A c \in Cells : Stray(k, c) => Sealed(k)
  /\ \A c, d \in Cells : Holds(k, c) /\ Holds(k, d) => c = d
  /\ k.starting => /\ k.state = "starting" /\ k.active = None
                   /\ \A c \in Cells : ~k.cells[c].owed /\ ~Leaving(k, c)

\* A cell in hand that was handed over with no replacement under way.
Plain(k, c) == k.cells[c].phase \in {"running", "finishing"} /\ ~k.cells[c].crossed

\* Every such cell started under an epoch no later than e.
Before(k, e) == \A c \in Cells : Plain(k, c) => k.cells[c].startEpoch <= e

\* A plain cell whose epoch is still the slot's has the slot's process, unless the
\* slot was closed (z), and every escalation captured an epoch no earlier than its.
Tells(k, z) ==
  /\ \A c \in Cells : Plain(k, c) =>
       /\ k.cells[c].startEpoch <= k.epoch
       /\ k.cells[c].startEpoch = k.epoch => k.cells[c].process = k.process \/ z
  /\ \A c \in Cells : Leaving(k, c) => Before(k, k.cells[c].previous)

\* The inductive invariant of the slot.
SlotInv(k, z) ==
  /\ k \in Slot
  /\ Queued(k) /\ OneRuns(k) /\ Guarded(k) /\ Tells(k, z)

\* Who is answered from k to s, and not told of a restart, has the process still.
AnswersWell(k, s, z) ==
  \A c \in Cells :
    k.cells[c].phase # "answered" /\ s.cells[c].phase = "answered" =>
      \/ k.cells[c].crossed \/ s.cells[c].process = 0 \/ s.cells[c].told
      \/ s.cells[c].process = s.process \/ z

\* What a replacement under way has captured outlives a step from k to s.
KeepsCapture(k, s) ==
  /\ s.starting => k.starting
  /\ \A c \in Cells : s.cells[c].previous = k.cells[c].previous
  /\ UnderWay(k) => \A e : Before(k, e) => Before(s, e)

LEMMA SameWay ==
  ASSUME NEW k, NEW s, \A c \in Cells : s.cells[c].previous = k.cells[c].previous
  PROVE  UnderWay(s) <=> UnderWay(k)
BY DEF UnderWay

\* A drain keeps the slot's invariant, and answers only cells that never ran
\* (kernel-lifecycle.ts drain).
LEMMA DrainKeeps ==
  ASSUME NEW k, NEW z, SlotInv(k, z), NEW s \in Drained(k)
  PROVE  /\ SlotInv(s, z) /\ KeepsCapture(k, s)
         /\ \A c \in Cells : \/ s.cells[c] = k.cells[c]
                             \/ /\ k.cells[c].phase = "pending" /\ s.cells[c].process = 0
                                /\ s.cells[c].phase = "answered"
                             \/ k.cells[c].phase = "pending" /\ s.cells[c].phase = "running"
         /\ s.process = k.process
<1>1. k \in Slot /\ s \in Slot
  BY DrainedIs DEF SlotInv
<1>2. CASE s = k
  BY <1>2 DEF KeepsCapture
<1>3. ASSUME NEW m \in 0..Len(k.pending), DrainTo(k, s, m)
      PROVE  /\ SlotInv(s, z) /\ KeepsCapture(k, s)
             /\ \A c \in Cells : \/ s.cells[c] = k.cells[c]
                                 \/ /\ k.cells[c].phase = "pending" /\ s.cells[c].process = 0
                                    /\ s.cells[c].phase = "answered"
                                 \/ k.cells[c].phase = "pending" /\ s.cells[c].phase = "running"
             /\ s.process = k.process
  <2>1. /\ k.pending \in Seq(Cells) /\ s.pending \in Seq(Cells)
        /\ k.cells \in [Cells -> Cell] /\ s.cells \in [Cells -> Cell]
        /\ Len(k.pending) \in Nat /\ Len(s.pending) \in Nat
        /\ k.process \in Nat /\ k.epoch \in Nat
    BY <1>1 DEF Slot
  <2>2. /\ k.registered /\ k.active = None /\ k.state = "idle"
        /\ s.registered = k.registered /\ s.starting = k.starting
        /\ s.epoch = k.epoch /\ s.process = k.process
        /\ s.state \in {"idle", "busy"}
    BY <1>3 DEF DrainTo
  <2>3. \A c \in Cells : Left(k, m, c) => /\ k.cells[c].phase = "pending" /\ k.cells[c].process = 0
                                         /\ ~k.cells[c].owed /\ k.cells[c].previous = 0
    <3>1. \A i \in 1..m : i \in 1..Len(k.pending)
      BY <2>1
    <3> QED BY <3>1 DEF Left, SlotInv, Queued
  <2>4. ASSUME NEW c \in Cells
        PROVE  \/ s.cells[c] = k.cells[c] /\ c # s.active
               \/ /\ Left(k, m, c) /\ c # s.active /\ s.cells[c].phase = "answered"
                  /\ s.cells[c].process = 0 /\ ~s.cells[c].owed
                  /\ s.cells[c].previous = k.cells[c].previous
               \/ /\ Left(k, m, c) /\ c = s.active /\ s.cells[c].phase = "running"
                  /\ s.cells[c].process = k.process /\ s.cells[c].owed
                  /\ s.cells[c].previous = k.cells[c].previous
                  /\ s.cells[c].startEpoch = k.epoch
                  /\ s.cells[c].crossed = UnderWay(k)
    <3>1. k.cells[c] \in Cell
      BY <2>1
    <3>2. s.active = c => Left(k, m, c)
      BY <1>3, SupervisorAssumption DEF DrainTo
    <3>3. CASE s.cells[c] = k.cells[c] /\ c # s.active
      BY <3>3
    <3>4. CASE /\ Left(k, m, c) /\ c # s.active
               /\ s.cells[c] = [k.cells[c] EXCEPT !.phase = "answered"]
      BY <2>3, <3>1, <3>4 DEF Cell
    <3>5. CASE c = s.active /\ s.cells[c] = Handed(k.cells[c], k.process, k.epoch, UnderWay(k))
      <4>1. PICK b \in BOOLEAN : b = UnderWay(k)
        BY DEF UnderWay, Replacing
      <4>2. s.cells[c] = Handed(k.cells[c], k.process, k.epoch, b)
        BY <3>5, <4>1
      <4>3. /\ s.cells[c].phase = "running" /\ s.cells[c].process = k.process
            /\ s.cells[c].owed /\ s.cells[c].previous = k.cells[c].previous
            /\ s.cells[c].startEpoch = k.epoch /\ s.cells[c].crossed = b
        BY <2>1, <3>1, <4>2 DEF Cell, Handed
      <4> QED BY <3>2, <3>5, <4>1, <4>3
    <3> QED BY <1>3, <3>3, <3>4, <3>5 DEF DrainTo
  <2>5. s.active \in Cells \cup {None}
    BY <1>1 DEF Slot
  <2>6. \A c \in Cells : /\ k.cells[c].phase # "running" /\ k.cells[c].process <= k.process
                         /\ s.cells[c].previous = k.cells[c].previous
    BY <2>2, <2>4, SupervisorAssumption DEF SlotInv, OneRuns
  <2>7. Guarded(s)
    <3> SUFFICES ASSUME Careful
                 PROVE  /\ \A c \in Cells : Stray(s, c) => Sealed(s)
                        /\ \A c, d \in Cells : Holds(s, c) /\ Holds(s, d) => c = d
                        /\ ~s.starting
      BY DEF Guarded
    <3>1. ~Sealed(k) /\ ~k.starting
      BY <2>2 DEF SlotInv, Guarded, Sealed
    <3>2. \A c \in Cells : ~Holds(k, c)
      BY <2>6, <3>1 DEF SlotInv, Guarded, Stray
    <3>3. \A c \in Cells : Holds(s, c) => c = s.active /\ s.cells[c].phase = "running"
                                          /\ Left(k, m, c)
      BY <2>2, <2>4, <3>2 DEF Holds
    <3>4. \A c \in Cells : ~Stray(s, c)
      BY <2>3, <2>6, <3>3 DEF Stray, Leaving
    <3> QED BY <2>2, <3>1, <3>3, <3>4
  <2>8. OneRuns(s)
    BY <2>1, <2>2, <2>4, <2>6 DEF OneRuns
  <2>9. ASSUME NEW c \in Cells, Plain(s, c)
        PROVE  \/ Plain(k, c) /\ s.cells[c] = k.cells[c]
               \/ /\ s.cells[c].startEpoch = k.epoch /\ s.cells[c].process = k.process
                  /\ ~UnderWay(k)
    BY <2>4, <2>9 DEF Plain
  <2>10. UnderWay(k) => \A e : Before(k, e) => Before(s, e)
    BY <2>9 DEF Before
  <2>11. Tells(s, z)
    <3>1. \A c \in Cells : Plain(s, c) =>
            /\ s.cells[c].startEpoch <= s.epoch
            /\ s.cells[c].startEpoch = s.epoch => s.cells[c].process = s.process \/ z
      BY <2>1, <2>2, <2>9 DEF Tells, SlotInv
    <3>2. ASSUME NEW c \in Cells, Leaving(s, c) PROVE Before(s, s.cells[c].previous)
      <4>1. Leaving(k, c) /\ s.cells[c].previous = k.cells[c].previous
        BY <2>6, <3>2 DEF Leaving
      <4>2. UnderWay(k)
        BY <4>1 DEF Leaving, UnderWay
      <4> QED BY <2>10, <4>1, <4>2 DEF Tells, SlotInv
    <3> QED BY <3>1, <3>2 DEF Tells
  <2>12. Queued(s)
    <3>1. ASSUME NEW i \in 1..Len(s.pending)
          PROVE  /\ m + i \in 1..Len(k.pending) /\ s.pending[i] = k.pending[m + i]
                 /\ s.pending[i] \in Cells /\ ~Left(k, m, s.pending[i])
                 /\ k.cells[s.pending[i]].phase = "pending"
      <4>1. /\ m + i \in 1..Len(k.pending) /\ s.pending[i] = k.pending[m + i]
            /\ s.pending[i] \in Cells
        <5>1. Len(s.pending) = Len(k.pending) - m /\ s.pending[i] = k.pending[m + i]
          BY <1>3 DEF DrainTo
        <5>2. m + i \in 1..Len(k.pending)
          BY <2>1, <5>1
        <5>3. s.pending[i] \in Cells
          BY <2>1
        <5> QED BY <5>1, <5>2, <5>3
      <4>2. \A j \in 1..m : j \in 1..Len(k.pending) /\ j # m + i
        BY <2>1
      <4>3. \A j \in 1..m : k.pending[j] # k.pending[m + i]
        BY <4>1, <4>2 DEF SlotInv, Queued
      <4> QED BY <4>1, <4>3 DEF Left, SlotInv, Queued
    <3>2. ASSUME NEW i \in 1..Len(s.pending), NEW j \in 1..Len(s.pending), i # j
          PROVE  s.pending[i] # s.pending[j]
      <4>1. m + i # m + j
        BY <2>1, <3>2
      <4> QED BY <3>1, <4>1 DEF SlotInv, Queued
    <3>3. \A i \in 1..Len(s.pending) : s.cells[s.pending[i]].phase = "pending"
      BY <2>4, <3>1
    <3>4. ASSUME NEW c \in Cells, s.cells[c].phase \in {"new", "pending"}
          PROVE  s.cells[c].process = 0 /\ ~s.cells[c].owed /\ s.cells[c].previous = 0
      BY <2>4, <3>4 DEF SlotInv, Queued
    <3> QED BY <3>2, <3>3, <3>4 DEF Queued
  <2>13. SlotInv(s, z)
    BY <1>1, <2>7, <2>8, <2>11, <2>12 DEF SlotInv
  <2> QED BY <2>2, <2>3, <2>4, <2>6, <2>10, <2>13 DEF KeepsCapture
<1> QED BY <1>1, <1>2, <1>3, DrainedIs

------------------------------------------------------------------------------

\* Nothing but cell c, the active cell and the state differs between k and p.
OnlyCell(k, p, c) ==
  /\ p \in Slot
  /\ p.registered = k.registered /\ p.starting = k.starting /\ p.pending = k.pending
  /\ p.epoch = k.epoch /\ p.process = k.process
  /\ \A d \in Cells \ {c} : p.cells[d] = k.cells[d]

\* Updating one cell of a slot (the pending cell records of kernel-lifecycle.ts).
LEMMA CellSet ==
  ASSUME NEW k \in Slot, NEW c \in Cells, NEW x \in Cell, NEW p,
         p = [k EXCEPT !.cells[c] = x]
  PROVE  /\ OnlyCell(k, p, c) /\ p.cells[c] = x
         /\ p.active = k.active /\ p.state = k.state
<1>1. k.cells \in [Cells -> Cell]
  BY DEF Slot
<1>2. PICK f : f = [k.cells EXCEPT ![c] = x]
  OBVIOUS
<1>3. f \in [Cells -> Cell] /\ f[c] = x /\ \A d \in Cells \ {c} : f[d] = k.cells[d]
  BY <1>1, <1>2
<1>4. p = [k EXCEPT !.cells = f]
  BY <1>2
<1>5. p \in Slot /\ p.cells = f
  BY <1>3, <1>4 DEF Slot
<1>6. /\ p.registered = k.registered /\ p.starting = k.starting /\ p.pending = k.pending
      /\ p.epoch = k.epoch /\ p.process = k.process
      /\ p.active = k.active /\ p.state = k.state
  BY <1>4 DEF Slot
<1> QED BY <1>3, <1>5, <1>6 DEF OnlyCell

WithCell(k, c, x) == [k EXCEPT !.cells[c] = x]

LEMMA WithCellIs ==
  ASSUME NEW k \in Slot, NEW c \in Cells, NEW x \in Cell
  PROVE  /\ OnlyCell(k, WithCell(k, c, x), c) /\ WithCell(k, c, x).cells[c] = x
         /\ WithCell(k, c, x).active = k.active /\ WithCell(k, c, x).state = k.state
<1>1. PICK p : p = [k EXCEPT !.cells[c] = x]
  OBVIOUS
<1>2. k \in Slot /\ c \in Cells /\ x \in Cell /\ k.cells \in [Cells -> Cell]
  BY DEF Slot
<1>3. OnlyCell(k, p, c) /\ p.cells[c] = x /\ p.active = k.active /\ p.state = k.state
  BY <1>1, <1>2, CellSet
<1>4. p = WithCell(k, c, x)
  BY <1>1 DEF WithCell
<1> QED BY <1>3, <1>4

\* Freed: the cell is over, and the slot is idle unless it is sealed.
LEMMA FreedIs ==
  ASSUME NEW k \in Slot, NEW c \in Cells
  PROVE  /\ OnlyCell(k, Freed(k, c), c)
         /\ Freed(k, c).active = (IF k.active = c THEN None ELSE k.active)
         /\ Freed(k, c).state = (IF Sealed(k) THEN k.state ELSE "idle")
         /\ Freed(k, c).cells[c] = [k.cells[c] EXCEPT !.phase = "finishing", !.grace = "none"]
<1>1. PICK x : x = [k.cells[c] EXCEPT !.phase = "finishing", !.grace = "none"]
  OBVIOUS
<1>2. k.cells[c] \in Cell /\ x \in Cell
  BY <1>1 DEF Slot, Cell, Phases
<1>3. PICK a : a = IF k.active = c THEN None ELSE k.active
  OBVIOUS
<1>4. PICK t : t = IF Sealed(k) THEN k.state ELSE "idle"
  OBVIOUS
<1>5. PICK j : j = [k EXCEPT !.active = a, !.state = t]
  OBVIOUS
<1>6. a \in Cells \cup {None} /\ t \in States
  BY <1>3, <1>4 DEF Slot, States
<1>7. /\ j \in Slot /\ j.active = a /\ j.state = t /\ j.cells = k.cells
      /\ j.registered = k.registered /\ j.starting = k.starting /\ j.pending = k.pending
      /\ j.epoch = k.epoch /\ j.process = k.process
  BY <1>5, <1>6 DEF Slot
<1>8. PICK s : s = [j EXCEPT !.cells[c] = x]
  OBVIOUS
<1>9. OnlyCell(j, s, c) /\ s.cells[c] = x /\ s.active = a /\ s.state = t
  BY <1>2, <1>7, <1>8, CellSet
<1>10. Freed(k, c) = s
  <2>1. Freed(k, c) = [k EXCEPT !.active = a, !.state = t,
                                !.cells[c] = [k.cells[c] EXCEPT !.phase = "finishing",
                                                                !.grace = "none"]]
    BY <1>3, <1>4 DEF Freed, Sealed, Slot
  <2> QED BY <1>1, <1>5, <1>7, <1>8, <2>1 DEF Slot
<1> QED BY <1>1, <1>3, <1>4, <1>7, <1>9, <1>10 DEF OnlyCell

\* The running cell c is over in p: answered, or its spill still to be written.
Ended(k, p, c) ==
  /\ OnlyCell(k, p, c) /\ p.active = None
  /\ p.state = (IF Sealed(k) THEN k.state ELSE "idle")
  /\ p.cells[c].phase \in {"finishing", "answered"}
  /\ p.cells[c].owed = k.cells[c].owed /\ p.cells[c].process = k.cells[c].process
  /\ p.cells[c].previous = k.cells[c].previous
  /\ p.cells[c].startEpoch = k.cells[c].startEpoch
  /\ p.cells[c].crossed = k.cells[c].crossed
  /\ p.cells[c].phase = "answered" => p.cells[c].told = (k.epoch # k.cells[c].startEpoch)

\* What finishCell makes of a cell before it drains the queue.
Resolved(k, c) == [k EXCEPT !.cells[c].phase = "answered",
                            !.cells[c].told = k.epoch # k.cells[c].startEpoch]

LEMMA ResolvedIs ==
  ASSUME NEW k \in Slot, NEW c \in Cells
  PROVE  /\ OnlyCell(k, Resolved(k, c), c)
         /\ Resolved(k, c).active = k.active /\ Resolved(k, c).state = k.state
         /\ LET x == Resolved(k, c).cells[c]
            IN /\ x.phase = "answered" /\ x.owed = k.cells[c].owed
               /\ x.process = k.cells[c].process /\ x.previous = k.cells[c].previous
               /\ x.startEpoch = k.cells[c].startEpoch /\ x.crossed = k.cells[c].crossed
               /\ x.told = (k.epoch # k.cells[c].startEpoch)
<1>1. PICK b \in BOOLEAN : b = (k.epoch # k.cells[c].startEpoch)
  OBVIOUS
<1>2. PICK x : x = [k.cells[c] EXCEPT !.phase = "answered", !.told = b]
  OBVIOUS
<1>3. k.cells[c] \in Cell /\ x \in Cell
  BY <1>2 DEF Slot, Cell, Phases
<1>4. PICK p : p = [k EXCEPT !.cells[c] = x]
  OBVIOUS
<1>5. OnlyCell(k, p, c) /\ p.cells[c] = x /\ p.active = k.active /\ p.state = k.state
  BY <1>3, <1>4, CellSet
<1>6. Resolved(k, c) = p
  <2>1. Resolved(k, c) = [k EXCEPT !.cells[c].phase = "answered", !.cells[c].told = b]
    BY <1>1 DEF Resolved
  <2>2. @ = [k EXCEPT !.cells[c] = [k.cells[c] EXCEPT !.phase = "answered", !.told = b]]
    BY DEF Slot
  <2> QED BY <1>2, <1>4, <2>1, <2>2
<1>7. /\ x.phase = "answered" /\ x.owed = k.cells[c].owed
      /\ x.process = k.cells[c].process /\ x.previous = k.cells[c].previous
      /\ x.startEpoch = k.cells[c].startEpoch /\ x.told = b
      /\ x.crossed = k.cells[c].crossed
  BY <1>2, <1>3 DEF Cell
<1> QED BY <1>1, <1>5, <1>6, <1>7

LEMMA SettledIs ==
  ASSUME NEW k \in Slot, NEW c \in Cells, NEW s \in SettledSlot(k, c),
         k.cells[c].phase = "running", k.active = c
  PROVE  \E p : Ended(k, p, c) /\ (s = p \/ s \in Drained(p))
<1>1. PICK f : f = Freed(k, c)
  OBVIOUS
<1>2. /\ OnlyCell(k, f, c) /\ f.active = None /\ f \in Slot
      /\ f.state = (IF Sealed(k) THEN k.state ELSE "idle")
      /\ f.cells[c] = [k.cells[c] EXCEPT !.phase = "finishing", !.grace = "none"]
  BY <1>1, FreedIs DEF OnlyCell
<1>3. k.cells[c] \in Cell
  BY DEF Slot
<1>4. Ended(k, f, c)
  BY <1>2, <1>3 DEF Ended, Cell
<1>5. CASE s = f
  BY <1>4, <1>5
<1>6. CASE s \in Finished(f, c)
  <2>1. PICK p : p = Resolved(f, c)
    OBVIOUS
  <2>2. /\ OnlyCell(f, p, c) /\ p.active = None /\ p.state = f.state
        /\ p.cells[c].phase = "answered" /\ p.cells[c].owed = f.cells[c].owed
        /\ p.cells[c].process = f.cells[c].process
        /\ p.cells[c].previous = f.cells[c].previous
        /\ p.cells[c].startEpoch = f.cells[c].startEpoch
        /\ p.cells[c].crossed = f.cells[c].crossed
        /\ p.cells[c].told = (f.epoch # f.cells[c].startEpoch)
    BY <1>2, <2>1, ResolvedIs
  <2>4. /\ f.cells[c].startEpoch = k.cells[c].startEpoch /\ f.cells[c].owed = k.cells[c].owed
        /\ f.cells[c].process = k.cells[c].process
        /\ f.cells[c].previous = k.cells[c].previous
        /\ f.cells[c].crossed = k.cells[c].crossed
    BY <1>2, <1>3 DEF Cell
  <2>6. Ended(k, p, c)
    BY <1>2, <2>2, <2>4 DEF Ended, OnlyCell
  <2>7. s \in Drained(p)
    BY <1>6, <2>1 DEF Finished, Resolved
  <2> QED BY <2>6, <2>7
<1> QED BY <1>1, <1>5, <1>6 DEF SettledSlot

\* A cell that ends keeps the slot's invariant, if it leaves no stray or leaves it in a
\* sealed slot (settle).
LEMMA EndedKeeps ==
  ASSUME NEW k, NEW z, SlotInv(k, z), NEW c \in Cells, k.cells[c].phase = "running",
         NEW p, Ended(k, p, c), Careful => ~Holds(k, c) \/ Sealed(k)
  PROVE  SlotInv(p, z) /\ AnswersWell(k, p, z) /\ KeepsCapture(k, p) /\ p.process = k.process
<1> USE DEF SlotInv
<1>1. /\ p \in Slot /\ p.active = None
      /\ p.registered = k.registered /\ p.starting = k.starting /\ p.pending = k.pending
      /\ p.epoch = k.epoch /\ p.process = k.process
      /\ \A d \in Cells \ {c} : p.cells[d] = k.cells[d]
      /\ Sealed(k) => p.state = k.state
  BY DEF Ended, OnlyCell
<1>2. /\ p.cells[c].phase \in {"finishing", "answered"}
      /\ p.cells[c].owed = k.cells[c].owed /\ p.cells[c].process = k.cells[c].process
      /\ p.cells[c].previous = k.cells[c].previous
      /\ p.cells[c].startEpoch = k.cells[c].startEpoch
      /\ p.cells[c].crossed = k.cells[c].crossed
      /\ p.cells[c].phase = "answered" => p.cells[c].told = (k.epoch # k.cells[c].startEpoch)
  BY DEF Ended
<1>3. k.active = c /\ c # None
  BY SupervisorAssumption DEF OneRuns
<1>4. \A d \in Cells : /\ p.cells[d].previous = k.cells[d].previous
                       /\ Holds(p, d) <=> Holds(k, d)
                       /\ Plain(p, d) => Plain(k, d)
                       /\ p.cells[d].startEpoch = k.cells[d].startEpoch
                       /\ p.cells[d].process = k.cells[d].process
                       /\ d # c => (Stray(p, d) <=> Stray(k, d))
  BY <1>1, <1>2 DEF Holds, Stray, Leaving, Plain
<1>5. Queued(p)
  <2>1. \A i \in 1..Len(k.pending) : k.pending[i] \in Cells
    BY <1>1 DEF Slot
  <2> QED BY <1>1, <1>2, <2>1 DEF Queued
<1>6. OneRuns(p)
  BY <1>1, <1>2, <1>3, SupervisorAssumption DEF OneRuns
<1>7. Guarded(p)
  <2> SUFFICES ASSUME Careful
               PROVE  /\ \A d \in Cells : Stray(p, d) => Sealed(p)
                      /\ \A d, e \in Cells : Holds(p, d) /\ Holds(p, e) => d = e
                      /\ ~p.starting
    BY DEF Guarded
  <2>1. Sealed(k) => Sealed(p)
    BY <1>1 DEF Sealed
  <2>2. ~k.starting
    BY <1>3 DEF Guarded
  <2>3. \A d \in Cells : Stray(p, d) => Sealed(k)
    BY <1>4 DEF Guarded, Stray
  <2> QED BY <1>1, <1>4, <2>1, <2>2, <2>3 DEF Guarded
<1>8. \A e : Before(k, e) => Before(p, e)
  BY <1>4 DEF Before
<1>9. Tells(p, z)
  BY <1>1, <1>4, <1>8 DEF Tells, Leaving
<1>10. AnswersWell(k, p, z)
  <2>1. \/ k.cells[c].crossed \/ k.epoch # k.cells[c].startEpoch
        \/ k.cells[c].process = k.process \/ z
    BY DEF Tells, Plain
  <2> QED BY <1>1, <1>2, <2>1 DEF AnswersWell
<1> QED BY <1>1, <1>4, <1>5, <1>6, <1>7, <1>8, <1>9, <1>10 DEF KeepsCapture

------------------------------------------------------------------------------

\* A step from k to s that keeps the invariant and what was captured, and answers
\* nobody wrongly.
Good(k, s, z) == SlotInv(s, z) /\ AnswersWell(k, s, z) /\ KeepsCapture(k, s)

LEMMA KeepsOn ==
  ASSUME NEW k, NEW p, NEW s, KeepsCapture(k, p), KeepsCapture(p, s)
  PROVE  KeepsCapture(k, s)
<1>1. UnderWay(p) <=> UnderWay(k)
  BY SameWay DEF KeepsCapture
<1> QED BY <1>1 DEF KeepsCapture

LEMMA DrainAfter ==
  ASSUME NEW k, NEW p, NEW z, Good(k, p, z), NEW s \in Drained(p)
  PROVE  Good(k, s, z)
<1>1. /\ SlotInv(p, z) /\ SlotInv(s, z) /\ KeepsCapture(p, s) /\ s.process = p.process
      /\ \A c \in Cells : \/ s.cells[c] = p.cells[c]
                          \/ s.cells[c].process = 0
                          \/ s.cells[c].phase = "running"
  BY DrainKeeps DEF Good
<1>2. AnswersWell(k, s, z)
  BY <1>1 DEF AnswersWell, Good
<1> QED BY <1>1, <1>2, KeepsOn DEF Good

\* A cell whose phase stays, or that is refused or loses its result, and that is owed
\* no more than before.
LEMMA CellKeeps ==
  ASSUME NEW k, NEW z, SlotInv(k, z), NEW c \in Cells, NEW p, OnlyCell(k, p, c),
         p.active = k.active, p.state = k.state,
         p.cells[c].process = k.cells[c].process, p.cells[c].previous = k.cells[c].previous,
         p.cells[c].startEpoch = k.cells[c].startEpoch,
         p.cells[c].crossed = k.cells[c].crossed,
         p.cells[c].owed \in BOOLEAN, p.cells[c].owed => k.cells[c].owed,
         \/ p.cells[c].phase = k.cells[c].phase
         \/ k.cells[c].phase \in {"new", "finishing"} /\ p.cells[c].phase \in {"refused", "lost"}
  PROVE  Good(k, p, z)
<1> USE DEF SlotInv
<1>1. /\ p \in Slot
      /\ p.registered = k.registered /\ p.starting = k.starting /\ p.pending = k.pending
      /\ p.epoch = k.epoch /\ p.process = k.process
      /\ \A d \in Cells \ {c} : p.cells[d] = k.cells[d]
  BY DEF OnlyCell
<1>2. \A d \in Cells : /\ p.cells[d].previous = k.cells[d].previous
                       /\ p.cells[d].owed => k.cells[d].owed
                       /\ Holds(p, d) => Holds(k, d)
                       /\ Stray(p, d) => Stray(k, d)
                       /\ Plain(p, d) => Plain(k, d)
                       /\ p.cells[d].startEpoch = k.cells[d].startEpoch
                       /\ p.cells[d].process = k.cells[d].process
  BY <1>1 DEF Leaving, Holds, Stray, Plain
<1>3. Queued(p)
  <2>1. \A i \in 1..Len(k.pending) : k.pending[i] \in Cells
    BY <1>1 DEF Slot
  <2> QED BY <1>1, <2>1 DEF Queued
<1>4. OneRuns(p)
  BY <1>1 DEF OneRuns
<1>5. Guarded(p)
  BY <1>1, <1>2 DEF Guarded, Sealed, Leaving
<1>6. \A e : Before(k, e) => Before(p, e)
  BY <1>2 DEF Before
<1>7. Tells(p, z)
  BY <1>1, <1>2, <1>6 DEF Tells, Leaving
<1>8. AnswersWell(k, p, z)
  BY <1>1 DEF AnswersWell
<1> QED BY <1>1, <1>2, <1>3, <1>4, <1>5, <1>6, <1>7, <1>8 DEF Good, KeepsCapture

\* A slot only changes its state, or is started: nothing is handed over beside a stray.
LEMMA StateKeeps ==
  ASSUME NEW k, NEW z, SlotInv(k, z), NEW p \in Slot,
         p.registered = k.registered, p.pending = k.pending, p.active = k.active,
         p.epoch = k.epoch, p.process = k.process, p.cells = k.cells,
         ~p.starting \/ p = k \/ (~Careful /\ p.starting = k.starting),
         Careful => Sealed(p) \/ \A c \in Cells : ~Stray(k, c)
  PROVE  Good(k, p, z)
<1> USE DEF SlotInv
<1>1. \A d \in Cells : /\ Holds(p, d) <=> Holds(k, d)
                       /\ Stray(p, d) <=> Stray(k, d)
                       /\ Plain(p, d) <=> Plain(k, d)
                       /\ Leaving(p, d) <=> Leaving(k, d)
  BY DEF Leaving, Holds, Stray, Plain
<1>2. Guarded(p)
  BY <1>1 DEF Guarded
<1>3. Queued(p) /\ OneRuns(p)
  BY DEF Queued, OneRuns
<1>4. \A e : Before(k, e) <=> Before(p, e)
  BY <1>1 DEF Before
<1>5. Tells(p, z)
  BY <1>1, <1>4 DEF Tells
<1>6. AnswersWell(k, p, z)
  BY DEF AnswersWell
<1> QED BY <1>2, <1>3, <1>4, <1>5, <1>6 DEF Good, KeepsCapture

LEMMA SetState ==
  ASSUME NEW k \in Slot, NEW t \in States, NEW p, p = [k EXCEPT !.state = t]
  PROVE  /\ p \in Slot /\ p.state = t
         /\ p.registered = k.registered /\ p.starting = k.starting /\ p.pending = k.pending
         /\ p.active = k.active /\ p.epoch = k.epoch /\ p.process = k.process
         /\ p.cells = k.cells
BY DEF Slot

\* A settlement of a cell (settle), when it leaves no stray outside a sealed slot.
LEMMA SettleKeeps ==
  ASSUME NEW k, NEW z, SlotInv(k, z), NEW c \in Cells, NEW s \in SettledSlot(k, c),
         Careful => ~Holds(k, c) \/ Sealed(k)
  PROVE  Good(k, s, z) /\ s.process = k.process
<1>1. CASE k.cells[c].phase # "running"
  BY <1>1 DEF SettledSlot, Good, KeepsCapture, AnswersWell
<1>2. CASE k.cells[c].phase = "running"
  <2>1. k \in Slot /\ k.active = c
    BY <1>2 DEF SlotInv, OneRuns
  <2>2. PICK p : Ended(k, p, c) /\ (s = p \/ s \in Drained(p))
    BY <1>2, <2>1, SettledIs
  <2>3. Good(k, p, z) /\ p.process = k.process
    BY <1>2, <2>2, EndedKeeps DEF Good
  <2>4. s \in Drained(p) => s.process = p.process
    BY <2>3, DrainKeeps DEF Good
  <2> QED BY <2>2, <2>3, <2>4, DrainAfter
<1> QED BY <1>1, <1>2

------------------------------------------------------------------------------

Shutting == closing = "closed"

\* The replacement and the eviction under way captured epochs no earlier than those of
\* the plain cells, and a careful owner waits for register.
CommandInv ==
  /\ Replacing => Before(slot, command.previous)
  /\ sweep.stage = "evicting" => Before(slot, sweep.previous)
  /\ Careful /\ slot.starting => command = NoCommand /\ closing = "no" /\ sweep = NoSweep

SupInv == SlotInv(slot, Shutting) /\ CommandInv


\* register resolves when nothing has been handed over yet (register).
LEMMA StartedStep ==
  ASSUME SupInv, Started
  PROVE  Good(slot, slot', Shutting)
<1>1. SlotInv(slot, Shutting) /\ slot \in Slot /\ slot.starting /\ Guarded(slot)
  BY DEF SupInv, SlotInv, Started
<1>2. /\ slot' \in Slot /\ ~slot'.starting
      /\ slot'.registered = slot.registered /\ slot'.pending = slot.pending
      /\ slot'.active = slot.active /\ slot'.epoch = slot.epoch
      /\ slot'.process = slot.process /\ slot'.cells = slot.cells
  <2>1. CASE slot' = [slot EXCEPT !.starting = FALSE, !.state = "idle"]
    BY <1>1, <2>1 DEF Slot, States
  <2>2. CASE slot' = [slot EXCEPT !.starting = FALSE]
    BY <1>1, <2>2 DEF Slot, States
  <2> QED BY <2>1, <2>2 DEF Started
<1>3. Careful => \A c \in Cells : ~Stray(slot, c)
  BY <1>1 DEF Guarded, Stray, Holds
<1> QED BY <1>1, <1>2, <1>3, StateKeeps

\* A new cell is refused, or queued and drained (runCell).
LEMMA RunCellStep ==
  ASSUME SupInv, NEW c \in Cells, RunCell(c)
  PROVE  Good(slot, slot', Shutting)
<1>1. /\ SlotInv(slot, Shutting)
      /\ slot \in Slot /\ slot.cells[c].phase = "new" /\ slot.cells[c] \in Cell
      /\ slot.cells[c].process = 0 /\ ~slot.cells[c].owed /\ slot.cells[c].previous = 0
  BY DEF SupInv, SlotInv, RunCell, Slot, Queued
<1>2. CASE slot' = [slot EXCEPT !.cells[c].phase = "refused"]
  <2>1. PICK x : x = [slot.cells[c] EXCEPT !.phase = "refused"]
    OBVIOUS
  <2>2. /\ x \in Cell /\ x.phase = "refused" /\ x.process = slot.cells[c].process
        /\ x.previous = slot.cells[c].previous /\ x.startEpoch = slot.cells[c].startEpoch
        /\ x.owed = slot.cells[c].owed /\ x.crossed = slot.cells[c].crossed
    BY <1>1, <2>1 DEF Cell, Phases
  <2>3. slot' = [slot EXCEPT !.cells[c] = x]
    BY <1>2, <2>1
  <2>4. /\ OnlyCell(slot, slot', c) /\ slot'.cells[c] = x
        /\ slot'.active = slot.active /\ slot'.state = slot.state
    BY <1>1, <2>2, <2>3, CellSet
  <2>5. slot'.cells[c].owed \in BOOLEAN
    BY <2>2, <2>4 DEF Cell
  <2> QED BY <1>1, <2>2, <2>4, <2>5, CellKeeps
<1>3. CASE ~(slot' = [slot EXCEPT !.cells[c].phase = "refused"])
  <2>1. PICK p : p = [slot EXCEPT !.pending = Append(@, c), !.cells[c].phase = "pending"]
    OBVIOUS
  <2>2. slot' = p \/ slot' \in Drained(p)
    BY <1>3, <2>1 DEF RunCell
  <2>3. PICK x : x = [slot.cells[c] EXCEPT !.phase = "pending"]
    OBVIOUS
  <2>4. /\ x \in Cell /\ x.phase = "pending" /\ x.process = 0 /\ ~x.owed
        /\ x.previous = 0 /\ x.startEpoch = slot.cells[c].startEpoch
        /\ x.crossed = slot.cells[c].crossed
    BY <1>1, <2>3 DEF Cell, Phases
  <2>5. PICK q : q = Append(slot.pending, c)
    OBVIOUS
  <2>6. /\ q \in Seq(Cells) /\ Len(q) = Len(slot.pending) + 1 /\ q[Len(q)] = c
        /\ Len(slot.pending) \in Nat
        /\ \A i \in 1..Len(slot.pending) : q[i] = slot.pending[i] /\ slot.pending[i] \in Cells
    BY <1>1, <2>5 DEF Slot
  <2>7. PICK f : f = [slot.cells EXCEPT ![c] = x]
    OBVIOUS
  <2>8. f \in [Cells -> Cell] /\ f[c] = x /\ \A d \in Cells \ {c} : f[d] = slot.cells[d]
    <3>1. slot.cells \in [Cells -> Cell]
      BY <1>1 DEF Slot
    <3> QED BY <2>4, <2>7, <3>1
  <2>9. p = [slot EXCEPT !.pending = q, !.cells[c] = x]
    BY <2>1, <2>3, <2>5
  <2>10. p = [slot EXCEPT !.pending = q, !.cells = f]
    BY <2>7, <2>9
  <2>11. /\ p \in Slot /\ p.pending = q /\ p.cells[c] = x
         /\ p.registered = slot.registered /\ p.starting = slot.starting
         /\ p.active = slot.active /\ p.state = slot.state
         /\ p.epoch = slot.epoch /\ p.process = slot.process
         /\ \A d \in Cells \ {c} : p.cells[d] = slot.cells[d]
    <3>1. /\ p \in Slot /\ p.pending = q /\ p.cells = f
          /\ p.registered = slot.registered /\ p.starting = slot.starting
          /\ p.active = slot.active /\ p.state = slot.state
          /\ p.epoch = slot.epoch /\ p.process = slot.process
      BY <1>1, <2>6, <2>8, <2>10 DEF Slot
    <3> QED BY <2>8, <3>1
  <2>12. Queued(p)
    <3>1. \A i \in 1..Len(slot.pending) :
            /\ slot.cells[slot.pending[i]].phase = "pending" /\ slot.pending[i] # c
      BY <1>1 DEF SlotInv, Queued
    <3>2. \A i \in 1..Len(q) : \/ i = Len(q) /\ q[i] = c
                              \/ /\ i \in 1..Len(slot.pending) /\ q[i] = slot.pending[i]
                                 /\ q[i] \in Cells \ {c}
      BY <2>6, <3>1
    <3>3. \A i, l \in 1..Len(q) : i # l => q[i] # q[l]
      BY <1>1, <3>2 DEF SlotInv, Queued
    <3>4. \A i \in 1..Len(q) : p.cells[q[i]].phase = "pending"
      BY <2>4, <2>11, <3>1, <3>2
    <3>5. \A d \in Cells : p.cells[d].phase \in {"new", "pending"} =>
            p.cells[d].process = 0 /\ ~p.cells[d].owed /\ p.cells[d].previous = 0
      BY <1>1, <2>4, <2>11 DEF SlotInv, Queued
    <3> QED BY <2>11, <3>3, <3>4, <3>5 DEF Queued
  <2>13. OneRuns(p)
    BY <1>1, <2>4, <2>11 DEF OneRuns, SlotInv
  <2>14. \A d \in Cells : /\ p.cells[d].previous = slot.cells[d].previous
                          /\ p.cells[d].owed => slot.cells[d].owed
                          /\ Holds(p, d) => Holds(slot, d)
                          /\ Stray(p, d) => Stray(slot, d)
                          /\ Plain(p, d) => Plain(slot, d)
                          /\ p.cells[d].startEpoch = slot.cells[d].startEpoch
                          /\ p.cells[d].process = slot.cells[d].process
    BY <1>1, <2>4, <2>11 DEF Leaving, Holds, Stray, Plain
  <2>15. Guarded(p)
    BY <1>1, <2>11, <2>14 DEF Guarded, Sealed, SlotInv, Leaving
  <2>16. \A e : Before(slot, e) => Before(p, e)
    BY <2>11, <2>14 DEF Before
  <2>17. Tells(p, Shutting)
    BY <1>1, <2>11, <2>14, <2>16 DEF Tells, SlotInv, Leaving
  <2>18. AnswersWell(slot, p, Shutting)
    BY <2>4, <2>11 DEF AnswersWell
  <2>19. Good(slot, p, Shutting)
    BY <2>11, <2>12, <2>13, <2>14, <2>15, <2>16, <2>17, <2>18
       DEF Good, KeepsCapture, SlotInv
  <2> QED BY <2>2, <2>19, DrainAfter
<1> QED BY <1>2, <1>3

\* The transport settles a cell, running or given up (settle).
LEMMA TransportStep ==
  ASSUME SupInv, NEW c \in Cells, TransportSettles(c)
  PROVE  Good(slot, slot', Shutting)
<1>1. PICK k : k = [slot EXCEPT !.cells[c].owed = FALSE]
  OBVIOUS
<1>2. slot' \in SettledSlot(k, c)
  BY <1>1 DEF TransportSettles
<1>3. SlotInv(slot, Shutting) /\ slot \in Slot /\ slot.cells[c] \in Cell
  BY DEF SupInv, SlotInv, Slot
<1>4. PICK x : x = [slot.cells[c] EXCEPT !.owed = FALSE]
  OBVIOUS
<1>5. /\ x \in Cell /\ x.phase = slot.cells[c].phase /\ x.process = slot.cells[c].process
      /\ x.previous = slot.cells[c].previous /\ x.startEpoch = slot.cells[c].startEpoch
      /\ x.owed = FALSE /\ x.crossed = slot.cells[c].crossed
  BY <1>3, <1>4 DEF Cell
<1>6. k = [slot EXCEPT !.cells[c] = x]
  BY <1>1, <1>4
<1>7. /\ OnlyCell(slot, k, c) /\ k.cells[c] = x
      /\ k.active = slot.active /\ k.state = slot.state
  BY <1>3, <1>5, <1>6, CellSet
<1>8. Good(slot, k, Shutting)
  BY <1>3, <1>5, <1>7, CellKeeps
<1>9. Good(k, slot', Shutting)
  <2>1. SlotInv(k, Shutting) /\ ~Holds(k, c)
    BY <1>5, <1>7, <1>8 DEF Good, Holds
  <2> QED BY <1>2, <2>1, SettleKeeps
<1>10. AnswersWell(slot, slot', Shutting)
  <2>1. \A d \in Cells : /\ k.cells[d].phase = slot.cells[d].phase
                         /\ k.cells[d].crossed = slot.cells[d].crossed
    BY <1>5, <1>7 DEF OnlyCell
  <2> QED BY <1>9, <2>1 DEF AnswersWell, Good
<1>11. KeepsCapture(slot, slot')
  BY <1>8, <1>9, KeepsOn DEF Good
<1> QED BY <1>9, <1>10, <1>11 DEF Good

\* The spill is written, and the cell answered (finishCell).
LEMMA SpillWrittenStep ==
  ASSUME SupInv, NEW c \in Cells, SpillWritten(c)
  PROVE  Good(slot, slot', Shutting)
<1> USE DEF SlotInv
<1>1. SlotInv(slot, Shutting) /\ slot \in Slot /\ slot.cells[c].phase = "finishing"
  BY DEF SupInv, SpillWritten
<1>2. PICK p : p = Resolved(slot, c)
  OBVIOUS
<1>3. slot' \in Drained(p)
  BY <1>2 DEF SpillWritten, Finished, Resolved
<1>4. /\ p \in Slot /\ p.active = slot.active /\ p.state = slot.state
      /\ p.registered = slot.registered /\ p.starting = slot.starting
      /\ p.pending = slot.pending /\ p.epoch = slot.epoch /\ p.process = slot.process
      /\ \A d \in Cells \ {c} : p.cells[d] = slot.cells[d]
  BY <1>1, <1>2, ResolvedIs DEF OnlyCell
<1>5. /\ p.cells[c].phase = "answered" /\ p.cells[c].owed = slot.cells[c].owed
      /\ p.cells[c].process = slot.cells[c].process
      /\ p.cells[c].previous = slot.cells[c].previous
      /\ p.cells[c].startEpoch = slot.cells[c].startEpoch
      /\ p.cells[c].crossed = slot.cells[c].crossed
      /\ p.cells[c].told = (slot.epoch # slot.cells[c].startEpoch)
  BY <1>1, <1>2, ResolvedIs
<1>6. \A d \in Cells : /\ Leaving(p, d) <=> Leaving(slot, d)
                       /\ p.cells[d].previous = slot.cells[d].previous
                       /\ p.cells[d].owed = slot.cells[d].owed
                       /\ Holds(p, d) <=> Holds(slot, d)
                       /\ Stray(p, d) <=> Stray(slot, d)
                       /\ Plain(p, d) => Plain(slot, d)
                       /\ p.cells[d].startEpoch = slot.cells[d].startEpoch
                       /\ p.cells[d].process = slot.cells[d].process
  BY <1>1, <1>4, <1>5 DEF Leaving, Holds, Stray, Plain
<1>7. Queued(p)
  <2>1. \A i \in 1..Len(slot.pending) : slot.pending[i] \in Cells \ {c}
    BY <1>1 DEF Slot, Queued
  <2> QED BY <1>1, <1>4, <1>5, <2>1 DEF Queued
<1>8. OneRuns(p)
  BY <1>1, <1>4, <1>5 DEF OneRuns
<1>9. Guarded(p)
  BY <1>1, <1>4, <1>6 DEF Guarded, Sealed
<1>10. \A e : Before(slot, e) => Before(p, e)
  BY <1>4, <1>6 DEF Before
<1>11. Tells(p, Shutting)
  BY <1>1, <1>4, <1>6, <1>10 DEF Tells
<1>12. AnswersWell(slot, p, Shutting)
  <2>1. \/ slot.cells[c].crossed \/ slot.cells[c].startEpoch # slot.epoch
        \/ slot.cells[c].process = slot.process \/ Shutting
    BY <1>1 DEF Tells, Plain
  <2> QED BY <1>4, <1>5, <2>1 DEF AnswersWell
<1>13. Good(slot, p, Shutting)
  BY <1>1, <1>4, <1>6, <1>7, <1>8, <1>9, <1>10, <1>11, <1>12 DEF Good, KeepsCapture
<1> QED BY <1>3, <1>13, DrainAfter

\* The spill fails, and the cell loses its result (finishCell).
LEMMA SpillFailsStep ==
  ASSUME SupInv, NEW c \in Cells, SpillFails(c)
  PROVE  Good(slot, slot', Shutting)
<1>1. /\ SlotInv(slot, Shutting) /\ slot \in Slot /\ slot.cells[c] \in Cell
      /\ slot.cells[c].phase = "finishing"
  BY DEF SupInv, SlotInv, Slot, SpillFails
<1>2. PICK x : x = [slot.cells[c] EXCEPT !.phase = "lost"]
  OBVIOUS
<1>3. /\ x \in Cell /\ x.phase = "lost" /\ x.process = slot.cells[c].process
      /\ x.previous = slot.cells[c].previous /\ x.startEpoch = slot.cells[c].startEpoch
      /\ x.owed = slot.cells[c].owed /\ x.owed \in BOOLEAN
      /\ x.crossed = slot.cells[c].crossed
  BY <1>1, <1>2 DEF Cell, Phases
<1>4. slot' = [slot EXCEPT !.cells[c] = x]
  BY <1>2 DEF SpillFails
<1>5. /\ OnlyCell(slot, slot', c) /\ slot'.cells[c] = x
      /\ slot'.active = slot.active /\ slot'.state = slot.state
  BY <1>1, <1>3, <1>4, CellSet
<1> QED BY <1>1, <1>3, <1>5, CellKeeps

\* An interrupt arms the grace of a cell and nothing else (interruptKernel).
LEMMA InterruptKeeps ==
  ASSUME NEW k, NEW z, SlotInv(k, z), NEW c \in Cells
  PROVE  /\ Good(k, Interrupted(k, c), z) /\ OnlyCell(k, Interrupted(k, c), c)
         /\ Interrupted(k, c).cells[c].phase = k.cells[c].phase
         /\ Interrupted(k, c).cells[c].crossed = k.cells[c].crossed
<1>1. k \in Slot /\ k.cells[c] \in Cell
  BY DEF SlotInv, Slot
<1>2. CASE k.cells[c].grace = "none"
  <2>1. PICK p : p = Interrupted(k, c)
    OBVIOUS
  <2>2. PICK x : x = [k.cells[c] EXCEPT !.grace = "armed"]
    OBVIOUS
  <2>3. /\ x \in Cell /\ x.phase = k.cells[c].phase /\ x.process = k.cells[c].process
        /\ x.previous = k.cells[c].previous /\ x.startEpoch = k.cells[c].startEpoch
        /\ x.owed = k.cells[c].owed /\ x.owed \in BOOLEAN
        /\ x.crossed = k.cells[c].crossed
    BY <1>1, <2>2 DEF Cell
  <2>4. p = [k EXCEPT !.cells[c] = x]
    BY <1>2, <2>1, <2>2 DEF Interrupted
  <2>5. /\ OnlyCell(k, p, c) /\ p.cells[c] = x
        /\ p.active = k.active /\ p.state = k.state
    BY <1>1, <2>3, <2>4, CellSet
  <2>6. Good(k, p, z)
    BY <2>3, <2>5, CellKeeps
  <2> QED BY <2>1, <2>3, <2>5, <2>6
<1>3. CASE k.cells[c].grace # "none"
  <2>1. Interrupted(k, c) = k
    BY <1>3 DEF Interrupted
  <2> QED BY <1>1, <2>1 DEF Good, KeepsCapture, AnswersWell, OnlyCell
<1> QED BY <1>2, <1>3

\* A cancellation or an expired bound interrupts the running cell (runCell).
LEMMA StopStep ==
  ASSUME SupInv, NEW c \in Cells, Stop(c)
  PROVE  Good(slot, slot', Shutting)
BY InterruptKeeps DEF Stop, SupInv

\* What every step leaves.
Kept == SlotInv(slot', Shutting') /\ CommandInv' /\ AnswersWell(slot, slot', Shutting')

\* A step that leaves the command, the shutdown and the sweep alone.
LEMMA GoodIsKept ==
  ASSUME SupInv, Good(slot, slot', Shutting), UNCHANGED <<command, closing, sweep>>
  PROVE  Kept
<1>1. Replacing' = Replacing /\ Shutting' = Shutting /\ sweep' = sweep
  BY DEF Replacing, Shutting
<1>2. UnderWay(slot) => \A e : Before(slot, e) => Before(slot', e)
  BY DEF Good, KeepsCapture
<1>3. /\ Replacing' => Before(slot', command'.previous)
      /\ sweep'.stage = "evicting" => Before(slot', sweep'.previous)
  BY <1>1, <1>2 DEF SupInv, CommandInv, UnderWay
<1>4. Careful /\ slot'.starting => command' = NoCommand /\ closing' = "no" /\ sweep' = NoSweep
  BY DEF SupInv, CommandInv, Good, KeepsCapture
<1> QED BY <1>1, <1>3, <1>4 DEF Kept, CommandInv, Good

\* The grace of the running cell expires: the escalation captures the epoch
\* (escalateToProcessIsolation), whatever else is under way.
LEMMA GraceExpiresStep ==
  ASSUME SupInv, NEW c \in Cells, GraceExpires(c)
  PROVE  Kept
<1> USE DEF SlotInv
<1>1. /\ SlotInv(slot, Shutting) /\ slot \in Slot /\ slot.cells[c] \in Cell
      /\ slot.registered /\ slot.active = c /\ c # None
      /\ command' = command /\ closing' = closing /\ sweep' = sweep
      /\ slot.cells[c].phase = "running" /\ slot.epoch \in Nat
  BY SupervisorAssumption DEF SupInv, Slot, GraceExpires, OneRuns
<1>2. PICK t \in States : t = "wedged"
  BY DEF States
<1>3. PICK j : j = [slot EXCEPT !.state = t]
  OBVIOUS
<1>4. /\ j \in Slot /\ j.state = t
      /\ j.registered = slot.registered /\ j.starting = slot.starting
      /\ j.pending = slot.pending /\ j.active = slot.active /\ j.epoch = slot.epoch
      /\ j.process = slot.process /\ j.cells = slot.cells
  <2>1. slot \in Slot
    BY <1>1
  <2> QED BY <1>3, <2>1, SetState
<1>5. PICK x : x = [slot.cells[c] EXCEPT !.grace = "fired", !.previous = slot.epoch]
  OBVIOUS
<1>6. /\ x \in Cell /\ x.phase = slot.cells[c].phase /\ x.process = slot.cells[c].process
      /\ x.previous = slot.epoch /\ x.startEpoch = slot.cells[c].startEpoch
      /\ x.owed = slot.cells[c].owed /\ x.crossed = slot.cells[c].crossed
  BY <1>1, <1>5 DEF Cell
<1>7. slot' = [j EXCEPT !.cells[c] = x]
  <2>1. slot' = [slot EXCEPT !.state = "wedged",
                             !.cells[c] = [slot.cells[c] EXCEPT !.grace = "fired",
                                                                !.previous = slot.epoch]]
    BY <1>1 DEF GraceExpires, Slot
  <2> QED BY <1>1, <1>2, <1>3, <1>5, <2>1 DEF Slot
<1>8. /\ slot' \in Slot /\ slot'.active = c /\ slot'.state = "wedged" /\ slot'.cells[c] = x
      /\ slot'.registered /\ slot'.starting = slot.starting
      /\ slot'.pending = slot.pending /\ slot'.epoch = slot.epoch
      /\ slot'.process = slot.process
      /\ \A d \in Cells \ {c} : slot'.cells[d] = slot.cells[d]
  <2>1. j \in Slot /\ x \in Cell
    BY <1>4, <1>6
  <2>2. slot' = WithCell(j, c, x)
    BY <1>7 DEF WithCell
  <2>3. /\ OnlyCell(j, slot', c) /\ slot'.cells[c] = x
        /\ slot'.active = j.active /\ slot'.state = j.state
    BY <2>1, <2>2, WithCellIs
  <2> QED BY <1>1, <1>2, <1>4, <2>3 DEF OnlyCell
<1>9. \A d \in Cells : /\ slot'.cells[d].owed = slot.cells[d].owed
                       /\ Holds(slot', d) <=> Holds(slot, d)
                       /\ Plain(slot', d) <=> Plain(slot, d)
                       /\ slot'.cells[d].startEpoch = slot.cells[d].startEpoch
                       /\ slot'.cells[d].process = slot.cells[d].process
                       /\ slot'.cells[d].phase = slot.cells[d].phase
                       /\ d # c => slot'.cells[d].previous = slot.cells[d].previous
  BY <1>1, <1>6, <1>8 DEF Holds, Plain
<1>10. Queued(slot')
  <2>1. \A i \in 1..Len(slot.pending) : slot.pending[i] \in Cells
    BY <1>1 DEF Slot
  <2> QED BY <1>1, <1>8, <1>9, <2>1 DEF Queued
<1>11. OneRuns(slot')
  BY <1>1, <1>8, <1>9 DEF OneRuns
<1>12. Guarded(slot')
  BY <1>1, <1>8, <1>9 DEF Guarded, Sealed
<1>13. \A e : Before(slot, e) <=> Before(slot', e)
  BY <1>9 DEF Before
<1>14. Tells(slot', Shutting)
  <2>1. Before(slot, slot.epoch)
    BY <1>1 DEF Tells, Before
  <2>2. ASSUME NEW d \in Cells, Leaving(slot', d)
        PROVE  Before(slot', slot'.cells[d].previous)
    <3>1. CASE d = c
      BY <1>6, <1>8, <1>13, <2>1, <3>1
    <3>2. CASE d # c
      BY <1>1, <1>9, <1>13, <2>2, <3>2 DEF Tells, Leaving
    <3> QED BY <3>1, <3>2
  <2>3. \A d \in Cells : Plain(slot', d) =>
          /\ slot'.cells[d].startEpoch <= slot'.epoch
          /\ slot'.cells[d].startEpoch = slot'.epoch =>
               slot'.cells[d].process = slot'.process \/ Shutting
    BY <1>1, <1>8, <1>9 DEF Tells
  <2> QED BY <2>2, <2>3 DEF Tells
<1>15. AnswersWell(slot, slot', Shutting)
  BY <1>9 DEF AnswersWell
<1>16. CommandInv'
  BY <1>1, <1>8, <1>13 DEF SupInv, CommandInv, Replacing
<1>17. Shutting' = Shutting
  BY <1>1 DEF Shutting
<1>18. SlotInv(slot', Shutting)
  BY <1>8, <1>10, <1>11, <1>12, <1>14
<1> QED BY <1>15, <1>16, <1>17, <1>18 DEF Kept

\* A drain strands nobody (drain).
LEMMA DrainStrands ==
  ASSUME NEW k, NEW z, SlotInv(k, z), NEW s \in Drained(k)
  PROVE  \A d \in Cells : Stray(s, d) => Stray(k, d)
<1>1. k \in Slot /\ k.cells \in [Cells -> Cell]
  BY DEF SlotInv, Slot
<1>2. ASSUME NEW m \in 0..Len(k.pending), DrainTo(k, s, m), NEW d \in Cells, Stray(s, d)
      PROVE  Stray(k, d)
  <2>1. s.process = k.process
    BY <1>2 DEF DrainTo
  <2>2. Left(k, m, d) => k.cells[d].phase = "pending" /\ ~k.cells[d].owed /\ k.cells[d].previous = 0
    <3>1. Len(k.pending) \in Nat
      BY <1>1 DEF Slot
    <3>2. Left(k, m, d) => k.cells[d].phase = "pending"
      BY <3>1 DEF Left, SlotInv, Queued
    <3> QED BY <3>2 DEF SlotInv, Queued
  <2>3. CASE s.cells[d] = k.cells[d]
    BY <1>2, <2>1, <2>3 DEF Stray, Holds, Leaving
  <2>4. CASE Left(k, m, d) /\ s.cells[d] = [k.cells[d] EXCEPT !.phase = "answered"]
    BY <1>1, <1>2, <2>2, <2>4 DEF Stray, Holds, Cell
  <2>5. CASE d = s.active /\ s.cells[d] = Handed(k.cells[d], k.process, k.epoch, UnderWay(k))
    <3>1. Left(k, m, d)
      <4>1. d # None
        BY SupervisorAssumption
      <4> QED BY <1>2, <2>5, <4>1 DEF DrainTo
    <3>2. s.cells[d].phase = "running" /\ s.cells[d].previous = k.cells[d].previous
      BY <1>1, <2>5 DEF Handed, Cell
    <3> QED BY <1>2, <2>2, <3>1, <3>2 DEF Stray, Leaving
  <2> QED BY <1>2, <2>3, <2>4, <2>5 DEF DrainTo
<1>3. s = k \/ \E m \in 0..Len(k.pending) : DrainTo(k, s, m)
  BY <1>1, DrainedIs
<1> QED BY <1>2, <1>3

\* A settlement strands only who was in the process (settle).
LEMMA SettleStrands ==
  ASSUME NEW k, NEW z, SlotInv(k, z), NEW c \in Cells, NEW s \in SettledSlot(k, c),
         Careful => ~Holds(k, c) \/ Sealed(k)
  PROVE  \A d \in Cells : Stray(s, d) => Holds(k, d)
<1>1. CASE k.cells[c].phase # "running"
  BY <1>1 DEF SettledSlot, Stray
<1>2. CASE k.cells[c].phase = "running"
  <2>1. k \in Slot /\ k.active = c
    BY <1>2 DEF SlotInv, OneRuns
  <2>2. PICK p : Ended(k, p, c) /\ (s = p \/ s \in Drained(p))
    BY <1>2, <2>1, SettledIs
  <2>3. SlotInv(p, z)
    BY <1>2, <2>2, EndedKeeps
  <2>4. \A d \in Cells : Stray(s, d) => Stray(p, d)
    BY <2>2, <2>3, DrainStrands
  <2>5. \A d \in Cells : Stray(p, d) => Holds(k, d)
    BY <2>2 DEF Ended, OnlyCell, Stray, Holds
  <2> QED BY <2>4, <2>5
<1> QED BY <1>1, <1>2

\* The slot as the escalation's restart leaves it, with a new process and the epoch
\* after the one captured if the restart took (escalateToProcessIsolation).
Renewed(k, c, ok) ==
  LET begun == [k EXCEPT !.cells[c].previous = 0]
  IN IF ok THEN Replaced(begun, k.cells[c].previous) ELSE begun

LEMMA RenewedIs ==
  ASSUME NEW k, NEW z, SlotInv(k, z), NEW c \in Cells, Leaving(k, c), NEW ok \in BOOLEAN,
         NEW p, p = Renewed(k, c, ok)
  PROVE  /\ SlotInv(p, z) /\ p.starting = k.starting
         /\ \A e : Before(k, e) => Before(p, e)
         /\ \A d \in Cells : /\ p.cells[d].phase = k.cells[d].phase
                             /\ p.cells[d].crossed = k.cells[d].crossed
         /\ Careful => ~Holds(p, c) \/ Sealed(p)
         /\ ok => \A d \in Cells : ~Holds(p, d)
<1> USE DEF SlotInv
<1>1. /\ k \in Slot /\ k.cells \in [Cells -> Cell] /\ k.cells[c] \in Cell
      /\ k.process \in Nat /\ k.epoch \in Nat /\ k.cells[c].previous \in Nat
      /\ \A d \in Cells : /\ k.cells[d].process \in Nat /\ k.cells[d].startEpoch \in Nat
                          /\ k.cells[d].process <= k.process
  BY DEF Slot, Cell, OneRuns
<1>2. PICK x : x = [k.cells[c] EXCEPT !.previous = 0]
  OBVIOUS
<1>3. /\ x \in Cell /\ x.phase = k.cells[c].phase /\ x.process = k.cells[c].process
      /\ x.previous = 0 /\ x.startEpoch = k.cells[c].startEpoch /\ x.owed = k.cells[c].owed
      /\ x.crossed = k.cells[c].crossed
  BY <1>1, <1>2 DEF Cell
<1>4. PICK j : j = WithCell(k, c, x)
  OBVIOUS
<1>5. /\ j \in Slot /\ j.active = k.active /\ j.state = k.state /\ j.cells[c] = x
      /\ j.registered = k.registered /\ j.starting = k.starting /\ j.pending = k.pending
      /\ j.epoch = k.epoch /\ j.process = k.process
      /\ \A d \in Cells \ {c} : j.cells[d] = k.cells[d]
  <2>1. k \in Slot /\ x \in Cell
    BY <1>1, <1>3
  <2>2. OnlyCell(k, j, c) /\ j.cells[c] = x /\ j.active = k.active /\ j.state = k.state
    BY <1>4, <2>1, WithCellIs
  <2> QED BY <2>2 DEF OnlyCell
<1>6. j = [k EXCEPT !.cells[c].previous = 0]
  BY <1>2, <1>4 DEF WithCell
<1>7. /\ p \in Slot /\ p.active = k.active /\ p.state = k.state /\ p.cells = j.cells
      /\ p.registered = k.registered /\ p.starting = k.starting /\ p.pending = k.pending
      /\ IF ok THEN p.process = k.process + 1 /\ p.epoch = k.cells[c].previous + 1
               ELSE p.process = k.process /\ p.epoch = k.epoch
  <2>1. CASE ok
    <3>1. p = [j EXCEPT !.process = j.process + 1, !.epoch = k.cells[c].previous + 1]
      BY <1>6, <2>1 DEF Renewed, Replaced
    <3>2. PICK m \in Nat, e \in Nat : m = k.process + 1 /\ e = k.cells[c].previous + 1
      BY <1>1
    <3>3. p = [j EXCEPT !.process = m, !.epoch = e]
      BY <1>5, <3>1, <3>2
    <3>4. /\ p \in Slot /\ p.active = j.active /\ p.state = j.state /\ p.cells = j.cells
          /\ p.registered = j.registered /\ p.starting = j.starting /\ p.pending = j.pending
          /\ p.process = m /\ p.epoch = e
      BY <1>5, <3>3 DEF Slot
    <3> QED BY <1>5, <2>1, <3>2, <3>4
  <2>2. CASE ~ok
    <3>1. p = j
      BY <1>6, <2>2 DEF Renewed
    <3> QED BY <1>5, <2>2, <3>1
  <2> QED BY <2>1, <2>2
<1>8. \A d \in Cells : /\ p.cells[d].phase = k.cells[d].phase
                       /\ p.cells[d].process = k.cells[d].process
                       /\ p.cells[d].owed = k.cells[d].owed
                       /\ p.cells[d].startEpoch = k.cells[d].startEpoch
                       /\ p.cells[d].crossed = k.cells[d].crossed
                       /\ Plain(p, d) <=> Plain(k, d)
                       /\ p.cells[d].previous \in {0, k.cells[d].previous}
  BY <1>3, <1>5, <1>7 DEF Plain
<1>9. ASSUME ok, NEW d \in Cells PROVE ~Holds(p, d)
  <2>1. PICK a \in Nat, b \in Nat : a = k.cells[d].process /\ b = k.process
    BY <1>1
  <2>2. a <= b
    BY <1>1, <2>1
  <2>3. p.process = b + 1 /\ p.cells[d].process = a
    BY <1>7, <1>8, <1>9, <2>1
  <2>4. p.cells[d].process # p.process
    BY <2>2, <2>3
  <2> QED BY <2>4 DEF Holds
<1>10. ~ok => \A d \in Cells : Holds(p, d) <=> Holds(k, d)
  BY <1>7, <1>8 DEF Holds
<1>11. Queued(p)
  <2>1. \A i \in 1..Len(k.pending) : k.pending[i] \in Cells
    BY <1>1 DEF Slot
  <2> QED BY <1>7, <1>8, <2>1 DEF Queued
<1>12. OneRuns(p)
  BY <1>1, <1>7, <1>8 DEF OneRuns
<1>13. \A d \in Cells : /\ Stray(p, d) => Stray(k, d)
                        /\ Holds(p, d) => Holds(k, d)
                        /\ Leaving(p, d) => Leaving(k, d)
  BY <1>8, <1>9, <1>10 DEF Stray, Leaving
<1>14. Guarded(p)
  BY <1>7, <1>8, <1>13 DEF Guarded, Sealed
<1>15. Careful => ~Holds(p, c) \/ Sealed(p)
  BY <1>7, <1>13 DEF Guarded, Stray, Sealed
<1>16. \A e : Before(k, e) <=> Before(p, e)
  BY <1>8 DEF Before
<1>17. Tells(p, z)
  <2>1. \A d \in Cells : Leaving(p, d) => Before(p, p.cells[d].previous)
    BY <1>8, <1>16 DEF Tells, Leaving
  <2>2. CASE ok
    <3>1. Before(k, k.cells[c].previous)
      BY DEF Tells
    <3>2. p.epoch = k.cells[c].previous + 1
      BY <1>7, <2>2
    <3>3. ASSUME NEW d \in Cells, Plain(p, d) PROVE p.cells[d].startEpoch < p.epoch
      <4>1. k.cells[d].startEpoch <= k.cells[c].previous
        BY <1>8, <3>1, <3>3 DEF Before
      <4>2. p.cells[d].startEpoch = k.cells[d].startEpoch /\ k.cells[d].startEpoch \in Nat
        BY <1>1, <1>8
      <4> QED BY <1>1, <3>2, <4>1, <4>2
    <3>4. p.epoch \in Nat /\ \A d \in Cells : p.cells[d].startEpoch \in Nat
      <4>1. \A d \in Cells : p.cells[d].startEpoch \in Nat
        BY <1>1, <1>8
      <4> QED BY <1>1, <3>2, <4>1
    <3> QED BY <2>1, <3>3, <3>4 DEF Tells
  <2>3. CASE ~ok
    BY <1>7, <1>8, <2>1, <2>3 DEF Tells
  <2> QED BY <2>2, <2>3
<1> QED BY <1>7, <1>8, <1>9, <1>11, <1>12, <1>14, <1>15, <1>16, <1>17

\* The rest of the escalation: the cell is given up, and a new process, or none, takes
\* the queue (escalateToProcessIsolation).
LEMMA EscalatedStep ==
  ASSUME SupInv, NEW c \in Cells, Escalated(c)
  PROVE  Kept
<1>1. /\ SlotInv(slot, Shutting) /\ Leaving(slot, c)
      /\ command' = command /\ closing' = closing /\ sweep' = sweep
  BY DEF SupInv, Escalated, Escalating, Leaving
<1>2. PICK ok \in BOOLEAN : slot' \in GivenUp(slot, c, ok)
  BY DEF Escalated
<1>3. PICK p : p = Renewed(slot, c, ok)
  OBVIOUS
<1>4. PICK t \in States : t = (IF ok THEN "idle" ELSE "wedged")
  BY DEF States
<1>5. PICK s : s \in SettledSlot(p, c) /\ slot' \in Drained([s EXCEPT !.state = t])
  BY <1>2, <1>3, <1>4 DEF GivenUp, Renewed
<1>6. /\ SlotInv(p, Shutting) /\ p.starting = slot.starting
      /\ \A e : Before(slot, e) => Before(p, e)
      /\ \A d \in Cells : /\ p.cells[d].phase = slot.cells[d].phase
                          /\ p.cells[d].crossed = slot.cells[d].crossed
      /\ Careful => ~Holds(p, c) \/ Sealed(p)
      /\ ok => \A d \in Cells : ~Holds(p, d)
  BY <1>1, <1>3, RenewedIs
<1>7. Good(p, s, Shutting) /\ s.process = p.process
  BY <1>5, <1>6, SettleKeeps
<1>8. s \in Slot /\ SlotInv(s, Shutting)
  BY <1>7 DEF Good, SlotInv
<1>9. PICK u : u = [s EXCEPT !.state = t]
  OBVIOUS
<1>10. /\ u \in Slot /\ u.state = t
       /\ u.registered = s.registered /\ u.starting = s.starting /\ u.pending = s.pending
       /\ u.active = s.active /\ u.epoch = s.epoch /\ u.process = s.process
       /\ u.cells = s.cells
  BY <1>8, <1>9, SetState
<1>11. Sealed(u) \/ \A d \in Cells : ~Stray(s, d)
  <2>1. CASE ok
    BY <1>5, <1>6, <2>1, SettleStrands
  <2>2. CASE ~ok
    BY <1>4, <1>10, <2>2 DEF Sealed
  <2> QED BY <2>1, <2>2
<1>12. Careful => ~s.starting
  <2>1. s.starting => slot.starting
    BY <1>6, <1>7 DEF Good, KeepsCapture
  <2>2. Careful => ~slot.starting
    BY <1>1 DEF SlotInv, Guarded
  <2> QED BY <2>1, <2>2
<1>13. Good(s, u, Shutting)
  <2>1. ~u.starting \/ (~Careful /\ u.starting = s.starting)
    BY <1>10, <1>12
  <2> QED BY <1>8, <1>10, <1>11, <2>1, StateKeeps
<1>14. Good(p, u, Shutting)
  <2>1. KeepsCapture(p, u)
    BY <1>7, <1>13, KeepsOn DEF Good
  <2>2. AnswersWell(p, u, Shutting)
    BY <1>7, <1>10 DEF Good, AnswersWell
  <2> QED BY <1>13, <2>1, <2>2 DEF Good
<1>15. Good(p, slot', Shutting)
  BY <1>5, <1>9, <1>14, DrainAfter
<1>16. AnswersWell(slot, slot', Shutting)
  BY <1>6, <1>15 DEF AnswersWell, Good
<1>17. CommandInv'
  <2>1. Careful => ~slot'.starting
    BY <1>6, <1>12, <1>15, <1>1 DEF Good, KeepsCapture, SlotInv, Guarded
  <2>2. Replacing \/ sweep.stage = "evicting" => UnderWay(p)
    BY DEF UnderWay
  <2>3. UnderWay(p) => \A e : Before(slot, e) => Before(slot', e)
    BY <1>6, <1>15 DEF Good, KeepsCapture
  <2> QED BY <1>1, <2>1, <2>2, <2>3 DEF SupInv, CommandInv, Replacing
<1>18. Shutting' = Shutting
  BY <1>1 DEF Shutting
<1> QED BY <1>15, <1>16, <1>17, <1>18 DEF Kept, Good

------------------------------------------------------------------------------

\* The owner replaces the process (beginReset, changeReadPermissionDomain): the slot is
\* sealed, and its cell interrupted.
LEMMA BeginReplaceStep ==
  ASSUME SupInv, NEW kind \in Kinds, BeginReplace(kind)
  PROVE  Kept
<1>1. /\ SlotInv(slot, Shutting) /\ slot \in Slot /\ closing' = closing /\ sweep' = sweep
      /\ command'.stage = "stopping" /\ (Careful => ~slot.starting)
  BY DEF SupInv, SlotInv, Careful, BeginReplace, Command
<1>2. PICK t \in States : t = "wedged"
  BY DEF States
<1>3. PICK k : k = [slot EXCEPT !.state = t]
  OBVIOUS
<1>4. /\ k \in Slot /\ k.state = t
      /\ k.registered = slot.registered /\ k.starting = slot.starting
      /\ k.pending = slot.pending /\ k.active = slot.active /\ k.epoch = slot.epoch
      /\ k.process = slot.process /\ k.cells = slot.cells
  BY <1>1, <1>3, SetState
<1>5. Good(slot, k, Shutting)
  <2>1. Sealed(k)
    BY <1>2, <1>4 DEF Sealed
  <2>2. ~k.starting \/ (~Careful /\ k.starting = slot.starting)
    BY <1>1, <1>4
  <2> QED BY <1>1, <1>4, <2>1, <2>2, StateKeeps
<1>6. slot' = k \/ \E c \in Cells : slot' = Interrupted(k, c)
  <2>1. slot.active \in Cells \cup {None}
    BY <1>1 DEF Slot
  <2> QED BY <1>2, <1>3, <2>1 DEF BeginReplace
<1>7. /\ Good(k, slot', Shutting)
      /\ \A d \in Cells : /\ slot'.cells[d].phase = slot.cells[d].phase
                          /\ slot'.cells[d].crossed = slot.cells[d].crossed
  <2>1. CASE slot' = k
    BY <1>4, <1>5, <2>1 DEF Good, KeepsCapture, AnswersWell
  <2>2. ASSUME NEW c \in Cells, slot' = Interrupted(k, c)
        PROVE  /\ Good(k, slot', Shutting)
               /\ \A d \in Cells : /\ slot'.cells[d].phase = slot.cells[d].phase
                                   /\ slot'.cells[d].crossed = slot.cells[d].crossed
    <3>1. SlotInv(k, Shutting)
      BY <1>5 DEF Good
    <3>2. /\ Good(k, slot', Shutting) /\ OnlyCell(k, slot', c)
          /\ slot'.cells[c].phase = k.cells[c].phase
          /\ slot'.cells[c].crossed = k.cells[c].crossed
      BY <2>2, <3>1, InterruptKeeps
    <3> QED BY <1>4, <3>2 DEF OnlyCell
  <2> QED BY <1>6, <2>1, <2>2
<1>8. AnswersWell(slot, slot', Shutting)
  BY <1>7 DEF AnswersWell
<1>9. KeepsCapture(slot, slot')
  BY <1>5, <1>7, KeepsOn DEF Good
<1>10. Careful => ~slot'.starting
  BY <1>1, <1>9 DEF KeepsCapture
<1>11. CommandInv'
  <2>1. sweep.stage = "evicting" => \A e : Before(slot, e) => Before(slot', e)
    BY <1>9 DEF KeepsCapture, UnderWay
  <2> QED BY <1>1, <1>10, <2>1 DEF SupInv, CommandInv, Replacing
<1>12. Shutting' = Shutting
  BY <1>1 DEF Shutting
<1> QED BY <1>7, <1>8, <1>11, <1>12 DEF Kept, Good

\* No plain cell started under an epoch later than the slot's.
LEMMA NowIsBefore ==
  ASSUME NEW k, NEW z, SlotInv(k, z)
  PROVE  Before(k, k.epoch)
BY DEF SlotInv, Tells, Before

\* The wait is over: the epoch that the replacement captures is the slot's (reset,
\* changeReadPermissionDomain).
LEMMA ReplaceStep ==
  ASSUME SupInv, TypeOK, Replace
  PROVE  Kept
<1>1. /\ SlotInv(slot, Shutting)
      /\ command.stage = "stopping" /\ slot' = slot /\ closing' = closing /\ sweep' = sweep
      /\ command' = [command EXCEPT !.stage = "restarting", !.previous = slot.epoch]
  BY DEF SupInv, Replace
<1>2. command'.previous = slot.epoch
  BY <1>1 DEF TypeOK
<1>3. Careful => ~slot.starting
  BY <1>1 DEF SupInv, CommandInv, NoCommand
<1>4. CommandInv'
  BY <1>1, <1>2, <1>3, NowIsBefore DEF SupInv, CommandInv
<1>5. Shutting' = Shutting
  BY <1>1 DEF Shutting
<1> QED BY <1>1, <1>4, <1>5 DEF Kept, AnswersWell

\* A slot that gets the epoch after a captured one, with another process, or with the
\* same in a sealed slot.
LEMMA NewEpochKeeps ==
  ASSUME NEW k, NEW z, SlotInv(k, z), NEW e \in Nat, Before(k, e),
         NEW p \in Slot, p.pending = k.pending, p.active = k.active, p.cells = k.cells,
         Careful => ~p.starting, p.epoch = e + 1,
         \/ p.process = k.process + 1
         \/ p.process = k.process /\ Sealed(p)
  PROVE  SlotInv(p, z) /\ AnswersWell(k, p, z) /\ \A f : Before(k, f) <=> Before(p, f)
<1> USE DEF SlotInv
<1>1. /\ k \in Slot /\ k.epoch \in Nat /\ k.process \in Nat
      /\ \A c \in Cells : /\ k.cells[c].process \in Nat /\ k.cells[c].startEpoch \in Nat
                          /\ k.cells[c].process <= k.process
  BY DEF Slot, Cell, OneRuns
<1>2. Queued(p)
  BY DEF Queued
<1>3. OneRuns(p)
  <2>1. p.process \in Nat /\ k.process <= p.process
    BY <1>1
  <2>2. \A c \in Cells : p.cells[c].process <= p.process
    BY <1>1, <2>1
  <2> QED BY <2>2 DEF OneRuns
<1>4. \A c \in Cells : /\ Leaving(p, c) <=> Leaving(k, c)
                       /\ Plain(p, c) <=> Plain(k, c)
  BY DEF Leaving, Plain
<1>5. Guarded(p)
  <2>1. CASE p.process = k.process + 1
    <3>1. \A c \in Cells : ~Holds(p, c)
      <4> SUFFICES ASSUME NEW c \in Cells PROVE p.cells[c].process # p.process
        BY DEF Holds
      <4> QED BY <1>1, <2>1
    <3> QED BY <3>1 DEF Guarded, Stray
  <2>2. CASE p.process = k.process /\ Sealed(p)
    <3>1. \A c \in Cells : Holds(p, c) <=> Holds(k, c)
      BY <2>2 DEF Holds
    <3> QED BY <2>2, <3>1 DEF Guarded
  <2> QED BY <2>1, <2>2
<1>6. \A f : Before(k, f) <=> Before(p, f)
  BY <1>4 DEF Before
<1>7. Tells(p, z)
  <2>1. ASSUME NEW c \in Cells, Plain(p, c) PROVE p.cells[c].startEpoch < p.epoch
    <3>1. k.cells[c].startEpoch <= e
      BY <1>4, <2>1 DEF Before
    <3> QED BY <1>1, <3>1
  <2>2. p.epoch \in Nat /\ \A c \in Cells : p.cells[c].startEpoch \in Nat
    BY <1>1
  <2>3. \A c \in Cells : Leaving(p, c) => Before(p, p.cells[c].previous)
    BY <1>4, <1>6 DEF Tells
  <2> QED BY <2>1, <2>2, <2>3 DEF Tells
<1>8. AnswersWell(k, p, z)
  BY DEF AnswersWell
<1> QED BY <1>2, <1>3, <1>5, <1>6, <1>7, <1>8

\* The replacement is over (reset, changeReadPermissionDomain).
LEMMA ReplaceOverStep ==
  ASSUME SupInv, TypeOK, ReplaceEnds \/ ReplaceFails
  PROVE  Kept
<1>1. /\ SlotInv(slot, Shutting) /\ slot \in Slot /\ slot.epoch \in Nat /\ slot.process \in Nat
      /\ Before(slot, command.previous)
      /\ command' = NoCommand /\ closing' = closing /\ sweep' = sweep
  BY DEF SupInv, SlotInv, CommandInv, ReplaceEnds, ReplaceFails, Slot
<1>2. Careful => ~slot.starting
  BY DEF SupInv, CommandInv, ReplaceEnds, ReplaceFails, Replacing, NoCommand
<1>3. PICK e \in Nat : e = command.previous
  BY DEF TypeOK
<1>4. PICK n \in Nat : n = e + 1
  OBVIOUS
<1>5. ~Replacing' /\ Shutting' = Shutting
  BY <1>1 DEF Replacing, NoCommand, Shutting
<1>6. ASSUME slot'.starting = slot.starting, \A f : Before(slot, f) => Before(slot', f)
      PROVE  CommandInv'
  BY <1>1, <1>2, <1>5, <1>6 DEF SupInv, CommandInv
<1>7. CASE ReplaceEnds
  <2>1. PICK m \in Nat, t \in States : m = slot.process + 1 /\ t = "idle"
    BY <1>1 DEF States
  <2>2. slot' = [slot EXCEPT !.process = m, !.epoch = n, !.state = t]
    BY <1>1, <1>3, <1>4, <1>7, <2>1 DEF ReplaceEnds, Replaced
  <2>3. /\ slot' \in Slot /\ slot'.pending = slot.pending /\ slot'.active = slot.active
        /\ slot'.cells = slot.cells /\ slot'.starting = slot.starting
        /\ slot'.epoch = n /\ slot'.process = m
    BY <1>1, <2>2 DEF Slot
  <2>4. slot'.epoch = e + 1 /\ slot'.process = slot.process + 1
    BY <1>4, <2>1, <2>3
  <2>5. /\ SlotInv(slot', Shutting) /\ AnswersWell(slot, slot', Shutting)
        /\ \A f : Before(slot, f) <=> Before(slot', f)
    BY <1>1, <1>2, <1>3, <2>3, <2>4, NewEpochKeeps
  <2> QED BY <1>5, <1>6, <2>3, <2>5 DEF Kept
<1>8. CASE ReplaceFails /\ slot' = slot
  BY <1>1, <1>5, <1>6, <1>8 DEF Kept, AnswersWell
<1>9. CASE ReplaceFails /\ slot' # slot
  <2>1. PICK t \in States : t = "wedged"
    BY DEF States
  <2>2. slot' = [slot EXCEPT !.epoch = n, !.state = t]
    BY <1>3, <1>4, <1>9, <2>1 DEF ReplaceFails
  <2>3. /\ slot' \in Slot /\ slot'.pending = slot.pending /\ slot'.active = slot.active
        /\ slot'.cells = slot.cells /\ slot'.starting = slot.starting
        /\ slot'.process = slot.process /\ slot'.epoch = n /\ slot'.state = t
    BY <1>1, <2>2 DEF Slot
  <2>4. slot'.epoch = e + 1 /\ Sealed(slot')
    BY <1>4, <2>1, <2>3 DEF Sealed
  <2>5. /\ SlotInv(slot', Shutting) /\ AnswersWell(slot, slot', Shutting)
        /\ \A f : Before(slot, f) <=> Before(slot', f)
    BY <1>1, <1>2, <1>3, <2>3, <2>4, NewEpochKeeps
  <2> QED BY <1>5, <1>6, <2>3, <2>5 DEF Kept
<1> QED BY <1>7, <1>8, <1>9

\* An owner parks a kernel, rebinds it or begins to close it (park, rebind, close): a
\* slot that is sealed stays sealed, if the owner is careful.
LEMMA StateStep ==
  ASSUME SupInv, Park \/ Rebind \/ BeginClose
  PROVE  Kept
<1>1. /\ SlotInv(slot, Shutting) /\ slot \in Slot /\ slot.state \in States
      /\ command' = command /\ sweep' = sweep
  BY DEF SupInv, SlotInv, Slot, Park, Rebind, BeginClose
<1>2. Careful => ~slot.starting
  BY <1>1 DEF Careful, Guarded, SlotInv, Park, Rebind, BeginClose, Command
<1>3. PICK t \in States : slot' = [slot EXCEPT !.state = t]
                          /\ (Careful /\ Sealed(slot) => t = "closed")
  <2>1. CASE Park
    <3>1. PICK t \in States : t = "parked"
      BY DEF States
    <3>2. slot' = [slot EXCEPT !.state = t]
      BY <2>1, <3>1 DEF Park
    <3> QED BY <2>1, <3>2 DEF Park, Careful, Sealed
  <2>2. CASE Rebind
    <3>1. PICK t \in States : t = "idle"
      BY DEF States
    <3>2. slot' = [slot EXCEPT !.state = t]
      BY <2>2, <3>1 DEF Rebind
    <3> QED BY <2>2, <3>2 DEF Rebind, Sealed
  <2>3. CASE BeginClose
    <3>1. PICK t \in States : t = "closed"
      BY DEF States
    <3>2. slot' = [slot EXCEPT !.state = t]
      BY <2>3, <3>1 DEF BeginClose
    <3> QED BY <3>1, <3>2
  <2> QED BY <2>1, <2>2, <2>3
<1>4. /\ slot' \in Slot /\ slot'.state = t
      /\ slot'.registered = slot.registered /\ slot'.starting = slot.starting
      /\ slot'.pending = slot.pending /\ slot'.active = slot.active
      /\ slot'.epoch = slot.epoch /\ slot'.process = slot.process
      /\ slot'.cells = slot.cells
  BY <1>1, <1>3, SetState
<1>5. Careful => Sealed(slot') \/ \A c \in Cells : ~Stray(slot, c)
  <2>1. Careful /\ ~Sealed(slot) => \A c \in Cells : ~Stray(slot, c)
    BY <1>1 DEF Guarded, SlotInv
  <2> QED BY <1>3, <1>4, <2>1 DEF Sealed
<1>6. ~slot'.starting \/ (~Careful /\ slot'.starting = slot.starting)
  BY <1>2, <1>4
<1>7. Good(slot, slot', Shutting)
  BY <1>1, <1>4, <1>5, <1>6, StateKeeps
<1>8. Shutting' = Shutting
  BY DEF Shutting, Park, Rebind, BeginClose
<1>9. CommandInv'
  <2>1. Replacing' = Replacing
    BY <1>1 DEF Replacing
  <2>2. UnderWay(slot) => \A e : Before(slot, e) => Before(slot', e)
    BY <1>7 DEF Good, KeepsCapture
  <2> QED BY <1>1, <1>2, <1>4, <2>1, <2>2 DEF SupInv, CommandInv, UnderWay
<1> QED BY <1>7, <1>8, <1>9 DEF Kept, Good

\* The shutdown of a close is over and the slot is dropped, or it throws (close).
LEMMA EndCloseStep ==
  ASSUME SupInv, EndClose
  PROVE  Kept
<1> USE DEF SlotInv
<1>1. /\ SlotInv(slot, Shutting) /\ slot \in Slot /\ slot.process \in Nat
      /\ command' = command /\ sweep' = sweep /\ (Careful => ~slot.starting)
      /\ \A c \in Cells : slot.cells[c].process \in Nat /\ slot.cells[c].process <= slot.process
  BY DEF SupInv, CommandInv, EndClose, Slot, Cell, OneRuns
<1>2. Replacing' = Replacing
  BY <1>1 DEF Replacing
<1>3. CASE slot' = slot
  <2>1. Shutting' = Shutting
    <3>1. Shut(slot).process = slot.process + 1
      BY <1>1 DEF Shut, Slot
    <3>2. Shut(slot) # slot
      BY <1>1, <3>1
    <3> QED BY <1>3, <3>2 DEF Shutting, EndClose
  <2>2. CommandInv'
    BY <1>1, <1>2, <1>3 DEF SupInv, CommandInv
  <2> QED BY <1>1, <1>3, <2>1, <2>2 DEF Kept, AnswersWell
<1>4. CASE slot' = Shut(slot) /\ closing' = "closed"
  <2>1. PICK m \in Nat : m = slot.process + 1
    BY <1>1
  <2>2. slot' = [slot EXCEPT !.registered = FALSE, !.process = m]
    BY <1>4, <2>1 DEF Shut
  <2>3. /\ slot' \in Slot /\ slot'.state = slot.state /\ slot'.epoch = slot.epoch
        /\ slot'.pending = slot.pending /\ slot'.active = slot.active
        /\ slot'.starting = slot.starting /\ slot'.cells = slot.cells
        /\ slot'.process = m
    BY <1>1, <2>2 DEF Slot
  <2>4. \A c \in Cells : /\ Leaving(slot', c) <=> Leaving(slot, c)
                         /\ Plain(slot', c) <=> Plain(slot, c)
                         /\ ~Holds(slot', c)
    <3>1. \A c \in Cells : slot'.cells[c].process # slot'.process
      BY <1>1, <2>1, <2>3
    <3> QED BY <2>3, <3>1 DEF Leaving, Plain, Holds
  <2>5. Queued(slot')
    BY <1>1, <2>3 DEF Queued
  <2>6. OneRuns(slot')
    BY <1>1, <2>1, <2>3 DEF OneRuns
  <2>7. Guarded(slot')
    BY <1>1, <2>3, <2>4 DEF Guarded, Stray
  <2>8. \A e : Before(slot, e) <=> Before(slot', e)
    BY <2>3, <2>4 DEF Before
  <2>9. Tells(slot', TRUE)
    BY <1>1, <2>3, <2>4, <2>8 DEF Tells
  <2>10. Shutting' = TRUE
    BY <1>4 DEF Shutting
  <2>11. AnswersWell(slot, slot', TRUE)
    BY DEF AnswersWell
  <2>12. CommandInv'
    BY <1>1, <1>2, <2>3, <2>8 DEF SupInv, CommandInv
  <2> QED BY <2>3, <2>5, <2>6, <2>7, <2>9, <2>10, <2>11, <2>12 DEF Kept
<1> QED BY <1>3, <1>4 DEF EndClose

\* reclaimParkedMemory lists the slot and captures its epoch, or stops before.
LEMMA SweepStep ==
  ASSUME SupInv, TypeOK, Listed \/ BeginEviction
  PROVE  Kept
<1>1. /\ SlotInv(slot, Shutting) /\ slot' = slot /\ command' = command /\ closing' = closing
      /\ Replacing' = Replacing /\ Shutting' = Shutting
  BY DEF SupInv, Listed, BeginEviction, Replacing, Shutting
<1>2. Careful => ~slot.starting
  BY DEF SupInv, SlotInv, CommandInv, Guarded, Listed, BeginEviction, NoSweep
<1>3. sweep'.stage = "evicting" => sweep'.previous = slot.epoch
  BY DEF Listed, BeginEviction, NoSweep
<1>4. CommandInv'
  BY <1>1, <1>2, <1>3, NowIsBefore DEF SupInv, CommandInv
<1> QED BY <1>1, <1>4 DEF Kept, AnswersWell

\* The eviction is over: the process is gone, and the epoch is the one after the
\* captured one; or it failed (reclaimParkedMemory).
LEMMA EndEvictionStep ==
  ASSUME SupInv, TypeOK, EndEviction
  PROVE  Kept
<1>1. /\ SlotInv(slot, Shutting) /\ slot \in Slot /\ slot.process \in Nat
      /\ Before(slot, sweep.previous) /\ (Careful => ~slot.starting)
      /\ command' = command /\ sweep' = NoSweep
      /\ Replacing' = Replacing /\ Shutting' = Shutting
  BY DEF SupInv, SlotInv, CommandInv, EndEviction, Slot, Replacing, Shutting, NoSweep
<1>2. PICK e \in Nat : e = sweep.previous
  BY DEF TypeOK
<1>3. ASSUME slot'.starting = slot.starting, \A f : Before(slot, f) => Before(slot', f)
      PROVE  CommandInv'
  BY <1>1, <1>3 DEF SupInv, CommandInv, NoSweep
<1>4. CASE slot' = slot
  BY <1>1, <1>3, <1>4 DEF Kept, AnswersWell
<1>5. CASE slot' = [Shut(slot) EXCEPT !.state = "closed", !.epoch = sweep.previous + 1]
  <2>1. PICK m \in Nat, n \in Nat, t \in States :
               m = slot.process + 1 /\ n = e + 1 /\ t = "closed"
    BY <1>1 DEF States
  <2>2. slot' = [slot EXCEPT !.registered = FALSE, !.process = m, !.state = t, !.epoch = n]
    BY <1>2, <1>5, <2>1 DEF Shut
  <2>3. /\ slot' \in Slot /\ slot'.pending = slot.pending /\ slot'.active = slot.active
        /\ slot'.cells = slot.cells /\ slot'.starting = slot.starting
        /\ slot'.epoch = n /\ slot'.process = m
    BY <1>1, <2>2 DEF Slot
  <2>4. slot'.epoch = e + 1 /\ slot'.process = slot.process + 1
    BY <2>1, <2>3
  <2>5. /\ SlotInv(slot', Shutting) /\ AnswersWell(slot, slot', Shutting)
        /\ \A f : Before(slot, f) <=> Before(slot', f)
    BY <1>1, <1>2, <2>3, <2>4, NewEpochKeeps
  <2> QED BY <1>1, <1>3, <2>3, <2>5 DEF Kept
<1> QED BY <1>4, <1>5 DEF EndEviction

\* A step that changes nothing.
LEMMA StutterKept == ASSUME SupInv, UNCHANGED vars PROVE Kept
<1>1. Good(slot, slot', Shutting)
  BY DEF vars, Good, SupInv, KeepsCapture, AnswersWell
<1> QED BY <1>1, GoodIsKept DEF vars

LEMMA StepKept ==
  ASSUME SupInv, TypeOK, [Next]_vars
  PROVE  Kept
<1>1. CASE Started
  <2>1. UNCHANGED <<command, closing, sweep>>
    BY <1>1 DEF Started
  <2> QED BY <1>1, <2>1, StartedStep, GoodIsKept
<1>2. ASSUME NEW c \in Cells, CellStep(c) PROVE Kept
  <2>1. CASE GraceExpires(c)
    BY <2>1, GraceExpiresStep
  <2>2. CASE Escalated(c)
    BY <2>2, EscalatedStep
  <2>3. CASE ~GraceExpires(c) /\ ~Escalated(c)
    <3>1. Good(slot, slot', Shutting)
      BY <1>2, <2>3, RunCellStep, TransportStep, SpillWrittenStep, SpillFailsStep, StopStep
         DEF CellStep
    <3>2. UNCHANGED <<command, closing, sweep>>
      BY <1>2, <2>3 DEF CellStep, RunCell, TransportSettles, SpillWritten, SpillFails, Stop
    <3> QED BY <3>1, <3>2, GoodIsKept
  <2> QED BY <2>1, <2>2, <2>3
<1>3. CASE Owner
  BY <1>3, BeginReplaceStep, ReplaceStep, ReplaceOverStep, StateStep, EndCloseStep, SweepStep,
     EndEvictionStep DEF Owner
<1>4. CASE UNCHANGED vars
  BY <1>4, StutterKept
<1> QED BY <1>1, <1>2, <1>3, <1>4 DEF Next

LEMMA InitSup == Init => SupInv
<1> SUFFICES ASSUME Init PROVE SupInv
  OBVIOUS
<1>1. NewCell \in Cell
  BY DEF NewCell, Cell, Phases
<1>2. slot \in Slot
  <2>1. [c \in Cells |-> NewCell] \in [Cells -> Cell]
    BY <1>1
  <2> QED BY <2>1 DEF Init, Slot, States
<1>3. /\ slot.registered /\ slot.state = "starting" /\ slot.pending = <<>>
      /\ slot.active = None /\ slot.epoch = 1 /\ slot.process = 1
      /\ command = NoCommand /\ closing = "no" /\ sweep = NoSweep
  BY DEF Init
<1>4. \A c \in Cells : /\ slot.cells[c].phase = "new" /\ slot.cells[c].process = 0
                       /\ slot.cells[c].owed = FALSE /\ slot.cells[c].previous = 0
  BY DEF Init, NewCell
<1>5. \A c \in Cells : ~Leaving(slot, c) /\ ~Holds(slot, c) /\ ~Plain(slot, c) /\ c # None
  BY <1>4, SupervisorAssumption DEF Leaving, Holds, Plain
<1>6. Queued(slot) /\ OneRuns(slot) /\ Guarded(slot) /\ Tells(slot, Shutting)
  BY <1>3, <1>4, <1>5 DEF Queued, OneRuns, Guarded, Tells, Stray
<1>7. CommandInv
  BY <1>3 DEF CommandInv, Replacing, NoCommand, NoSweep
<1> QED BY <1>2, <1>6, <1>7 DEF SupInv, SlotInv

------------------------------------------------------------------------------

\* The slot has its type and the queue its bound, whoever parks what and however
\* starts and replacements overlap.
Fits(k) == k \in Slot /\ Len(k.pending) <= MaxPendingCells

LEMMA OnlyCellFits ==
  ASSUME NEW k, Fits(k), NEW c, NEW p, OnlyCell(k, p, c)
  PROVE  Fits(p)
BY DEF Fits, OnlyCell

\* The queue only gets shorter in a drain (drain).
LEMMA DrainFits ==
  ASSUME NEW k, Fits(k), NEW s \in Drained(k)
  PROVE  Fits(s)
<1>1. k \in Slot /\ s \in Slot /\ Len(k.pending) \in Nat
  BY DrainedIs DEF Fits, Slot
<1>2. CASE s = k
  BY <1>2
<1>3. ASSUME NEW m \in 0..Len(k.pending), DrainTo(k, s, m) PROVE Fits(s)
  <2>1. Len(s.pending) = Len(k.pending) - m
    BY <1>3 DEF DrainTo
  <2> QED BY <1>1, <2>1, SupervisorAssumption DEF Fits
<1> QED BY <1>1, <1>2, <1>3, DrainedIs

LEMMA FinishedFits ==
  ASSUME NEW k, Fits(k), NEW c \in Cells, NEW s \in Finished(k, c)
  PROVE  Fits(s)
<1>1. k \in Slot
  BY DEF Fits
<1>2. PICK p : p = Resolved(k, c)
  OBVIOUS
<1>3. Fits(p)
  BY <1>1, <1>2, ResolvedIs, OnlyCellFits
<1>4. s \in Drained(p)
  BY <1>2 DEF Finished, Resolved
<1> QED BY <1>3, <1>4, DrainFits

LEMMA SettledFits ==
  ASSUME NEW k, Fits(k), NEW c \in Cells, NEW s \in SettledSlot(k, c)
  PROVE  Fits(s)
<1>1. k \in Slot
  BY DEF Fits
<1>2. PICK f : f = Freed(k, c)
  OBVIOUS
<1>3. Fits(f)
  BY <1>1, <1>2, FreedIs, OnlyCellFits
<1>4. s = k \/ s = f \/ s \in Finished(f, c)
  BY <1>2 DEF SettledSlot
<1> QED BY <1>3, <1>4, FinishedFits

\* One cell of the slot is replaced.
LEMMA CellFits ==
  ASSUME NEW k, Fits(k), NEW c \in Cells, NEW x \in Cell, NEW p, p = WithCell(k, c, x)
  PROVE  Fits(p)
<1>1. k \in Slot /\ x \in Cell
  BY DEF Fits
<1> QED BY <1>1, WithCellIs, OnlyCellFits

LEMMA StateFits ==
  ASSUME NEW k, Fits(k), NEW t \in States, NEW p, p = [k EXCEPT !.state = t]
  PROVE  Fits(p)
<1>1. k \in Slot
  BY DEF Fits
<1> QED BY <1>1, SetState DEF Fits

LEMMA InterruptedFits ==
  ASSUME NEW k, Fits(k), NEW c \in Cells
  PROVE  Fits(Interrupted(k, c))
<1>1. CASE k.cells[c].grace # "none"
  BY <1>1 DEF Interrupted
<1>2. CASE k.cells[c].grace = "none"
  <2>1. PICK x : x = [k.cells[c] EXCEPT !.grace = "armed"]
    OBVIOUS
  <2>2. x \in Cell
    BY <2>1 DEF Fits, Slot, Cell
  <2>3. Interrupted(k, c) = WithCell(k, c, x)
    BY <1>2, <2>1 DEF Interrupted, WithCell
  <2> QED BY <2>2, <2>3, CellFits
<1> QED BY <1>1, <1>2

\* A new process, and the epoch after the one captured.
LEMMA ReplacedFits ==
  ASSUME NEW k, Fits(k), NEW e \in Nat
  PROVE  Fits(Replaced(k, e))
<1>1. k \in Slot /\ k.process \in Nat
  BY DEF Fits, Slot
<1>2. PICK m \in Nat, n \in Nat : m = k.process + 1 /\ n = e + 1
  BY <1>1
<1>3. Replaced(k, e) = [k EXCEPT !.process = m, !.epoch = n]
  BY <1>2 DEF Replaced
<1> QED BY <1>1, <1>3 DEF Fits, Slot

LEMMA RunCellFits ==
  ASSUME Fits(slot), NEW c \in Cells, RunCell(c)
  PROVE  Fits(slot')
<1>1. slot \in Slot /\ slot.cells \in [Cells -> Cell] /\ slot.cells[c] \in Cell
      /\ slot.pending \in Seq(Cells) /\ Len(slot.pending) \in Nat
  BY DEF Fits, Slot
<1>2. CASE slot' = [slot EXCEPT !.cells[c].phase = "refused"]
  <2>1. PICK x : x = [slot.cells[c] EXCEPT !.phase = "refused"]
    OBVIOUS
  <2>2. x \in Cell
    BY <1>1, <2>1 DEF Cell, Phases
  <2>3. slot' = WithCell(slot, c, x)
    BY <1>2, <2>1 DEF WithCell
  <2> QED BY <2>2, <2>3, CellFits
<1>3. CASE ~(slot' = [slot EXCEPT !.cells[c].phase = "refused"])
  <2>1. PICK p : p = [slot EXCEPT !.pending = Append(@, c), !.cells[c].phase = "pending"]
    OBVIOUS
  <2>2. /\ slot' = p \/ slot' \in Drained(p)
        /\ ~QueueFull(slot)
    BY <1>3, <2>1 DEF RunCell
  <2>3. PICK x : x = [slot.cells[c] EXCEPT !.phase = "pending"]
    OBVIOUS
  <2>4. x \in Cell
    BY <1>1, <2>3 DEF Cell, Phases
  <2>5. PICK q : q = Append(slot.pending, c)
    OBVIOUS
  <2>6. q \in Seq(Cells) /\ Len(q) = Len(slot.pending) + 1
    BY <1>1, <2>5
  <2>7. PICK f : f = [slot.cells EXCEPT ![c] = x]
    OBVIOUS
  <2>8. f \in [Cells -> Cell]
    BY <1>1, <2>4, <2>7
  <2>9. p = [slot EXCEPT !.pending = q, !.cells[c] = x]
    BY <2>1, <2>3, <2>5
  <2>10. p = [slot EXCEPT !.pending = q, !.cells = f]
    BY <2>7, <2>9
  <2>11. p \in Slot /\ p.pending = q
    BY <1>1, <2>6, <2>8, <2>10 DEF Slot
  <2>12. Len(slot.pending) < MaxPendingCells
    <3>1. slot.pending = <<>> => Len(slot.pending) = 0
      OBVIOUS
    <3> QED BY <1>1, <2>2, <3>1, SupervisorAssumption DEF QueueFull
  <2>13. Fits(p)
    BY <1>1, <2>6, <2>11, <2>12, SupervisorAssumption DEF Fits
  <2> QED BY <2>2, <2>13, DrainFits
<1> QED BY <1>2, <1>3

\* A cell's own steps keep the slot's type and the queue's bound.
LEMMA CellStepFits ==
  ASSUME TypeOK, NEW c \in Cells, CellStep(c)
  PROVE  Fits(slot')
<1>1. /\ Fits(slot) /\ slot \in Slot /\ slot.cells \in [Cells -> Cell] /\ slot.cells[c] \in Cell
      /\ slot.epoch \in Nat
  BY DEF TypeOK, Fits, Slot
<1>2. CASE RunCell(c)
  BY <1>1, <1>2, RunCellFits
<1>3. CASE TransportSettles(c)
  <2>1. PICK x : x = [slot.cells[c] EXCEPT !.owed = FALSE]
    OBVIOUS
  <2>2. x \in Cell
    BY <1>1, <2>1 DEF Cell
  <2>3. PICK k : k = WithCell(slot, c, x)
    OBVIOUS
  <2>4. slot' \in SettledSlot(k, c)
    BY <1>3, <2>1, <2>3 DEF TransportSettles, WithCell
  <2>5. Fits(k)
    BY <1>1, <2>2, <2>3, CellFits
  <2> QED BY <2>4, <2>5, SettledFits
<1>4. CASE SpillWritten(c)
  BY <1>1, <1>4, FinishedFits DEF SpillWritten
<1>5. CASE SpillFails(c)
  <2>1. PICK x : x = [slot.cells[c] EXCEPT !.phase = "lost"]
    OBVIOUS
  <2>2. x \in Cell
    BY <1>1, <2>1 DEF Cell, Phases
  <2>3. slot' = WithCell(slot, c, x)
    BY <1>5, <2>1 DEF SpillFails, WithCell
  <2> QED BY <1>1, <2>2, <2>3, CellFits
<1>6. CASE Stop(c)
  BY <1>1, <1>6, InterruptedFits DEF Stop
<1>7. CASE GraceExpires(c)
  <2>1. PICK x : x = [slot.cells[c] EXCEPT !.grace = "fired", !.previous = slot.epoch]
    OBVIOUS
  <2>2. x \in Cell
    BY <1>1, <2>1 DEF Cell
  <2>3. PICK t \in States : t = "wedged"
    BY DEF States
  <2>4. PICK j : j = [slot EXCEPT !.state = t]
    OBVIOUS
  <2>5. Fits(j)
    BY <1>1, <2>4, StateFits
  <2>6. slot' = WithCell(j, c, x)
    <3>1. slot' = [slot EXCEPT !.state = "wedged",
                               !.cells[c] = [slot.cells[c] EXCEPT !.grace = "fired",
                                                                  !.previous = slot.epoch]]
      BY <1>1, <1>7 DEF GraceExpires, Slot
    <3>2. j = [slot EXCEPT !.state = "wedged"]
      BY <2>3, <2>4
    <3>3. slot' = [j EXCEPT !.cells[c] = x]
      BY <1>1, <2>1, <3>1, <3>2 DEF Slot
    <3> QED BY <3>3 DEF WithCell
  <2> QED BY <2>2, <2>5, <2>6, CellFits
<1>8. CASE Escalated(c)
  <2>1. PICK ok \in BOOLEAN : slot' \in GivenUp(slot, c, ok)
    BY <1>8 DEF Escalated
  <2>2. PICK p : p = Renewed(slot, c, ok)
    OBVIOUS
  <2>3. PICK t \in States : t = (IF ok THEN "idle" ELSE "wedged")
    BY DEF States
  <2>4. PICK s : s \in SettledSlot(p, c) /\ slot' \in Drained([s EXCEPT !.state = t])
    BY <2>1, <2>2, <2>3 DEF GivenUp, Renewed
  <2>5. PICK x : x = [slot.cells[c] EXCEPT !.previous = 0]
    OBVIOUS
  <2>6. x \in Cell /\ slot.cells[c].previous \in Nat
    BY <1>1, <2>5 DEF Cell
  <2>7. PICK j : j = WithCell(slot, c, x)
    OBVIOUS
  <2>8. Fits(j)
    BY <1>1, <2>6, <2>7, CellFits
  <2>9. p = j \/ p = Replaced(j, slot.cells[c].previous)
    BY <2>2, <2>5, <2>7 DEF Renewed, WithCell
  <2>10. Fits(p)
    BY <2>6, <2>8, <2>9, ReplacedFits
  <2>11. Fits(s)
    BY <2>4, <2>10, SettledFits
  <2>12. PICK u : u = [s EXCEPT !.state = t]
    OBVIOUS
  <2>13. Fits(u)
    BY <2>11, <2>12, StateFits
  <2> QED BY <2>4, <2>12, <2>13, DrainFits
<1> QED BY <1>2, <1>3, <1>4, <1>5, <1>6, <1>7, <1>8 DEF CellStep

\* What the owner does keeps them too.
LEMMA OwnerFits ==
  ASSUME TypeOK, Started \/ Owner
  PROVE  Fits(slot')
<1>1. /\ Fits(slot) /\ slot \in Slot /\ slot.epoch \in Nat /\ slot.active \in Cells \cup {None}
      /\ command.previous \in Nat /\ sweep.previous \in Nat /\ slot.process \in Nat
  BY DEF TypeOK, Fits, Slot
<1>2. CASE Started
  <2>1. CASE slot' = [slot EXCEPT !.starting = FALSE, !.state = "idle"]
    BY <1>1, <2>1 DEF Fits, Slot, States
  <2>2. CASE slot' = [slot EXCEPT !.starting = FALSE]
    BY <1>1, <2>2 DEF Fits, Slot
  <2> QED BY <1>2, <2>1, <2>2 DEF Started
<1>3. ASSUME NEW kind \in Kinds, BeginReplace(kind) PROVE Fits(slot')
  <2>1. PICK t \in States : t = "wedged"
    BY DEF States
  <2>2. PICK k : k = [slot EXCEPT !.state = t]
    OBVIOUS
  <2>3. slot' = k \/ \E c \in Cells : slot' = Interrupted(k, c)
    BY <1>1, <1>3, <2>1, <2>2 DEF BeginReplace
  <2>4. Fits(k)
    BY <1>1, <2>2, StateFits
  <2> QED BY <2>3, <2>4, InterruptedFits
<1>4. CASE Replace
  BY <1>1, <1>4 DEF Replace
<1>5. CASE ReplaceEnds
  <2>1. PICK t \in States : t = "idle"
    BY DEF States
  <2>2. PICK k : k = Replaced(slot, command.previous)
    OBVIOUS
  <2>3. Fits(k)
    BY <1>1, <2>2, ReplacedFits
  <2>4. slot' = [k EXCEPT !.state = t]
    BY <1>5, <2>1, <2>2 DEF ReplaceEnds
  <2> QED BY <2>3, <2>4, StateFits
<1>6. CASE ReplaceFails
  <2>1. PICK n \in Nat, t \in States : n = command.previous + 1 /\ t = "wedged"
    BY <1>1 DEF States
  <2>2. slot' = slot \/ slot' = [slot EXCEPT !.epoch = n, !.state = t]
    BY <1>6, <2>1 DEF ReplaceFails
  <2> QED BY <1>1, <2>2 DEF Fits, Slot
<1>7. CASE Park \/ Rebind \/ BeginClose
  <2>1. \E t \in States : slot' = [slot EXCEPT !.state = t]
    BY <1>7 DEF Park, Rebind, BeginClose, States
  <2> QED BY <1>1, <2>1, StateFits
<1>8. CASE EndClose \/ EndEviction
  <2>1. PICK m \in Nat, n \in Nat, t \in States :
               m = slot.process + 1 /\ n = sweep.previous + 1 /\ t = "closed"
    BY <1>1 DEF States
  <2>2. \/ slot' = slot
        \/ slot' = [slot EXCEPT !.registered = FALSE, !.process = m]
        \/ slot' = [slot EXCEPT !.registered = FALSE, !.process = m, !.state = t, !.epoch = n]
    BY <1>8, <2>1 DEF EndClose, EndEviction, Shut
  <2> QED BY <1>1, <2>2 DEF Fits, Slot
<1>9. CASE Listed \/ BeginEviction
  BY <1>1, <1>9 DEF Listed, BeginEviction
<1> QED BY <1>2, <1>3, <1>4, <1>5, <1>6, <1>7, <1>8, <1>9 DEF Owner

LEMMA InitType == Init => TypeOK
<1> SUFFICES ASSUME Init PROVE TypeOK
  OBVIOUS
<1>1. slot \in Slot
  BY InitSup DEF SupInv, SlotInv
<1>2. Len(slot.pending) = 0
  BY DEF Init
<1> QED BY <1>1, <1>2, SupervisorAssumption DEF Init, TypeOK, NoCommand, NoSweep

Commands == [kind : Kinds \cup {None}, stage : {"none", "stopping", "restarting"},
             target : Cells \cup {None}, previous : Nat]

LEMMA StepType == TypeOK /\ [Next]_vars => TypeOK'
<1> SUFFICES ASSUME TypeOK, [Next]_vars PROVE TypeOK'
  OBVIOUS
<1>1. Fits(slot')
  BY CellStepFits, OwnerFits DEF Next, vars, TypeOK, Fits
<1>2. /\ command' \in [kind : Kinds \cup {None}, stage : {"none", "stopping", "restarting"},
                       target : Cells \cup {None}, previous : Nat]
      /\ closing' \in {"no", "closing", "closed"}
      /\ sweep' \in [stage : {"none", "listed", "evicting"}, previous : Nat]
      /\ commands' \in 0..MaxCommands /\ failures' \in 0..MaxFailures
  <2>1. slot.active \in Cells \cup {None} /\ slot.epoch \in Nat
    BY DEF TypeOK, Slot
  <2>2. \/ command' = command \/ command' = NoCommand
        \/ \E kind \in Kinds : command' = [kind |-> kind, stage |-> "stopping",
                                           target |-> slot.active, previous |-> 0]
        \/ command' = [command EXCEPT !.stage = "restarting", !.previous = slot.epoch]
    BY DEF Next, vars, Started, CellStep, RunCell, TransportSettles, SpillWritten, SpillFails,
           Stop, GraceExpires, Escalated, Owner, BeginReplace, Replace, ReplaceEnds,
           ReplaceFails, Park, Rebind, BeginClose, EndClose, Listed, BeginEviction,
           EndEviction
  <2>3. closing' = closing \/ closing' \in {"no", "closing", "closed"}
    BY DEF Next, vars, Started, CellStep, RunCell, TransportSettles, SpillWritten, SpillFails,
           Stop, GraceExpires, Escalated, Owner, BeginReplace, Replace, ReplaceEnds,
           ReplaceFails, Park, Rebind, BeginClose, EndClose, Listed, BeginEviction,
           EndEviction
  <2>4. \/ commands' = commands
        \/ commands < MaxCommands /\ commands' = commands + 1
    BY DEF Next, vars, Started, CellStep, RunCell, TransportSettles, SpillWritten, SpillFails,
           Stop, GraceExpires, Escalated, Owner, BeginReplace, Replace, ReplaceEnds,
           ReplaceFails, Park, Rebind, BeginClose, EndClose, Listed, BeginEviction,
           EndEviction, Command
  <2>5. failures' = failures \/ Failure
    BY DEF Next, vars, Started, CellStep, RunCell, TransportSettles, SpillWritten, SpillFails,
           Stop, GraceExpires, Escalated, Owner, BeginReplace, Replace, ReplaceEnds,
           ReplaceFails, Park, Rebind, BeginClose, EndClose, Listed, BeginEviction,
           EndEviction
  <2>6. command' \in [kind : Kinds \cup {None}, stage : {"none", "stopping", "restarting"},
                      target : Cells \cup {None}, previous : Nat]
    <3> SUFFICES command' \in Commands
      BY DEF Commands
    <3>1. command \in Commands
      BY DEF TypeOK, Commands
    <3>2. CASE command' = NoCommand
      BY <3>2 DEF NoCommand, Commands
    <3>3. CASE \E kind \in Kinds : command' = [kind |-> kind, stage |-> "stopping",
                                                target |-> slot.active, previous |-> 0]
      BY <2>1, <3>3 DEF Commands
    <3>4. CASE command' = [command EXCEPT !.stage = "restarting", !.previous = slot.epoch]
      BY <2>1, <3>1, <3>4 DEF Commands
    <3> QED BY <2>2, <3>1, <3>2, <3>3, <3>4
  <2>7. closing' \in {"no", "closing", "closed"}
    BY <2>3 DEF TypeOK
  <2>9. \/ sweep' = sweep \/ sweep' = NoSweep
        \/ sweep' = [stage |-> "listed", previous |-> 0]
        \/ sweep' = [stage |-> "evicting", previous |-> slot.epoch]
    BY DEF Next, vars, Started, CellStep, RunCell, TransportSettles, SpillWritten, SpillFails,
           Stop, GraceExpires, Escalated, Owner, BeginReplace, Replace, ReplaceEnds,
           ReplaceFails, Park, Rebind, BeginClose, EndClose, Listed, BeginEviction,
           EndEviction
  <2>10. sweep' \in [stage : {"none", "listed", "evicting"}, previous : Nat]
    BY <2>1, <2>9 DEF TypeOK, NoSweep
  <2>8. commands' \in 0..MaxCommands /\ failures' \in 0..MaxFailures
    BY <2>4, <2>5, SupervisorAssumption DEF TypeOK, Failure
  <2> QED BY <2>6, <2>7, <2>8, <2>10
<1> QED BY <1>1, <1>2 DEF TypeOK, Fits

\* The variables keep their types and the queue its bound, whatever the owner does:
\* runCell refuses a cell before the bound is passed, and every other handler only
\* shortens the queue.
THEOREM SupervisorTypeCorrect == Spec => []TypeOK
BY InitType, StepType, PTL DEF Spec

LEMMA SupervisorInvariant == Spec => [](TypeOK /\ SupInv)
<1>1. TypeOK /\ SupInv /\ [Next]_vars => SupInv'
  <2> SUFFICES ASSUME TypeOK, SupInv, [Next]_vars PROVE SupInv'
    OBVIOUS
  <2>1. Kept
    BY StepKept
  <2> QED BY <2>1 DEF Kept, SupInv
<1> QED BY <1>1, InitType, StepType, InitSup, PTL DEF Spec

LEMMA InvIsSerial == ASSUME Careful PROVE SupInv => SerialInProcess
BY DEF SupInv, SlotInv, Guarded, Holds, InProcess, SerialInProcess

\* At most one cell is owed an answer by the process that is the slot's: a cell that
\* was given up keeps the slot sealed until its process is gone (settle, drain and
\* escalateToProcessIsolation), if nobody parks a kernel that is wedged or closed or
\* commands one whose register has not returned. Replacements overlap as they like.
THEOREM OneCellPerProcess == ASSUME Careful PROVE Spec => []SerialInProcess
BY SupervisorInvariant, InvIsSerial, PTL

\* A caller is told when the kernel was restarted under its cell, whoever resets, parks,
\* evicts and closes it: an answer that says nothing of a restart comes with the process
\* the cell ran in (finishCell compares the epoch that the cell started under with the
\* slot's), unless a close ended the process, or the cell was handed over while a
\* replacement had captured the epoch and not yet written it.
THEOREM RestartsAreTold == Spec => RestartIsTold
<1>1. TypeOK /\ SupInv /\ [Next]_vars =>
        [\A c \in Cells : slot.cells[c].crossed \/ ToldOfRestart(c)]_vars
  BY StepKept DEF Kept, AnswersWell, Answers, ToldOfRestart, Shutting
<1> QED BY <1>1, SupervisorInvariant, PTL DEF Spec, RestartIsTold
=============================================================================
