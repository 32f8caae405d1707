---------------------------- MODULE WorkStartProofs ---------------------------
(***************************************************************************)
(* Theorems of WorkStart: no start writes over a run, and no caller is     *)
(* answered by a pass that began before it asked.                          *)
(***************************************************************************)
EXTENDS WorkStart, SequenceTheorems, TLAPS

Active == {"creating", "draining"}

Stages == Over \cup {"idle", "queued", "creating", "writing", "draining"}

Leaders == [at : {"rest", "entry", "rows"}, requested : Nat, handled : Nat, pass : Nat,
            waiting : SUBSET Calls, batch : SUBSET Calls, left : SUBSET Calls,
            rows : SUBSET Submits]

TypesFit ==
  /\ pc \in [Calls -> Stages] /\ chain \in Seq(Starts \cup Submits)
  /\ behind \in [Starts -> Starts \cup {None}] /\ pending \in Starts \cup {None}
  /\ record \in [by : Starts \cup {None}, ready : SUBSET Submits, tasks : SUBSET Submits]
  /\ port \in BOOLEAN /\ leader \in Leaders
  /\ unseen \subseteq Calls /\ crashes \in Nat /\ faults \in Nat

LeaderFits ==
  /\ \A c \in leader.batch \cup leader.waiting : pc[c] = "draining"
  /\ leader.waiting \cap leader.batch = {}
  /\ leader.left \subseteq leader.batch
  /\ leader.at = "rest" => leader = Resting
  /\ leader.at # "rest" => /\ leader.batch # {}
                           /\ leader.requested > leader.pass => leader.waiting # {}
  /\ leader.at = "rows" => leader.left # leader.batch
  /\ leader.left # leader.batch => unseen \cap leader.batch = {}
  /\ \A c \in unseen : pc[c] \in {"draining", "failed"}

ChainFits ==
  \A i \in 1..Len(chain) :
    /\ chain[i] \in Starts => pc[chain[i]] = "creating"
    /\ chain[i] \in Submits => pc[chain[i]] = "writing"
    /\ \A j \in 1..Len(chain) : i # j => chain[i] # chain[j]

LeaderInv == TypesFit /\ LeaderFits /\ ChainFits

\* One start at a time is past its check, and while one creates the run there is none.
StartsFit ==
  /\ \A s \in Starts : pc[s] \in Active => pending = s
  /\ pending # None => pc[pending] \in Active
  /\ \A s \in Starts : pc[s] = "queued" => pending \in {behind[s], None}
  /\ \A s, x \in Starts : pc[s] = "queued" /\ pc[x] = "queued" => s = x
  /\ \A s \in Starts : pc[s] = "creating" => ~Exists
  /\ \A s \in Starts : pc[s] = "created" => record.by = s

-----------------------------------------------------------------------------

LEMMA RestingTyped == Resting \in Leaders
BY DEF Resting, Leaders

LEMMA LeaderInit == Init => LeaderInv
<1> SUFFICES ASSUME Init PROVE LeaderInv
  OBVIOUS
<1>1. Len(chain) = 0 /\ chain \in Seq(Starts \cup Submits)
  BY DEF Init
<1>2. TypesFit
  BY <1>1, RestingTyped DEF Init, TypesFit, NoRun, Stages
<1>3. LeaderFits /\ ChainFits
  BY <1>1 DEF Init, LeaderFits, ChainFits, Resting
<1> QED BY <1>2, <1>3 DEF LeaderInv

\* The leader a call elects: its first pass is for that call.
Elected(c) == [at |-> "entry", requested |-> 1, handled |-> 0, pass |-> 1,
               waiting |-> {}, batch |-> {c}, left |-> {c}, rows |-> {}]

LEMMA Elects == ASSUME NEW c \in Calls
                PROVE  Joined(Resting, c) = Elected(c) /\ Elected(c) \in Leaders
<1> DEFINE asked == [Resting EXCEPT !.requested = @ + 1, !.waiting = @ \cup {c}]
<1>1. asked = [at |-> "rest", requested |-> 1, handled |-> 0, pass |-> 0,
               waiting |-> {c}, batch |-> {}, left |-> {}, rows |-> {}]
  <2>1. asked \in Leaders
    <3>1. Resting.requested + 1 \in Nat /\ Resting.waiting \cup {c} \in SUBSET Calls
      BY DEF Resting
    <3> QED BY <3>1, RestingTyped DEF Leaders
  <2>2. /\ asked.at = Resting.at /\ asked.requested = Resting.requested + 1
        /\ asked.handled = Resting.handled /\ asked.pass = Resting.pass
        /\ asked.waiting = Resting.waiting \cup {c} /\ asked.batch = Resting.batch
        /\ asked.left = Resting.left /\ asked.rows = Resting.rows
    BY RestingTyped DEF Leaders
  <2>3. /\ asked.at = "rest" /\ asked.requested = 1 /\ asked.handled = 0 /\ asked.pass = 0
        /\ asked.waiting = {c} /\ asked.batch = {} /\ asked.left = {} /\ asked.rows = {}
    BY <2>2 DEF Resting
  <2> HIDE DEF asked
  <2> QED BY <2>1, <2>3 DEF Leaders
<1>2. Joined(Resting, c) = NextPass(asked)
  BY DEF Joined, Resting
<1> HIDE DEF asked
<1>3. NextPass(asked) = Elected(c)
  <2>1. asked.requested > asked.handled
    BY <1>1
  <2>2. NextPass(asked) = [asked EXCEPT !.at = "entry", !.pass = asked.requested, !.waiting = {},
                                        !.batch = asked.waiting, !.left = asked.waiting]
    BY <2>1 DEF NextPass
  <2> QED BY <1>1, <2>2 DEF Elected
<1> QED BY <1>2, <1>3 DEF Elected, Leaders

\* A call that was not waiting for the leader joins it.
LEMMA Joins ==
  ASSUME LeaderInv, NEW c \in Calls, pc[c] # "draining", RequestDrain(c),
         \A i \in 1..Len(chain') : /\ \E k \in 1..Len(chain) : chain'[i] = chain[k]
                                   /\ chain'[i] # c
                                   /\ \A j \in 1..Len(chain') : i # j => chain'[i] # chain'[j]
  PROVE  /\ LeaderFits' /\ ChainFits'
         /\ pc' = [pc EXCEPT ![c] = "draining"]
         /\ pc' \in [Calls -> Stages]
         /\ unseen' \subseteq Calls
         /\ leader' \in Leaders
<1> USE DEF LeaderInv
<1>1. /\ pc' = [pc EXCEPT ![c] = "draining"] /\ unseen' = unseen \cup {c}
      /\ leader' = Joined(leader, c)
  BY DEF RequestDrain
<1>2. /\ pc'[c] = "draining" /\ \A x \in Calls : x # c => pc'[x] = pc[x]
      /\ pc' \in [Calls -> Stages]
      /\ unseen' \subseteq Calls
  BY <1>1 DEF TypesFit, Stages
<1>3. c \notin leader.batch \cup leader.waiting
  BY DEF LeaderFits
<1>4. ChainFits'
  <2>1. \A i \in 1..Len(chain') : chain'[i] \in Calls \ {c}
    BY ElementOfSeq DEF TypesFit, Calls
  <2> QED BY <2>1, <1>2 DEF ChainFits
<1>5. \A x \in unseen' : pc'[x] \in {"draining", "failed"}
  BY <1>1, <1>2 DEF LeaderFits, TypesFit, Leaders
<1>6. CASE leader.at = "rest"
  <2>1. leader = Resting
    BY <1>6 DEF LeaderFits
  <2>2. leader' = Elected(c) /\ leader' \in Leaders
    BY <2>1, <1>1, Elects
  <2>3. LeaderFits'
    BY <2>2, <1>2, <1>5 DEF LeaderFits, Elected
  <2> QED BY <2>2, <2>3, <1>1, <1>2, <1>4
<1>7. CASE leader.at # "rest"
  <2>1. leader' = [leader EXCEPT !.requested = @ + 1, !.waiting = @ \cup {c}]
    BY <1>7, <1>1 DEF Joined
  <2>2. /\ leader'.batch = leader.batch /\ leader'.left = leader.left /\ leader'.at = leader.at
        /\ leader'.waiting = leader.waiting \cup {c} /\ leader'.pass = leader.pass
    BY <2>1 DEF TypesFit, Leaders
  <2>3. LeaderFits'
    BY <2>2, <1>1, <1>2, <1>3, <1>5, <1>7 DEF LeaderFits, TypesFit, Leaders
  <2>4. leader' \in Leaders
    <3>1. leader.requested + 1 \in Nat /\ leader.waiting \cup {c} \in SUBSET Calls
      BY DEF TypesFit, Leaders
    <3> QED BY <2>1, <3>1 DEF TypesFit, Leaders
  <2> QED BY <2>3, <2>4, <1>1, <1>2, <1>4
<1> QED BY <1>6, <1>7

\* The rest of a queue, and a queue with one more.
LEMMA TailFits ==
  ASSUME LeaderInv, chain # <<>>, chain' = Tail(chain)
  PROVE  /\ Head(chain) \in Starts \cup Submits /\ chain' \in Seq(Starts \cup Submits)
         /\ (Head(chain) \in Starts => pc[Head(chain)] = "creating")
         /\ (Head(chain) \in Submits => pc[Head(chain)] = "writing")
         /\ \A i \in 1..Len(chain') :
              /\ \E k \in 1..Len(chain) : chain'[i] = chain[k]
              /\ chain'[i] # Head(chain)
              /\ \A j \in 1..Len(chain') : i # j => chain'[i] # chain'[j]
<1>1. chain \in Seq(Starts \cup Submits)
  BY DEF LeaderInv, TypesFit
<1>2. /\ Head(chain) \in Starts \cup Submits /\ Head(chain) = chain[1]
      /\ chain' \in Seq(Starts \cup Submits) /\ Len(chain') = Len(chain) - 1
      /\ Len(chain) \in Nat \ {0}
      /\ \A i \in 1..Len(chain') : chain'[i] = chain[i + 1]
  BY <1>1, HeadTailProperties, EmptySeq
<1>3. \A i \in 1..Len(chain') : i + 1 \in 1..Len(chain) /\ i + 1 # 1
  BY <1>2
<1> QED BY <1>2, <1>3 DEF LeaderInv, ChainFits

LEMMA LeaderNext == LeaderInv /\ [Next]_vars => LeaderInv'
<1> SUFFICES ASSUME LeaderInv, [Next]_vars PROVE LeaderInv'
  OBVIOUS
<1> USE DEF LeaderInv
<1>0. /\ Starts \subseteq Calls /\ Submits \subseteq Calls /\ Wakes \subseteq Calls
      /\ Boot \in Calls /\ None \notin Calls /\ Starts \cap Submits = {} /\ Boot \notin Starts \cup Submits
  BY StartAssumption DEF Calls
<1>1. ASSUME NEW s \in Starts, Authorize(s), pc[s] \in {"idle", "queued"},
             UNCHANGED <<record, crashes, faults>>, behind' \in [Starts -> Starts \cup {None}]
      PROVE  LeaderInv'
  <2>1. pending' = s /\ port' = TRUE
    BY <1>1 DEF Authorize
  <2>2. CASE RequestDrain(s) /\ UNCHANGED chain
    <3>1. \A i \in 1..Len(chain) : chain[i] # s
      BY <1>1 DEF ChainFits
    <3> QED BY <3>1, <2>1, <2>2, <1>0, <1>1, Joins DEF ChainFits, TypesFit
  <2>3. CASE /\ chain' = Append(chain, s) /\ pc' = [pc EXCEPT ![s] = "creating"]
             /\ UNCHANGED <<leader, unseen>>
    <3>1. /\ chain' \in Seq(Starts \cup Submits) /\ Len(chain') = Len(chain) + 1
          /\ Len(chain) \in Nat /\ chain'[Len(chain) + 1] = s
          /\ \A i \in 1..Len(chain) : chain'[i] = chain[i] /\ chain[i] \in Starts \cup Submits
      BY <2>3, AppendProperties, LenProperties, ElementOfSeq DEF TypesFit
    <3>2. /\ pc'[s] = "creating" /\ \A x \in Calls : x # s => pc'[x] = pc[x]
          /\ pc' \in [Calls -> Stages]
      BY <2>3, <1>0 DEF TypesFit, Stages
    <3>3. \A i \in 1..Len(chain) : chain[i] # s
      BY <1>1 DEF ChainFits
    <3>4. ChainFits'
      BY <3>1, <3>2, <3>3, <1>0 DEF ChainFits
    <3>5. LeaderFits'
      BY <2>3, <3>2, <1>1 DEF LeaderFits, TypesFit, Leaders
    <3> QED BY <3>1, <3>2, <3>4, <3>5, <2>1, <2>3, <1>1 DEF TypesFit
  <2> QED BY <1>1, <2>2, <2>3 DEF Authorize
<1>2. ASSUME NEW s \in Starts, Start(s)
      PROVE  LeaderInv'
  <2>1. CASE Authorize(s) /\ UNCHANGED behind
    BY <2>1, <1>1, <1>2 DEF Start, TypesFit
  <2>2. CASE /\ pending # None
             /\ pc' = [pc EXCEPT ![s] = "queued"] /\ behind' = [behind EXCEPT ![s] = pending]
             /\ UNCHANGED <<pending, chain, port, leader, unseen>>
    <3>1. \A x \in Calls : x # s => pc'[x] = pc[x]
      BY <2>2 DEF TypesFit
    <3>2. pc[s] = "idle" /\ UNCHANGED <<record, crashes, faults>>
      BY <1>2 DEF Start
    <3>3. TypesFit'
      BY <2>2, <3>2, <1>0 DEF TypesFit, Stages
    <3>4. LeaderFits' /\ ChainFits'
      BY <2>2, <3>1, <3>2, <1>0, ElementOfSeq DEF LeaderFits, ChainFits, TypesFit, Leaders
    <3> QED BY <3>3, <3>4
  <2> QED BY <1>2, <2>1, <2>2 DEF Start
<1>3. ASSUME NEW s \in Starts, Resume(s)
      PROVE  LeaderInv'
  BY <1>1, <1>3 DEF Resume, TypesFit
<1>4. ASSUME NEW c \in Submits, Submit(c)
      PROVE  LeaderInv'
  <2>1. /\ chain' = Append(chain, c) /\ pc' = [pc EXCEPT ![c] = "writing"] /\ pc[c] = "idle"
        /\ UNCHANGED <<behind, pending, record, port, leader, unseen, crashes, faults>>
    BY <1>4 DEF Submit
  <2>2. /\ chain' \in Seq(Starts \cup Submits) /\ Len(chain') = Len(chain) + 1
        /\ Len(chain) \in Nat /\ chain'[Len(chain) + 1] = c
        /\ \A i \in 1..Len(chain) : chain'[i] = chain[i] /\ chain[i] \in Starts \cup Submits
    BY <2>1, AppendProperties, LenProperties, ElementOfSeq DEF TypesFit
  <2>3. /\ pc'[c] = "writing" /\ \A x \in Calls : x # c => pc'[x] = pc[x]
        /\ pc' \in [Calls -> Stages]
    BY <2>1, <1>0 DEF TypesFit, Stages
  <2>4. \A i \in 1..Len(chain) : chain[i] # c
    BY <2>1, <1>4 DEF ChainFits
  <2>5. ChainFits'
    BY <2>2, <2>3, <2>4, <1>0 DEF ChainFits
  <2>6. LeaderFits'
    BY <2>1, <2>3 DEF LeaderFits, TypesFit, Leaders
  <2> QED BY <2>1, <2>2, <2>3, <2>5, <2>6 DEF TypesFit
<1>5. ASSUME NEW c \in Wakes, Wake(c)
      PROVE  LeaderInv'
  <2>1. \A i \in 1..Len(chain) : chain[i] # c
    <3>1. \A i \in 1..Len(chain) : chain[i] \in Starts \cup Submits
      BY ElementOfSeq DEF TypesFit
    <3> QED BY <3>1, StartAssumption
  <2> QED BY <2>1, <1>0, <1>5, Joins DEF Wake, ChainFits, TypesFit
<1>6. CASE Commit
  <2> DEFINE c == Head(chain)
  <2>0. chain # <<>> /\ chain' = Tail(chain) /\ UNCHANGED <<behind, port, crashes, faults>>
    BY <1>6 DEF Commit
  <2>1. PICK x \in Starts \cup Submits : x = c
    BY <2>0, TailFits
  <2>2. CASE /\ x \in Starts /\ record' = [NoRun EXCEPT !.by = x] /\ Settle({x}, "created")
             /\ UNCHANGED <<leader, unseen>>
    <3>1. pc[x] = "creating"
      BY <2>0, <2>1, <2>2, TailFits
    <3>2. /\ pc' \in [Calls -> Stages]
          /\ \A y \in Calls : y # x => pc'[y] = pc[y]
          /\ pending' \in Starts \cup {None}
      BY <2>2 DEF Settle, TypesFit, Over, Stages
    <3>3. LeaderFits'
      BY <2>2, <3>1, <3>2 DEF LeaderFits, TypesFit, Leaders
    <3>4. ChainFits'
      <4>1. \A i \in 1..Len(chain') : chain'[i] \in Calls \ {x}
        <5>1. \A i \in 1..Len(chain') : chain'[i] \in Starts \cup Submits
          BY <2>0, TailFits, ElementOfSeq
        <5> QED BY <5>1, <2>0, <2>1, <1>0, TailFits
      <4> QED BY <4>1, <2>0, <3>2, TailFits DEF ChainFits
    <3>5. TypesFit'
      BY <2>0, <2>2, <3>2, TailFits DEF TypesFit, NoRun
    <3> QED BY <3>3, <3>4, <3>5
  <2>3. CASE /\ x \in Submits /\ record' = [record EXCEPT !.ready = @ \cup {x}]
             /\ RequestDrain(x) /\ UNCHANGED pending
    <3>1. pc[x] = "writing" /\ x \in Calls
      BY <2>0, <2>1, <2>3, <1>0, TailFits
    <3>2. \A i \in 1..Len(chain') : /\ \E k \in 1..Len(chain) : chain'[i] = chain[k]
                                   /\ chain'[i] # x
                                   /\ \A j \in 1..Len(chain') : i # j => chain'[i] # chain'[j]
      BY <2>0, <2>1, TailFits
    <3>3. chain' \in Seq(Starts \cup Submits)
      BY <2>0, TailFits
    <3> QED BY <2>0, <2>3, <3>1, <3>2, <3>3, Joins DEF TypesFit
  <2> QED BY <1>6, <2>1, <2>2, <2>3 DEF Commit
<1>7. CASE CommitFails
  <2>0. chain # <<>> /\ chain' = Tail(chain) /\ Settle({Head(chain)}, "failed")
        /\ UNCHANGED <<behind, record, port, leader, unseen, crashes>> /\ faults' = faults + 1
    BY <1>7 DEF CommitFails
  <2>1. PICK x \in Starts \cup Submits : x = Head(chain) /\ pc[x] \in {"creating", "writing"}
    BY <2>0, TailFits
  <2>2. /\ pc' \in [Calls -> Stages]
        /\ \A y \in Calls : y # x => pc'[y] = pc[y]
        /\ pending' \in Starts \cup {None}
    BY <2>0, <2>1 DEF Settle, TypesFit, Over, Stages
  <2>3. LeaderFits'
    BY <2>0, <2>1, <2>2 DEF LeaderFits, TypesFit, Leaders
  <2>4. ChainFits'
    <3>1. \A i \in 1..Len(chain') : chain'[i] \in Starts \cup Submits
      BY <2>0, TailFits, ElementOfSeq
    <3>2. \A i \in 1..Len(chain') : chain'[i] \in Calls \ {x}
      BY <3>1, <2>0, <2>1, <1>0, TailFits
    <3> QED BY <3>2, <2>0, <2>2, TailFits DEF ChainFits
  <2>5. TypesFit'
    BY <2>0, <2>2, TailFits DEF TypesFit
  <2> QED BY <2>3, <2>4, <2>5
<1>8. ASSUME NEW cs, cs \subseteq leader.batch \cup leader.waiting, NEW answer \in Over, Settle(cs, answer)
      PROVE  /\ ChainFits' \/ ~(UNCHANGED chain)
             /\ pc' \in [Calls -> Stages]
             /\ pending' \in Starts \cup {None}
             /\ \A y \in Calls : pc'[y] = IF y \in cs THEN answer ELSE pc[y]
  <2>1. /\ pc' \in [Calls -> Stages]
        /\ pending' \in Starts \cup {None}
        /\ \A y \in Calls : pc'[y] = IF y \in cs THEN answer ELSE pc[y]
    BY <1>8 DEF Settle, TypesFit, Over, Stages
  <2>2. ASSUME UNCHANGED chain PROVE ChainFits'
    <3>1. \A i \in 1..Len(chain) : chain[i] \in Calls /\ chain[i] \in Starts \cup Submits
      BY <1>0, ElementOfSeq DEF TypesFit
    <3>2. \A y \in cs : pc[y] = "draining"
      BY <1>8 DEF LeaderFits
    <3> QED BY <2>1, <2>2, <3>1, <3>2 DEF ChainFits
  <2> QED BY <2>1, <2>2
<1>9. CASE ReadTable
  <2>1. PICK c \in leader.left :
          leader' = [leader EXCEPT !.at = "rows", !.left = @ \ {c},
                                   !.rows = IF port THEN record.ready ELSE {}]
    BY <1>9 DEF ReadTable
  <2>2. /\ leader.at = "entry" /\ unseen' = {}
        /\ UNCHANGED <<pc, behind, pending, chain, record, port, crashes, faults>>
    BY <1>9 DEF ReadTable
  <2>3. /\ leader' \in Leaders /\ leader'.at = "rows" /\ leader'.left = leader.left \ {c}
        /\ leader'.batch = leader.batch /\ leader'.waiting = leader.waiting
        /\ leader'.requested = leader.requested /\ leader'.pass = leader.pass
    BY <2>1 DEF TypesFit, Leaders
  <2>4. TypesFit'
    BY <2>2, <2>3 DEF TypesFit
  <2>5. LeaderFits' /\ ChainFits'
    BY <2>2, <2>3 DEF LeaderFits, ChainFits
  <2> QED BY <2>4, <2>5
<1>10. ASSUME NEW t \in Submits, TryRow(t)
       PROVE  LeaderInv'
  <2>1. /\ leader.at = "rows"
        /\ UNCHANGED <<pc, behind, pending, chain, port, unseen, crashes, faults>>
    BY <1>10 DEF TryRow
  <2>2. PICK rows \in SUBSET Submits : leader' = [leader EXCEPT !.rows = rows]
    <3>1. leader.rows \in SUBSET Submits
      BY DEF TypesFit, Leaders
    <3> QED BY <3>1, <1>10 DEF TryRow
  <2>3. record' \in [by : Starts \cup {None}, ready : SUBSET Submits, tasks : SUBSET Submits]
    <3>1. CASE record' = [record EXCEPT !.ready = @ \ {t}, !.tasks = @ \cup {t}]
      <4>1. record.ready \ {t} \in SUBSET Submits /\ record.tasks \cup {t} \in SUBSET Submits
        BY DEF TypesFit
      <4> QED BY <3>1, <4>1 DEF TypesFit
    <3> QED BY <1>10, <3>1 DEF TryRow, TypesFit
  <2>4. /\ leader' \in Leaders /\ leader'.at = leader.at /\ leader'.left = leader.left
        /\ leader'.batch = leader.batch /\ leader'.waiting = leader.waiting
        /\ leader'.requested = leader.requested /\ leader'.pass = leader.pass
    BY <2>2 DEF TypesFit, Leaders
  <2>5. TypesFit'
    BY <2>1, <2>3, <2>4 DEF TypesFit
  <2>6. LeaderFits' /\ ChainFits'
    BY <2>1, <2>4 DEF LeaderFits, ChainFits
  <2> QED BY <2>5, <2>6
<1>11. CASE EndRows
  <2>1. /\ leader.at = "rows" /\ leader' = [leader EXCEPT !.at = "entry"]
        /\ UNCHANGED <<pc, behind, pending, chain, record, port, unseen, crashes, faults>>
    BY <1>11 DEF EndRows
  <2>2. /\ leader' \in Leaders /\ leader'.at = "entry" /\ leader'.left = leader.left
        /\ leader'.batch = leader.batch /\ leader'.waiting = leader.waiting
        /\ leader'.requested = leader.requested /\ leader'.pass = leader.pass
    BY <2>1 DEF TypesFit, Leaders
  <2>3. TypesFit'
    BY <2>1, <2>2 DEF TypesFit
  <2>4. LeaderFits' /\ ChainFits'
    BY <2>1, <2>2 DEF LeaderFits, ChainFits
  <2> QED BY <2>3, <2>4
<1>12. CASE EndPass
  <2>0. /\ leader.at = "entry" /\ leader.left = {} /\ Settle(leader.batch, "served")
        /\ leader' = NextPass([leader EXCEPT !.handled = leader.pass])
        /\ UNCHANGED <<behind, chain, record, port, unseen, crashes, faults>>
    BY <1>12 DEF EndPass
  <2>1. /\ pc' \in [Calls -> Stages]
        /\ pending' \in Starts \cup {None} /\ ChainFits'
        /\ \A y \in Calls : pc'[y] = IF y \in leader.batch THEN "served" ELSE pc[y]
    BY <2>0, <1>8 DEF Over
  <2>2. unseen \cap leader.batch = {} /\ leader.batch # {}
    BY <2>0 DEF LeaderFits
  <2>3. CASE leader.requested > leader.pass
    <3>1. leader' = [leader EXCEPT !.handled = leader.pass, !.at = "entry", !.pass = leader.requested,
                                   !.waiting = {}, !.batch = leader.waiting, !.left = leader.waiting]
      BY <2>0, <2>3 DEF NextPass, TypesFit, Leaders
    <3>2. /\ leader' \in Leaders /\ leader'.at = "entry" /\ leader'.left = leader.waiting
          /\ leader'.batch = leader.waiting /\ leader'.waiting = {}
          /\ leader'.requested = leader'.pass /\ leader'.pass \in Nat
      BY <3>1 DEF TypesFit, Leaders
    <3>3. TypesFit'
      BY <3>2, <2>0, <2>1 DEF TypesFit
    <3>4. LeaderFits'
      BY <3>2, <2>0, <2>1, <2>2, <2>3 DEF LeaderFits, TypesFit, Leaders
    <3> QED BY <3>3, <3>4, <2>1
  <2>4. CASE ~(leader.requested > leader.pass)
    <3>1. leader' = Resting
      BY <2>0, <2>4 DEF NextPass, TypesFit, Leaders
    <3>2. TypesFit'
      BY <3>1, <2>0, <2>1, RestingTyped DEF TypesFit
    <3>3. LeaderFits'
      BY <3>1, <2>0, <2>1, <2>2 DEF LeaderFits, Resting, TypesFit, Leaders
    <3> QED BY <3>2, <3>3, <2>1
  <2> QED BY <2>3, <2>4
<1>13. CASE PassFails
  <2>0. /\ Settle(leader.batch \cup leader.waiting, "failed") /\ leader' = Resting
        /\ UNCHANGED <<behind, chain, record, port, unseen, crashes>> /\ faults' = faults + 1
    BY <1>13 DEF PassFails
  <2>1. /\ pc' \in [Calls -> Stages]
        /\ pending' \in Starts \cup {None} /\ ChainFits'
        /\ \A y \in Calls : pc'[y] \in {pc[y], "failed"}
    BY <2>0, <1>8 DEF Over
  <2>2. TypesFit'
    BY <2>0, <2>1, RestingTyped DEF TypesFit
  <2>3. LeaderFits'
    BY <2>0, <2>1 DEF LeaderFits, Resting, TypesFit, Leaders
  <2> QED BY <2>1, <2>2, <2>3
<1>14. CASE Crash
  <2>0. /\ chain' = <<>> /\ pending' = None /\ port' = FALSE /\ crashes' = crashes + 1
        /\ UNCHANGED <<behind, record, faults>>
    BY <1>14 DEF Crash
  <2>1. pc' \in [Calls -> Stages]
    BY <1>14 DEF Crash, TypesFit, Over, Stages
  <2>2. /\ ChainFits' /\ chain' \in Seq(Starts \cup Submits)
        /\ pending' \in Starts \cup {None} /\ port' \in BOOLEAN
        /\ crashes' \in Nat
    <3>1. chain' \in Seq(Starts \cup Submits) /\ Len(chain') = 0
      BY <2>0
    <3>2. ChainFits'
      BY <3>1 DEF ChainFits
    <3>3. port' \in BOOLEAN
      BY <2>0, Zenon
    <3>4. crashes' \in Nat /\ pending' \in Starts \cup {None}
      BY <2>0 DEF TypesFit
    <3> QED BY <3>1, <3>2, <3>3, <3>4
  <2>3. CASE record.ready # {}
    <3>1. leader' = Joined(Resting, Boot) /\ unseen' = {Boot}
      BY <2>3, <1>14 DEF Crash
    <3>2. pc'[Boot] = "draining"
      BY <2>3, <1>0, <1>14 DEF Crash
    <3>4. leader' = Elected(Boot) /\ leader' \in Leaders
      BY <3>1, <1>0, Elects
    <3>5. TypesFit'
      BY <2>0, <2>1, <2>2, <3>1, <3>4, <1>0 DEF TypesFit
    <3>6. LeaderFits'
      BY <3>1, <3>2, <3>4 DEF LeaderFits, Elected
    <3> QED BY <3>5, <3>6, <2>2
  <2>4. CASE record.ready = {}
    <3>1. leader' = Resting /\ unseen' = {}
      BY <2>4, <1>14 DEF Crash
    <3>2. TypesFit'
      BY <2>0, <2>1, <2>2, <3>1, RestingTyped DEF TypesFit
    <3>3. LeaderFits'
      BY <3>1 DEF LeaderFits, Resting
    <3> QED BY <3>2, <3>3, <2>2
  <2> QED BY <2>3, <2>4
<1>15. CASE UNCHANGED vars
  BY <1>15 DEF vars, TypesFit, LeaderFits, ChainFits
<1> QED BY <1>2, <1>3, <1>4, <1>5, <1>6, <1>7, <1>9, <1>10, <1>11, <1>12, <1>13, <1>14, <1>15
        DEF Next, Pass

\* Every variable keeps to its type (host.ts, the authorization and the leader).
THEOREM StartTypeCorrect == Spec => []TypeOK
<1>1. LeaderInv => TypeOK
  BY DEF LeaderInv, TypesFit, TypeOK, Stages, Leaders
<1> QED BY <1>1, LeaderInit, LeaderNext, PTL DEF Spec

\* A call is answered only once the ready table was read after it asked: the pass
\* under way when it came never answers it, whatever fails or restarts (host.ts
\* runDrainLeader).
THEOREM NoStaleAnswer == Spec => []AnswersFollowALook
<1>1. LeaderInv => AnswersFollowALook
  BY DEF LeaderInv, LeaderFits, AnswersFollowALook
<1> QED BY <1>1, LeaderInit, LeaderNext, PTL DEF Spec

-----------------------------------------------------------------------------
(* While at most one start waits for the one under way, no run is overwritten. *)

StartInv == LeaderInv /\ StartsFit

\* Nothing the argument reads has changed: the starts' stages, the serializer and
\* who created the run.
LEMMA StartsStutter ==
  ASSUME StartsFit, pending' = pending, behind' = behind, record'.by = record.by,
         \A s \in Starts : pc'[s] = pc[s], pending \in Starts \cup {None}
  PROVE  StartsFit'
BY DEF StartsFit, Exists

\* Answering calls frees the serializer when the start under way is among them.
LEMMA SettleFits ==
  ASSUME StartInv, NEW cs, NEW answer \in {"served", "failed"}, Settle(cs, answer),
         \A c \in cs \cap Starts : pc[c] \in Active, UNCHANGED <<behind, record>>
  PROVE  StartsFit'
<1>1. \A s \in Starts : pc'[s] = IF s \in cs THEN answer ELSE pc[s]
  BY DEF Settle, Calls
<1>2. pending' = IF pending \in cs THEN None ELSE pending
  BY DEF Settle
<1>3. pending \in Starts \cup {None} /\ None \notin Starts
  BY StartAssumption DEF StartInv, LeaderInv, TypesFit, Calls
<1>4. \A s \in Starts : s \in cs => pending = s
  BY DEF StartInv, StartsFit
<1>5. Exists' = Exists /\ record'.by = record.by
  BY DEF Exists
<1> QED BY <1>1, <1>2, <1>3, <1>4, <1>5 DEF StartInv, StartsFit, Active

LEMMA StartsInit == Init => StartInv
<1>1. Init => StartsFit
  BY StartAssumption DEF Init, StartsFit, Active, Calls
<1> QED BY <1>1, LeaderInit DEF StartInv

LEMMA StartsNext ==
  ASSUME ~Crowded, StartInv, [Next]_vars
  PROVE  StartInv' /\ (Exists => record'.by = record.by /\ Known \subseteq Known')
<1>0. /\ LeaderInv' /\ Starts \subseteq Calls /\ None \notin Calls /\ Starts \cap Submits = {}
      /\ Starts \cap Wakes = {} /\ Boot \notin Starts /\ Submits \subseteq Calls /\ Wakes \subseteq Calls
      /\ pc \in [Calls -> Stages] /\ pending \in Starts \cup {None}
      /\ behind \in [Starts -> Starts \cup {None}]
  BY LeaderNext, StartAssumption DEF StartInv, LeaderInv, TypesFit, Calls
<1>1. ASSUME NEW s \in Starts, Authorize(s), pending = None, UNCHANGED <<behind, record>>,
             \A x \in Starts : pc[x] = "queued" => x = s, pc[s] \in {"idle", "queued"}
      PROVE  StartsFit'
  <2>1. pending' = s
    BY <1>1 DEF Authorize
  <2>2. /\ \A x \in Calls : x # s => pc'[x] = pc[x]
        /\ pc'[s] = "draining" \/ (pc'[s] = "creating" /\ ~Exists)
    <3>1. \/ pc' = [pc EXCEPT ![s] = "draining"]
          \/ pc' = [pc EXCEPT ![s] = "creating"] /\ ~Exists
      BY <1>1, Zenon DEF Authorize, RequestDrain
    <3> QED BY <3>1, <1>0
  <2>3. \A x \in Starts : pc[x] \notin Active
    BY <1>0, <1>1 DEF StartInv, StartsFit
  <2>4. Exists' = Exists /\ record'.by = record.by
    BY <1>1 DEF Exists
  <2> QED BY <2>1, <2>2, <2>3, <2>4, <1>0, <1>1 DEF StartInv, StartsFit, Active
<1>2. ASSUME NEW s \in Starts, Start(s)
      PROVE  StartsFit'
  <2>1. CASE pending = None /\ Authorize(s) /\ UNCHANGED behind
    <3>1. pc[s] = "idle" /\ UNCHANGED record /\ \A x \in Starts : pc[x] # "queued"
      BY <1>2 DEF Start
    <3> QED BY <1>1, <2>1, <3>1
  <2>2. CASE /\ pending # None
             /\ pc' = [pc EXCEPT ![s] = "queued"] /\ behind' = [behind EXCEPT ![s] = pending]
             /\ UNCHANGED pending
    <3>1. pc[s] = "idle" /\ record' = record /\ \A x \in Starts : pc[x] # "queued"
      BY <1>2 DEF Start
    <3>2. /\ pc'[s] = "queued" /\ behind'[s] = pending
          /\ \A x \in Starts : x # s => pc'[x] = pc[x] /\ behind'[x] = behind[x]
      BY <2>2, <1>0
    <3>3. Exists' = Exists /\ record'.by = record.by
      BY <3>1 DEF Exists
    <3> QED BY <2>2, <3>1, <3>2, <3>3, <1>0 DEF StartInv, StartsFit, Active
  <2> QED BY <1>2, <2>1, <2>2 DEF Start
<1>3. ASSUME NEW s \in Starts, Resume(s)
      PROVE  StartsFit'
  <2>1. /\ pc[s] = "queued" /\ pc[behind[s]] \in Over /\ Authorize(s)
        /\ UNCHANGED <<behind, record>>
    BY <1>3 DEF Resume
  <2>2. pending = None
    BY <2>1 DEF StartInv, StartsFit, Active, Over
  <2>3. \A x \in Starts : pc[x] = "queued" => x = s
    BY <2>1 DEF StartInv, StartsFit
  <2> QED BY <1>1, <2>1, <2>2, <2>3
<1>4. ASSUME Commit
      PROVE  StartsFit' /\ (Exists => record'.by = record.by /\ Known \subseteq Known')
  <2>1. PICK x \in Starts \cup Submits : x = Head(chain) /\ (x \in Starts => pc[x] = "creating")
    BY <1>4, TailFits DEF Commit, StartInv
  <2>2. CASE /\ x \in Starts /\ record' = [NoRun EXCEPT !.by = x] /\ Settle({x}, "created")
             /\ UNCHANGED behind
    <3>1. pending = x /\ ~Exists
      BY <2>1, <2>2 DEF StartInv, StartsFit, Active
    <3>2. /\ pc'[x] = "created" /\ pending' = None /\ record'.by = x
          /\ \A y \in Starts : y # x => pc'[y] = pc[y]
      BY <2>2, <3>1, <1>0 DEF Settle, NoRun
    <3>3. \A y \in Starts : y # x => pc[y] \notin Active \cup {"created"}
      BY <3>1, <1>0 DEF StartInv, StartsFit, Exists
    <3>4. StartsFit'
      BY <2>2, <3>1, <3>2, <3>3, <1>0 DEF StartInv, StartsFit, Active
    <3> QED BY <3>1, <3>4
  <2>3. CASE /\ x \in Submits /\ record' = [record EXCEPT !.ready = @ \cup {x}]
             /\ RequestDrain(x) /\ UNCHANGED <<pending, behind>>
    <3>1. \A s \in Starts : pc'[s] = pc[s]
      BY <2>3, <1>0 DEF RequestDrain
    <3>2. /\ record'.by = record.by /\ record.ready \subseteq record'.ready
          /\ record'.tasks = record.tasks
      BY <2>3 DEF StartInv, LeaderInv, TypesFit
    <3>3. StartsFit'
      BY <2>3, <3>1, <3>2, <1>0, StartsStutter DEF StartInv
    <3> QED BY <3>2, <3>3 DEF Known
  <2> QED BY <1>4, <2>1, <2>2, <2>3 DEF Commit
<1>5. CASE CommitFails
  <2>1. chain # <<>> /\ Settle({Head(chain)}, "failed") /\ chain' = Tail(chain)
        /\ UNCHANGED <<behind, record>>
    BY <1>5 DEF CommitFails
  <2>2. Head(chain) \in Starts => pc[Head(chain)] = "creating"
    BY <2>1, TailFits DEF StartInv
  <2>3. StartsFit'
    BY <2>1, <2>2, SettleFits DEF Active
  <2> QED BY <2>1, <2>3, <1>0 DEF StartInv, Known
<1>6. ASSUME NEW t \in Submits, TryRow(t)
      PROVE  StartsFit' /\ record'.by = record.by /\ Known \subseteq Known'
  <2>1. /\ UNCHANGED <<pc, behind, pending>>
        /\ record' = record \/ record' = [record EXCEPT !.ready = @ \ {t}, !.tasks = @ \cup {t}]
    BY <1>6 DEF TryRow
  <2>2. /\ record'.by = record.by /\ record.tasks \subseteq record'.tasks
        /\ record.ready \subseteq record'.ready \cup record'.tasks
    BY <2>1 DEF StartInv, LeaderInv, TypesFit
  <2>3. StartsFit'
    BY <2>1, <2>2, <1>0, StartsStutter DEF StartInv
  <2> QED BY <2>2, <2>3 DEF Known
<1>7. CASE EndPass \/ PassFails
  <2>1. PICK answer \in {"served", "failed"}, cs \in SUBSET (leader.batch \cup leader.waiting) :
          Settle(cs, answer) /\ UNCHANGED <<behind, record>>
    BY <1>7 DEF EndPass, PassFails
  <2>2. \A c \in cs : pc[c] \in Active
    BY <2>1 DEF StartInv, LeaderInv, LeaderFits, Active
  <2>3. StartsFit'
    BY <2>1, <2>2, SettleFits
  <2> QED BY <2>1, <2>3, <1>0 DEF StartInv, Known
<1>8. CASE Crash
  <2>1. pending' = None /\ UNCHANGED <<behind, record>>
    BY <1>8 DEF Crash
  <2>2. \A s \in Starts : pc'[s] \in {pc[s], "lost"} \cap (Over \cup {"idle"})
    BY <1>8, <1>0 DEF Crash, Over
  <2>3. StartsFit'
    BY <2>1, <2>2, <1>0 DEF StartInv, StartsFit, Active, Over, Exists
  <2> QED BY <2>1, <2>3, <1>0 DEF StartInv, Known
<1>9. ASSUME UNCHANGED <<behind, pending, record>>, \A s \in Starts : pc'[s] = pc[s]
      PROVE  StartsFit' /\ Known' = Known
  BY <1>0, <1>9, StartsStutter DEF StartInv, Known
<1>10. ASSUME NEW c \in Submits \cup Wakes, Submit(c) \/ Wake(c)
       PROVE  StartsFit' /\ Known' = Known /\ record' = record
  <2>1. UNCHANGED <<behind, pending, record>> /\ \A s \in Starts : pc'[s] = pc[s]
    BY <1>10, <1>0 DEF Submit, Wake, RequestDrain
  <2> QED BY <2>1, <1>9
<1>11. CASE ReadTable \/ EndRows \/ UNCHANGED vars
  <2>1. UNCHANGED <<pc, behind, pending, record>>
    BY <1>11 DEF ReadTable, EndRows, vars
  <2> QED BY <2>1, <1>9, <1>0 DEF StartInv
<1>12. ASSUME NEW s \in Starts, Start(s) \/ Resume(s)
       PROVE  record' = record /\ Known' = Known
  BY <1>12 DEF Start, Resume, Known
<1> QED BY <1>0, <1>2, <1>3, <1>4, <1>5, <1>6, <1>7, <1>8, <1>10, <1>11, <1>12
        DEF Next, Pass, StartInv

\* With at most one start waiting for the one under way, the run its session's
\* first start created is never written over, and no row submitted to it is lost
\* (host.ts serializeAuthorization, createRun).
THEOREM StartsOverwriteNothing == ASSUME ~Crowded PROVE Spec => RunSurvivesStarts
<1>1. StartInv => \A s \in Starts : pc[s] = "created" => record.by = s
  BY DEF StartInv, StartsFit
<1>2. StartInv /\ [Next]_vars
      => StartInv' /\ [Exists => record'.by = record.by /\ Known \subseteq Known']_vars
  BY StartsNext
<1> QED BY <1>1, <1>2, StartsInit, PTL DEF Spec, RunSurvivesStarts
=============================================================================
