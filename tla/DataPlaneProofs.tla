--------------------------- MODULE DataPlaneProofs ----------------------------
(***************************************************************************)
(* Theorems of DataPlane: the limiter's count is exact, and what was       *)
(* answered durable stays readable.                                        *)
(***************************************************************************)
EXTENDS DataPlane, FiniteSetTheorems, SequenceTheorems, TLAPS

Capture == {"looking", "publishing", "committing", "checking"}
Working == Capture \cup {"reading", "saving", "chunk"}
Phases == Working \cup {"idle", "waiting"}

\* What the phase of a request says of its job and of the slots it holds.
JobFits(r) ==
  /\ pc[r] = "idle" <=> job[r].kind = "none"
  /\ job[r].kind = "capture" => job[r].id \in Ids
  /\ pc[r] \in Capture => job[r].kind = "capture"
  /\ pc[r] \in {"saving", "chunk"} => job[r].kind = "save"
  /\ pc[r] \in {"committing", "checking"} => job[r].content \in Contents
  /\ pc[r] \in {"waiting", "chunk"} /\ <<r, "body">> \in held
       => job[r].kind = "save" /\ job[r].left > 0
SlotsFit(r) ==
  /\ pc[r] = "idle" => <<r, "body">> \notin held
  /\ pc[r] \in Working => <<r, "body">> \in held
  /\ <<r, "chunk">> \in held <=> pc[r] = "chunk"

WaitersFit ==
  \A i \in 1..Len(waiting) :
    /\ pc[waiting[i]] = "waiting"
    /\ \A j \in 1..Len(waiting) : i # j => waiting[i] # waiting[j]

LimiterInv ==
  /\ pc \in [Requests -> Phases] /\ job \in [Requests -> Jobs]
  /\ active \in Nat /\ waiting \in Seq(Requests)
  /\ held \subseteq Requests \X {"body", "chunk"}
  /\ \A r \in Requests : JobFits(r) /\ SlotsFit(r)
  /\ WaitersFit
  /\ SlotsCounted

StoreTypes ==
  /\ references \in [Ids -> Contents \cup {None}]
  /\ index \subseteq Contents /\ young \subseteq Contents /\ tombstones \subseteq Contents
  /\ sweep \in [running : BOOLEAN, referenced : SUBSET Contents, hand : Contents \cup {None}]
  /\ promised \in [Ids -> Contents \cup {None}] /\ descriptors \subseteq Contents
  /\ raced \subseteq Ids /\ overtaken \subseteq Contents
  /\ crashes \in Nat /\ faults \in Nat

TypeInv == LimiterInv /\ StoreTypes

\* Nobody else's job changes.
OthersKeep(r) == \A x \in Requests : x # r => job'[x] = job[x]

-----------------------------------------------------------------------------

LEMMA HeldFinite ==
  ASSUME NEW S \in SUBSET (Requests \X {"body", "chunk"})
  PROVE  IsFiniteSet(S)
<1>1. {"body", "chunk"} = {"body"} \cup {"chunk"} /\ IsFiniteSet({"body"})
  BY FS_Singleton
<1>2. IsFiniteSet({"body", "chunk"})
  BY <1>1, FS_AddElement
<1>3. IsFiniteSet(Requests \X {"body", "chunk"})
  BY <1>2, FS_Product, PlaneAssumption
<1> QED BY <1>3, FS_Subset

\* A slot taken and a slot handed over, counted.
LEMMA Counting ==
  ASSUME NEW S \in SUBSET (Requests \X {"body", "chunk"}), NEW x \in S,
         NEW y, y \notin S
  PROVE  /\ Cardinality(S) \in Nat \ {0}
         /\ Cardinality(S \cup {y}) = Cardinality(S) + 1
         /\ Cardinality(S \ {x}) = Cardinality(S) - 1
         /\ Cardinality((S \ {x}) \cup {y}) = Cardinality(S)
<1>1. IsFiniteSet(S)
  BY HeldFinite
<1>2. IsFiniteSet(S \ {x}) /\ Cardinality(S \ {x}) = Cardinality(S) - 1
  BY <1>1, FS_RemoveElement
<1>3. Cardinality(S) \in Nat /\ Cardinality(S) # 0
  BY <1>1, FS_CardinalityType, FS_EmptySet
<1>4. Cardinality((S \ {x}) \cup {y}) = Cardinality(S \ {x}) + 1
  BY <1>2, FS_AddElement
<1>5. Cardinality(S \cup {y}) = Cardinality(S) + 1
  BY <1>1, FS_AddElement
<1> QED BY <1>2, <1>3, <1>4, <1>5

LEMMA Admits ==
  ASSUME LimiterInv, NEW r \in Requests, NEW kind \in Kinds, Admit(r, kind),
         job' \in [Requests -> Jobs], OthersKeep(r), job'[r].kind = kind,
         kind = "capture" => job'[r].id \in Ids,
         \/ pc[r] = "idle"
         \/ pc[r] = "saving" /\ job'[r] = job[r] /\ job[r].left > 0
  PROVE  LimiterInv'
<1> USE DEF LimiterInv
<1>1. kind \in {"capture", "read", "save"} /\ pc[r] \in {"idle", "saving"}
  BY DEF Kinds
<1>2. JobFits(r) /\ SlotsFit(r) /\ job[r].kind \in Kinds \cup {"none"}
  BY DEF Jobs
<1>3. \A i \in 1..Len(waiting) : waiting[i] \in Requests /\ waiting[i] # r
  BY <1>1, ElementOfSeq DEF WaitersFit
<1>4. <<r, Slot(r)>> \notin held /\ Slot(r) \in {"body", "chunk"}
      /\ (pc[r] = "idle" => Slot(r) = "body") /\ (pc[r] = "saving" => Slot(r) = "chunk")
  BY <1>1, <1>2 DEF Slot, SlotsFit, Working, Capture
<1>5. /\ Body(kind) \in Working \ {"chunk"} /\ (Body(kind) \in Capture <=> kind = "capture")
      /\ (Body(kind) = "saving" <=> kind = "save") /\ Body(kind) \notin {"committing", "checking"}
  BY <1>1 DEF Body, Working, Capture
<1>6. CASE active < Limit
  <2>1. /\ active' = active + 1 /\ held' = held \cup {<<r, Slot(r)>>} /\ waiting' = waiting
        /\ pc' = [pc EXCEPT ![r] = Entered(r, kind)]
    BY <1>6 DEF Admit
  <2>2. waiting = <<>>
    BY <1>6, PlaneAssumption DEF SlotsCounted
  <2>3. /\ (pc[r] = "idle" => Entered(r, kind) = Body(kind))
        /\ (pc[r] = "saving" => Entered(r, kind) = "chunk")
    BY <1>4 DEF Entered
  <2>4. pc' \in [Requests -> Phases] /\ \A x \in Requests : x # r => pc'[x] = pc[x]
    BY <1>1, <1>5, <2>1, <2>3 DEF Phases, Working
  <2>5. active' \in Nat /\ held' \subseteq Requests \X {"body", "chunk"}
    BY <1>4, <2>1
  <2>6. ASSUME NEW x \in Requests
        PROVE  JobFits(x)' /\ SlotsFit(x)'
    <3>1. CASE x # r
      BY <3>1, <2>1, <2>4 DEF JobFits, SlotsFit, OthersKeep
    <3>2. CASE x = r /\ pc[r] = "idle"
      <4>1. pc'[r] = Body(kind) /\ Slot(r) = "body"
        BY <3>2, <1>4, <2>1, <2>3
      <4>2. <<r, "body">> \in held' /\ <<r, "chunk">> \notin held'
        BY <4>1, <3>2, <1>2, <2>1 DEF SlotsFit
      <4> QED BY <4>1, <4>2, <3>2, <1>1, <1>5 DEF JobFits, SlotsFit, Working, Capture
    <3>3. CASE x = r /\ pc[r] = "saving"
      <4>1. pc'[r] = "chunk" /\ Slot(r) = "chunk" /\ kind = "save"
        BY <3>3, <1>2, <1>4, <2>1, <2>3 DEF JobFits
      <4>2. <<r, "body">> \in held' /\ <<r, "chunk">> \in held'
        BY <4>1, <3>3, <1>2, <2>1 DEF SlotsFit, Working
      <4> QED BY <4>1, <4>2, <3>3 DEF JobFits, SlotsFit, Working, Capture
    <3> QED BY <3>1, <3>2, <3>3, <1>1
  <2>7. WaitersFit'
    BY <2>1, <2>2 DEF WaitersFit
  <2>8. SlotsCounted'
    <3>1. IsFiniteSet(held)
      BY HeldFinite
    <3>2. Cardinality(held') = active + 1
      BY <3>1, <1>4, <2>1, FS_AddElement DEF SlotsCounted
    <3> QED BY <3>2, <2>1, <2>2, <1>6, PlaneAssumption DEF SlotsCounted
  <2> QED BY <2>1, <2>4, <2>5, <2>6, <2>7, <2>8
<1>7. CASE ~(active < Limit)
  <2>1. /\ waiting' = Append(waiting, r) /\ active' = active /\ held' = held
        /\ pc' = [pc EXCEPT ![r] = "waiting"]
    BY <1>7 DEF Admit
  <2>2. pc' \in [Requests -> Phases] /\ pc'[r] = "waiting"
        /\ \A x \in Requests : x # r => pc'[x] = pc[x]
    BY <2>1 DEF Phases
  <2>3. ASSUME NEW x \in Requests
        PROVE  JobFits(x)' /\ SlotsFit(x)'
    <3>1. CASE x # r
      BY <3>1, <2>1, <2>2 DEF JobFits, SlotsFit, OthersKeep
    <3>2. CASE x = r
      BY <3>2, <2>1, <2>2, <1>1, <1>2 DEF JobFits, SlotsFit, Working, Capture
    <3> QED BY <3>1, <3>2
  <2>4. waiting' \in Seq(Requests) /\ WaitersFit'
    BY <2>1, <2>2, <1>3, AppendProperties DEF WaitersFit
  <2>5. SlotsCounted'
    BY <2>1, <1>7, PlaneAssumption DEF SlotsCounted
  <2> QED BY <2>1, <2>2, <2>3, <2>4, <2>5
<1> QED BY <1>6, <1>7

LEMMA Releases ==
  ASSUME LimiterInv, NEW r \in Requests, NEW slot, NEW next, Release(r, slot, next),
         job' \in [Requests -> Jobs], OthersKeep(r),
         \/ /\ slot = "body" /\ next = "idle" /\ job'[r] = Idle
            /\ pc[r] \in Working \ {"chunk"}
         \/ /\ slot = "chunk" /\ next = "saving" /\ pc[r] = "chunk"
            /\ job'[r].kind = "save"
  PROVE  LimiterInv'
<1> USE DEF LimiterInv
<1>1. <<r, slot>> \in held /\ pc[r] \in Working /\ next \in {"idle", "saving"}
      /\ slot \in {"body", "chunk"}
  BY DEF SlotsFit, Working
<1>2. ASSUME NEW w \in Requests, w # r, pc[w] = pc'[w], held' \cap ({w} \X {"body", "chunk"})
                                                    = held \cap ({w} \X {"body", "chunk"})
      PROVE  JobFits(w)' /\ SlotsFit(w)'
  <2>1. \A s \in {"body", "chunk"} : <<w, s>> \in held' <=> <<w, s>> \in held
    BY <1>2
  <2> QED BY <1>2, <2>1 DEF JobFits, SlotsFit, OthersKeep
<1>3. ASSUME pc'[r] = next, <<r, slot>> \notin held', 
             \A s \in {"body", "chunk"} \ {slot} : <<r, s>> \in held' <=> <<r, s>> \in held
      PROVE  JobFits(r)' /\ SlotsFit(r)'
  <2>1. CASE slot = "body"
    <3>1. pc'[r] = "idle" /\ job'[r] = Idle /\ pc[r] # "chunk" /\ <<r, "chunk">> \notin held'
      BY <1>3, <2>1 DEF SlotsFit
    <3> QED BY <3>1, <2>1, <1>3 DEF JobFits, SlotsFit, Idle, Working, Capture
  <2>2. CASE slot = "chunk"
    <3>1. pc'[r] = "saving" /\ job'[r].kind = "save" /\ <<r, "body">> \in held'
          /\ <<r, "chunk">> \notin held'
      BY <1>3, <2>2 DEF SlotsFit, Working
    <3> QED BY <3>1, <2>2, <1>3 DEF JobFits, SlotsFit, Working, Capture
  <2> QED BY <2>1, <2>2, <1>1
<1>4. CASE waiting = <<>>
  <2>1. /\ active' = active - 1 /\ held' = held \ {<<r, slot>>} /\ waiting' = waiting
        /\ pc' = [pc EXCEPT ![r] = next]
    BY <1>4 DEF Release
  <2>2. IsFiniteSet(held) /\ Cardinality(held') = active - 1 /\ active \in Nat \ {0}
    <3>1. IsFiniteSet(held)
      BY HeldFinite
    <3>2. Cardinality(held) # 0
      BY <3>1, <1>1, FS_EmptySet
    <3>3. Cardinality(held \ {<<r, slot>>}) = Cardinality(held) - 1
      BY <3>1, <1>1, FS_RemoveElement
    <3> QED BY <3>1, <3>2, <3>3, <2>1 DEF SlotsCounted
  <2>3. pc' \in [Requests -> Phases] /\ pc'[r] = next
        /\ \A x \in Requests : x # r => pc'[x] = pc[x]
    BY <2>1, <1>1 DEF Phases, Working
  <2>4. ASSUME NEW x \in Requests
        PROVE  JobFits(x)' /\ SlotsFit(x)'
    BY <2>1, <2>3, <1>2, <1>3
  <2>5. WaitersFit' /\ SlotsCounted'
    BY <2>1, <2>2, <1>4, PlaneAssumption DEF WaitersFit, SlotsCounted
  <2> QED BY <2>1, <2>2, <2>3, <2>4, <2>5
<1>5. CASE waiting # <<>>
  <2> PICK w \in Requests : w = Head(waiting)
    BY <1>5, HeadTailProperties
  <2> DEFINE e == Entered(w, job[w].kind)
  <2>1. /\ held' = (held \ {<<r, slot>>}) \cup {<<w, Slot(w)>>} /\ active' = active
        /\ pc' = [pc EXCEPT ![r] = next, ![w] = e] /\ waiting' = Tail(waiting)
    BY <1>5 DEF Release
  <2>2. /\ w \in Requests /\ Tail(waiting) \in Seq(Requests) /\ w = waiting[1]
        /\ Len(Tail(waiting)) = Len(waiting) - 1 /\ Len(waiting) \in Nat \ {0}
        /\ \A i \in 1..Len(Tail(waiting)) : Tail(waiting)[i] = waiting[i + 1]
    BY <1>5, HeadTailProperties, EmptySeq
  <2>3. pc[w] = "waiting" /\ w # r
    BY <2>2, <1>1 DEF WaitersFit, Working, Capture
  <2>4. /\ JobFits(w) /\ SlotsFit(w) /\ job'[w] = job[w] /\ job[w].kind \in Kinds
        /\ <<w, "chunk">> \notin held
    <3>1. job[w].kind \in Kinds \cup {"none"} /\ job[w].kind # "none"
      BY <2>2, <2>3 DEF JobFits, Jobs
    <3> QED BY <3>1, <2>2, <2>3 DEF SlotsFit, OthersKeep
  <2>5. /\ Slot(w) \in {"body", "chunk"} /\ <<w, Slot(w)>> \notin held
        /\ (Slot(w) = "chunk" <=> <<w, "body">> \in held)
        /\ (Slot(w) = "chunk" => e = "chunk" /\ job[w].kind = "save" /\ job[w].left > 0)
        /\ (Slot(w) = "body" => e = Body(job[w].kind))
    BY <2>2, <2>3, <2>4 DEF Slot, Entered, JobFits
  <2>6. LET b == Body(job[w].kind)
        IN  /\ b \in Working \ {"chunk"} /\ (b \in Capture <=> job[w].kind = "capture")
            /\ (b = "saving" <=> job[w].kind = "save") /\ b \notin {"committing", "checking"}
    BY <2>4 DEF Body, Working, Capture, Kinds
  <2>7. pc' \in [Requests -> Phases] /\ pc'[r] = next /\ pc'[w] = e
        /\ \A x \in Requests : x # r /\ x # w => pc'[x] = pc[x]
    BY <2>1, <2>2, <2>3, <2>5, <2>6, <1>1 DEF Phases, Working
  <2>8. JobFits(w)' /\ SlotsFit(w)'
    <3>1. CASE Slot(w) = "body"
      <4>1. pc'[w] = Body(job[w].kind) /\ <<w, "body">> \in held' /\ <<w, "chunk">> \notin held'
        BY <3>1, <2>1, <2>3, <2>4, <2>5, <2>7
      <4> QED BY <4>1, <2>4, <2>6, <2>2 DEF JobFits, SlotsFit, Working, Capture, Kinds
    <3>2. CASE Slot(w) = "chunk"
      <4>1. pc'[w] = "chunk" /\ <<w, "body">> \in held' /\ <<w, "chunk">> \in held'
            /\ job'[w].kind = "save" /\ job'[w].left > 0
        BY <3>2, <2>1, <2>3, <2>4, <2>5, <2>7
      <4> QED BY <4>1 DEF JobFits, SlotsFit, Working, Capture
    <3> QED BY <3>1, <3>2, <2>5
  <2>9. ASSUME NEW x \in Requests
        PROVE  JobFits(x)' /\ SlotsFit(x)'
    <3>1. CASE x # r /\ x # w
      BY <3>1, <2>1, <2>7, <1>2
    <3>2. CASE x = r
      BY <3>2, <2>1, <2>3, <2>7, <1>3
    <3> QED BY <3>1, <3>2, <2>8
  <2>10. WaitersFit'
    <3>1. \A i \in 1..Len(Tail(waiting)) : i + 1 \in 1..Len(waiting)
                                          /\ waiting[i + 1] # r /\ waiting[i + 1] # w
                                          /\ waiting[i + 1] \in Requests
      BY <2>2, <1>1, ElementOfSeq DEF WaitersFit, Working, Capture
    <3> QED BY <3>1, <2>1, <2>2, <2>7 DEF WaitersFit
  <2>11. SlotsCounted'
    <3> DEFINE y == <<w, Slot(w)>>
    <3>0. held \in SUBSET (Requests \X {"body", "chunk"}) /\ <<r, slot>> \in held /\ y \notin held
      BY <2>5, <1>1
    <3>1. held' = (held \ {<<r, slot>>}) \cup {y}
      BY <2>1
    <3> HIDE DEF y
    <3>2. Cardinality(held') = Cardinality(held)
      BY <3>0, <3>1, Counting
    <3> QED BY <3>2, <2>1, <1>5 DEF SlotsCounted
  <2>12. active' \in Nat /\ held' \subseteq Requests \X {"body", "chunk"}
    BY <2>1, <2>5
  <2> QED BY <2>1, <2>2, <2>7, <2>9, <2>10, <2>11, <2>12
<1> QED BY <1>4, <1>5

\* A capture goes on to its next step, its slots as they were.
LEMMA Moves ==
  ASSUME LimiterInv, NEW r \in Requests, NEW next \in Capture,
         pc[r] \in Capture, pc' = [pc EXCEPT ![r] = next], UNCHANGED limiter,
         job' \in [Requests -> Jobs], OthersKeep(r),
         job'[r].kind = "capture", job'[r].id \in Ids,
         next \in {"committing", "checking"} => job'[r].content \in Contents
  PROVE  LimiterInv'
<1> USE DEF LimiterInv
<1>1. UNCHANGED <<active, waiting, held>>
  BY DEF limiter
<1>2. /\ pc' \in [Requests -> Phases] /\ pc'[r] = next
      /\ \A x \in Requests : x # r => pc'[x] = pc[x]
  BY DEF Phases, Working
<1>3. ASSUME NEW x \in Requests
      PROVE  JobFits(x)' /\ SlotsFit(x)'
  <2>1. CASE x # r
    BY <2>1, <1>1, <1>2 DEF JobFits, SlotsFit, OthersKeep
  <2>2. CASE x = r
    BY <2>2, <1>1, <1>2 DEF JobFits, SlotsFit, Capture, Working
  <2> QED BY <2>1, <2>2
<1>4. WaitersFit' /\ SlotsCounted'
  <2>1. \A i \in 1..Len(waiting) : waiting[i] \in Requests /\ waiting[i] # r
    BY ElementOfSeq DEF WaitersFit, Capture
  <2> QED BY <2>1, <1>1, <1>2 DEF WaitersFit, SlotsCounted
<1> QED BY <1>1, <1>2, <1>3, <1>4

LEMMA Rests ==
  ASSUME LimiterInv, UNCHANGED <<pc, job, limiter>>
  PROVE  LimiterInv'
BY DEF LimiterInv, limiter, JobFits, SlotsFit, WaitersFit, SlotsCounted

-----------------------------------------------------------------------------

LEMMA TypeInit == Init => TypeInv
<1> SUFFICES ASSUME Init PROVE TypeInv
  OBVIOUS
<1>1. Cardinality({}) = 0
  BY FS_EmptySet
<1>2. pc \in [Requests -> Phases] /\ job \in [Requests -> Jobs]
  BY PlaneAssumption DEF Init, Phases, Jobs, Idle
<1>3. \A r \in Requests : JobFits(r) /\ SlotsFit(r)
  BY DEF Init, Idle, JobFits, SlotsFit, Working, Capture
<1>4. WaitersFit /\ SlotsCounted /\ waiting \in Seq(Requests)
  BY <1>1, PlaneAssumption DEF Init, WaitersFit, SlotsCounted
<1>5. StoreTypes
  BY DEF Init, StoreTypes, Resting
<1> QED BY <1>2, <1>3, <1>4, <1>5 DEF Init, TypeInv, LimiterInv

\* The end of a request, given its slot.
LEMMA Answers ==
  ASSUME LimiterInv, NEW r \in Requests, pc[r] \in Working \ {"chunk"}, Answer(r)
  PROVE  LimiterInv'
<1>1. Release(r, "body", "idle") /\ job' = [job EXCEPT ![r] = Idle]
  BY DEF Answer
<1>2. job' \in [Requests -> Jobs] /\ OthersKeep(r) /\ job'[r] = Idle
  BY <1>1, PlaneAssumption DEF LimiterInv, Jobs, Idle, OthersKeep
<1> QED BY <1>1, <1>2, Releases

LEMMA Asks ==
  ASSUME TypeInv, NEW r \in Requests, Call(r)
  PROVE  TypeInv'
<1>1. PICK what \in Jobs : Ask(r, what) /\ what.kind \in Kinds
                          /\ (what.kind = "capture" => what.id \in Ids)
  <2>1. ASSUME NEW o \in Ids, AskCapture(r, o)
        PROVE  \E what \in Jobs : Ask(r, what) /\ what.kind \in Kinds
                                /\ (what.kind = "capture" => what.id \in Ids)
    <3> DEFINE it == [kind |-> "capture", id |-> o, content |-> None, left |-> 0]
    <3>1. it \in Jobs /\ it.kind \in Kinds /\ it.id \in Ids
      BY PlaneAssumption DEF Jobs, Kinds
    <3> QED BY <3>1, <2>1 DEF AskCapture
  <2>2. ASSUME NEW a \in Contents, AskRead(r, a) \/ AskSave(r, a)
        PROVE  \E what \in Jobs : Ask(r, what) /\ what.kind \in Kinds
                                /\ (what.kind = "capture" => what.id \in Ids)
    <3> DEFINE read == [kind |-> "read", id |-> None, content |-> a, left |-> 0]
               save == [kind |-> "save", id |-> None, content |-> a, left |-> Chunks]
    <3>1. /\ read \in Jobs /\ read.kind \in Kinds /\ read.kind # "capture"
          /\ save \in Jobs /\ save.kind \in Kinds /\ save.kind # "capture"
      BY PlaneAssumption DEF Jobs, Kinds
    <3>2. Ask(r, read) \/ Ask(r, save)
      BY <2>2 DEF AskRead, AskSave
    <3> QED BY <3>1, <3>2
  <2> QED BY <2>1, <2>2 DEF Call
<1>2. /\ pc[r] = "idle" /\ job' = [job EXCEPT ![r] = what] /\ Admit(r, what.kind)
      /\ UNCHANGED <<references, store, history, descriptors, budgets>>
  BY <1>1 DEF Ask
<1>3. job' \in [Requests -> Jobs] /\ OthersKeep(r) /\ job'[r] = what
  BY <1>2 DEF TypeInv, LimiterInv, OthersKeep
<1>4. LimiterInv'
  BY <1>1, <1>2, <1>3, Admits DEF TypeInv
<1>5. StoreTypes'
  BY <1>2 DEF TypeInv, StoreTypes, store, history, budgets
<1> QED BY <1>4, <1>5 DEF TypeInv

LEMMA Steps ==
  ASSUME TypeInv, NEW r \in Requests, Step(r)
  PROVE  TypeInv'
<1> USE DEF TypeInv
<1>0. JobFits(r) /\ job[r] \in Jobs
  BY DEF LimiterInv
<1>1. CASE LookUp(r)
  <2>1. LimiterInv'
    <3>1. CASE references[job[r].id] # None
      BY <3>1, <1>1, Answers DEF LookUp, Working, Capture
    <3>2. CASE references[job[r].id] = None
      <4>1. UNCHANGED <<job, limiter>> /\ pc[r] = "looking"
            /\ pc' = [pc EXCEPT ![r] = "publishing"]
        BY <3>2, <1>1 DEF LookUp
      <4>2. job[r].kind = "capture" /\ job[r].id \in Ids
        BY <4>1, <1>0 DEF JobFits, Capture
      <4>3. job' \in [Requests -> Jobs] /\ OthersKeep(r)
        BY <4>1 DEF LimiterInv, OthersKeep
      <4> QED BY <4>1, <4>2, <4>3, Moves DEF Capture
    <3> QED BY <3>1, <3>2
  <2>2. pc[r] = "looking" => job[r].id \in Ids
    BY <1>0 DEF JobFits, Capture
  <2>3. StoreTypes'
    BY <1>1, <2>2 DEF LookUp, StoreTypes, store, budgets
  <2> QED BY <2>1, <2>3
<1>2. ASSUME NEW a \in Contents, Publish(r, a)
      PROVE  TypeInv'
  <2>1. /\ UNCHANGED limiter /\ pc[r] = "publishing" /\ pc' = [pc EXCEPT ![r] = "committing"]
        /\ job' = [job EXCEPT ![r].content = a]
    BY <1>2 DEF Publish
  <2>2. job[r].kind = "capture" /\ job[r].id \in Ids
    BY <2>1, <1>0 DEF JobFits, Capture
  <2>3. /\ job' \in [Requests -> Jobs] /\ OthersKeep(r) /\ job'[r].kind = "capture"
        /\ job'[r].id \in Ids /\ job'[r].content \in Contents
    BY <2>1, <2>2, <1>0 DEF LimiterInv, OthersKeep, Jobs
  <2>4. LimiterInv'
    BY <2>1, <2>3, Moves DEF Capture
  <2>5. StoreTypes'
    BY <1>2 DEF Publish, StoreTypes, history, budgets
  <2> QED BY <2>4, <2>5
<1>3. CASE PublishFails(r)
  BY <1>3, Answers DEF PublishFails, Working, Capture, StoreTypes, store, history, budgets
<1>4. CASE Commit(r)
  <2>1. /\ UNCHANGED <<job, limiter>> /\ pc[r] = "committing"
        /\ pc' = [pc EXCEPT ![r] = "checking"]
    BY <1>4 DEF Commit
  <2>2. job[r].kind = "capture" /\ job[r].id \in Ids /\ job[r].content \in Contents
    BY <2>1, <1>0 DEF JobFits, Capture
  <2>3. job' \in [Requests -> Jobs] /\ OthersKeep(r)
    BY <2>1 DEF LimiterInv, OthersKeep
  <2>4. LimiterInv'
    BY <2>1, <2>2, <2>3, Moves DEF Capture
  <2>5. StoreTypes'
    BY <1>4, <2>2 DEF Commit, StoreTypes, store, history, budgets
  <2> QED BY <2>4, <2>5
<1>5. CASE CommitFails(r)
  <2>1. LimiterInv'
    BY <1>5, Answers DEF CommitFails, Working, Capture
  <2>2. StoreTypes'
    BY <1>5, <1>0 DEF CommitFails, StoreTypes, JobFits, store, history
  <2> QED BY <2>1, <2>2
<1>6. CASE Checkpoint(r)
  <2>1. LimiterInv'
    BY <1>6, Answers DEF Checkpoint, Working, Capture
  <2>2. StoreTypes'
    BY <1>6, <1>0 DEF Checkpoint, StoreTypes, JobFits, Capture, store, budgets
  <2> QED BY <2>1, <2>2
<1>7. CASE Read(r)
  BY <1>7, Answers DEF Read, Working, Capture, StoreTypes, store, history, budgets
<1>8. CASE NextChunk(r)
  <2>1. pc[r] = "saving" /\ job[r].left > 0 /\ Admit(r, "save") /\ UNCHANGED job
    BY <1>8 DEF NextChunk
  <2>2. job' \in [Requests -> Jobs] /\ OthersKeep(r) /\ job'[r].kind = "save" /\ "save" \in Kinds
    BY <2>1, <1>0 DEF LimiterInv, OthersKeep, JobFits, Kinds
  <2>3. LimiterInv'
    BY <2>1, <2>2, Admits
  <2>4. StoreTypes'
    BY <1>8 DEF NextChunk, StoreTypes, store, history, budgets
  <2> QED BY <2>3, <2>4
<1>9. CASE ChunkRead(r)
  <2>1. pc[r] = "chunk" /\ Release(r, "chunk", "saving")
    BY <1>9 DEF ChunkRead
  <2>2. /\ <<r, "body">> \in held /\ job[r].kind = "save"
        /\ job[r].left \in 0..Chunks /\ job[r].left > 0
    <3>1. SlotsFit(r) /\ pc[r] \in Working
      BY <2>1 DEF LimiterInv, Working
    <3> QED BY <3>1, <2>1, <1>0 DEF SlotsFit, JobFits, Jobs
  <2>3. job' \in [Requests -> Jobs] /\ OthersKeep(r) /\ job'[r].kind = "save"
    <3>1. PICK n : n \in {0, job[r].left - 1} /\ job' = [job EXCEPT ![r].left = n]
      BY <1>9, <1>0 DEF ChunkRead, Jobs, LimiterInv
    <3>2. n \in 0..Chunks
      BY <3>1, <2>2, PlaneAssumption
    <3> QED BY <3>1, <3>2, <2>2, <1>0 DEF LimiterInv, OthersKeep, Jobs
  <2>4. LimiterInv'
    BY <2>1, <2>3, Releases
  <2>5. StoreTypes'
    BY <1>9 DEF ChunkRead, StoreTypes, store, history, budgets
  <2> QED BY <2>4, <2>5
<1>10. CASE SaveEnds(r)
  BY <1>10, Answers DEF SaveEnds, Working, StoreTypes, store, history, budgets
<1> QED BY <1>1, <1>2, <1>3, <1>4, <1>5, <1>6, <1>7, <1>8, <1>9, <1>10 DEF Step

LEMMA TypeNext == TypeInv /\ [Next]_vars => TypeInv'
<1> SUFFICES ASSUME TypeInv, [Next]_vars PROVE TypeInv'
  OBVIOUS
<1> USE DEF TypeInv
<1>1. ASSUME NEW r \in Requests, Call(r) \/ Step(r)
      PROVE  TypeInv'
  BY <1>1, Asks, Steps
<1>2. CASE Collector
  <2>1. UNCHANGED <<pc, job, limiter>>
    BY <1>2 DEF Collector, BeginSweep, Examine, Retire, EndSweep, Ages, requests
  <2>2. LimiterInv'
    BY <2>1, Rests
  <2>3. StoreTypes'
    <3> USE DEF StoreTypes, history, budgets
    <3>1. CASE BeginSweep
      BY <3>1 DEF BeginSweep
    <3>2. CASE \E a \in Contents : Examine(a)
      BY <3>2 DEF Examine
    <3>3. CASE Retire
      BY <3>3 DEF Retire
    <3>4. CASE EndSweep
      BY <3>4 DEF EndSweep, Resting
    <3>5. CASE \E a \in Contents : Ages(a)
      BY <3>5 DEF Ages
    <3> QED BY <1>2, <3>1, <3>2, <3>3, <3>4, <3>5 DEF Collector
  <2> QED BY <2>2, <2>3
<1>3. CASE Crash
  <2>1. /\ pc' = [r \in Requests |-> "idle"] /\ job' = [r \in Requests |-> Idle]
        /\ active' = 0 /\ waiting' = <<>> /\ held' = {}
    BY <1>3 DEF Crash
  <2>2. pc' \in [Requests -> Phases] /\ job' \in [Requests -> Jobs]
    BY <2>1, PlaneAssumption DEF Phases, Jobs, Idle
  <2>3. ASSUME NEW r \in Requests
        PROVE  JobFits(r)' /\ SlotsFit(r)'
    BY <2>1 DEF Idle, JobFits, SlotsFit, Working, Capture
  <2>4. WaitersFit' /\ SlotsCounted' /\ waiting' \in Seq(Requests)
    <3>1. Cardinality(held') = 0
      BY <2>1, FS_EmptySet
    <3> QED BY <3>1, <2>1, PlaneAssumption DEF WaitersFit, SlotsCounted
  <2>5. StoreTypes'
    BY <1>3 DEF Crash, StoreTypes, history, Resting
  <2> QED BY <2>1, <2>2, <2>3, <2>4, <2>5 DEF LimiterInv
<1>4. CASE UNCHANGED vars
  <2>1. UNCHANGED <<pc, job, limiter>>
    BY <1>4 DEF vars
  <2> QED BY <2>1, <1>4, Rests DEF vars, StoreTypes, store, history, budgets
<1> QED BY <1>1, <1>2, <1>3, <1>4 DEF Next

\* Every variable of the plane keeps to its type (data-plane.ts, artifacts.ts).
THEOREM PlaneTypeCorrect == Spec => []TypeOK
<1>1. TypeInv => TypeOK
  BY DEF TypeInv, LimiterInv, StoreTypes, TypeOK, Phases, Working, Capture
<1> QED BY <1>1, TypeInit, TypeNext, PTL DEF Spec

\* The limiter's count is that of the slots in use, at most the limit, nobody waits
\* while there is room and no request ends with a slot, whatever fails, nests or is handed over
\* (data-concurrency.ts).
THEOREM LimiterIsExact == Spec => []SlotsAreExact
<1>1. ASSUME TypeInv
      PROVE  SlotsAreExact
  <2>1. ASSUME NEW s \in held
        PROVE  pc[s[1]] # "idle"
    <3>1. PICK r \in Requests, k \in {"body", "chunk"} : s = <<r, k>>
      BY <1>1, <2>1 DEF TypeInv, LimiterInv
    <3>2. SlotsFit(r)
      BY <1>1 DEF TypeInv, LimiterInv
    <3> QED BY <2>1, <3>1, <3>2 DEF SlotsFit
  <2> QED BY <1>1, <2>1 DEF TypeInv, LimiterInv, SlotsAreExact
<1> QED BY <1>1, TypeInit, TypeNext, PTL DEF Spec

-----------------------------------------------------------------------------
(* What was answered durable stays readable. *)

\* The phases in which what a capture found or published still binds it.
Bound == {"publishing", "committing", "checking"}

\* Two captures that both found an observation without a reference are known.
RivalsKnown ==
  \A r, s \in Requests :
    /\ r # s /\ job[r].id = job[s].id
    /\ pc[r] \in {"publishing", "committing"} /\ pc[s] \in {"publishing", "committing"}
    => job[r].id \in raced

\* The collector has no hold of an object: it stays nameable.
Safe(a) == a \in index \ tombstones /\ a # sweep.hand

CaptureFits(r) ==
  /\ pc[r] \in {"publishing", "committing"} =>
       references[job[r].id] = None \/ job[r].id \in raced
  /\ pc[r] = "committing" =>
       job[r].content \in overtaken \/ (Safe(job[r].content) /\ job[r].content \in young)
  /\ pc[r] = "checking" =>
       /\ references[job[r].id] # None
       /\ references[job[r].id] = job[r].content \/ job[r].id \in raced

ReferenceFits(o) ==
  /\ promised[o] # None =>
       references[o] # None /\ (references[o] = promised[o] \/ o \in raced)
  /\ references[o] \notin overtaken \cup {None} =>
       /\ Safe(references[o])
       /\ sweep.running => references[o] \in sweep.referenced \cup young

DurableInv ==
  /\ RivalsKnown
  /\ \A r \in Requests : CaptureFits(r)
  /\ \A o \in Ids : ReferenceFits(o)
  /\ sweep.hand # None => sweep.running

\* A slot taken or given back binds nobody.
LEMMA AdmitBindsNobody ==
  ASSUME TypeInv, NEW r \in Requests, NEW kind \in Kinds, Admit(r, kind)
  PROVE  \A x \in Requests : pc'[x] = pc[x] \/ pc'[x] \notin Bound
<1>1. Entered(r, kind) \notin Bound
  BY DEF Entered, Body, Bound, Kinds
<1> QED BY <1>1 DEF Admit, Bound, TypeInv, LimiterInv

LEMMA ReleaseBindsNobody ==
  ASSUME TypeInv, NEW r \in Requests, NEW slot, NEW next, Release(r, slot, next),
         next \notin Bound, pc[r] # "waiting"
  PROVE  /\ \A x \in Requests : pc'[x] = pc[x] \/ pc'[x] \notin Bound
         /\ pc'[r] = next
<1> USE DEF TypeInv, LimiterInv
<1>1. CASE waiting = <<>>
  BY <1>1 DEF Release
<1>2. CASE waiting # <<>>
  <2> PICK w \in Requests : w = Head(waiting) /\ w = waiting[1] /\ 1 \in 1..Len(waiting)
    BY <1>2, HeadTailProperties, EmptySeq, LenProperties
  <2>1. pc[w] = "waiting" /\ w # r /\ JobFits(w) /\ job[w] \in Jobs
    BY DEF WaitersFit
  <2>2. job[w].kind \in Kinds
    BY <2>1 DEF JobFits, Jobs
  <2>3. Entered(w, job[w].kind) \notin Bound
    BY <2>2 DEF Entered, Body, Bound, Kinds
  <2> QED BY <1>2, <2>1, <2>3 DEF Release
<1> QED BY <1>1, <1>2

\* A step that leaves the log, the store and the captures under way alone.
LEMMA Quiet ==
  ASSUME TypeInv, DurableInv, UNCHANGED <<references, store, history>>,
         \A x \in Requests : pc'[x] \notin Bound \/ (pc'[x] = pc[x] /\ job'[x] = job[x])
  PROVE  DurableInv'
<1>1. UNCHANGED <<references, index, young, tombstones, sweep, promised, raced, overtaken>>
  BY DEF store, history
<1>2. ASSUME NEW x \in Requests
      PROVE  CaptureFits(x)'
  BY <1>1 DEF DurableInv, CaptureFits, Safe, Bound
<1>3. RivalsKnown'
  BY <1>1 DEF DurableInv, RivalsKnown, Bound
<1> QED BY <1>1, <1>2, <1>3 DEF DurableInv, ReferenceFits, Safe

\* The end of a request.
LEMMA AnswerIsQuiet ==
  ASSUME TypeInv, NEW r \in Requests, Answer(r), pc[r] # "waiting"
  PROVE  \A x \in Requests : pc'[x] \notin Bound \/ (pc'[x] = pc[x] /\ job'[x] = job[x])
<1>1. Release(r, "body", "idle") /\ job' = [job EXCEPT ![r] = Idle]
  BY DEF Answer
<1>2. \A x \in Requests : x # r => job'[x] = job[x]
  BY <1>1 DEF TypeInv, LimiterInv
<1>3. \A x \in Requests : pc'[x] = pc[x] \/ pc'[x] \notin Bound
  BY <1>1, ReleaseBindsNobody DEF Bound
<1>4. pc'[r] \notin Bound
  BY <1>1, ReleaseBindsNobody DEF Bound
<1> QED BY <1>2, <1>3, <1>4

LEMMA DurableAsks ==
  ASSUME TypeInv, DurableInv, NEW r \in Requests, Call(r)
  PROVE  DurableInv'
<1>1. PICK what : what.kind \in Kinds /\ Ask(r, what)
  <2>1. ASSUME NEW o \in Ids, AskCapture(r, o)
        PROVE  \E what : what.kind \in Kinds /\ Ask(r, what)
    <3> DEFINE it == [kind |-> "capture", id |-> o, content |-> None, left |-> 0]
    <3>1. it.kind \in Kinds
      BY DEF Kinds
    <3> QED BY <3>1, <2>1 DEF AskCapture
  <2>2. ASSUME NEW a \in Contents, AskRead(r, a) \/ AskSave(r, a)
        PROVE  \E what : what.kind \in Kinds /\ Ask(r, what)
    <3> DEFINE read == [kind |-> "read", id |-> None, content |-> a, left |-> 0]
               save == [kind |-> "save", id |-> None, content |-> a, left |-> Chunks]
    <3>1. read.kind \in Kinds /\ save.kind \in Kinds
      BY DEF Kinds
    <3>2. Ask(r, read) \/ Ask(r, save)
      BY <2>2 DEF AskRead, AskSave
    <3> QED BY <3>1, <3>2
  <2> QED BY <2>1, <2>2 DEF Call
<1>2. /\ pc[r] = "idle" /\ job' = [job EXCEPT ![r] = what] /\ Admit(r, what.kind)
      /\ UNCHANGED <<references, store, history>>
  BY <1>1 DEF Ask
<1>3. \A x \in Requests : x # r => job'[x] = job[x] /\ pc'[x] = pc[x]
  BY <1>2 DEF Admit, TypeInv, LimiterInv
<1>4. pc'[r] \notin Bound
  BY <1>1, <1>2, AdmitBindsNobody DEF Bound
<1> QED BY <1>2, <1>3, <1>4, Quiet

LEMMA DurableLookUp ==
  ASSUME TypeInv, DurableInv, NEW r \in Requests, LookUp(r)
  PROVE  DurableInv'
<1> DEFINE i == job[r].id
<1>1. pc[r] = "looking" /\ UNCHANGED <<references, store, promised, overtaken>>
  BY DEF LookUp
<1>2. CASE references[i] # None
  <2>1. Answer(r) /\ UNCHANGED raced
    BY <1>2 DEF LookUp
  <2> QED BY <1>1, <2>1, AnswerIsQuiet, Quiet DEF history
<1>3. CASE references[i] = None
  <2>1. /\ UNCHANGED job /\ pc' = [pc EXCEPT ![r] = "publishing"]
        /\ raced' = IF Capturing(i) = {} THEN raced ELSE raced \cup {i}
    BY <1>3 DEF LookUp
  <2>2. UNCHANGED <<references, index, young, tombstones, sweep, promised, overtaken>>
    BY <1>1 DEF store
  <2>3. pc'[r] = "publishing" /\ \A x \in Requests : x # r => pc'[x] = pc[x]
    BY <2>1 DEF TypeInv, LimiterInv
  <2>4. raced \subseteq raced'
    BY <2>1
  <2>5. ASSUME NEW x \in Requests
        PROVE  CaptureFits(x)'
    BY <2>1, <2>2, <2>3, <2>4, <1>3 DEF DurableInv, CaptureFits, Safe
  <2>6. \A x \in Requests : /\ job[x].id = i
                            /\ pc[x] \in {"publishing", "committing"}
                            => i \in raced'
    BY <2>1 DEF Capturing
  <2>7. RivalsKnown'
    BY <2>1, <2>3, <2>4, <2>6 DEF DurableInv, RivalsKnown
  <2>8. ASSUME NEW o \in Ids
        PROVE  ReferenceFits(o)'
    BY <2>2, <2>4 DEF DurableInv, ReferenceFits, Safe
  <2> QED BY <2>2, <2>5, <2>7, <2>8 DEF DurableInv
<1> QED BY <1>2, <1>3

\* An object published anew is safe, unless it is in the collector's hand.
LEMMA DurablePublish ==
  ASSUME TypeInv, DurableInv, NEW r \in Requests, NEW a \in Contents, Publish(r, a)
  PROVE  DurableInv'
<1>1. /\ pc[r] = "publishing" /\ pc' = [pc EXCEPT ![r] = "committing"]
      /\ job' = [job EXCEPT ![r].content = a]
      /\ overtaken' = IF sweep.hand = a THEN overtaken \cup {a} ELSE overtaken \ {a}
      /\ index' = index \cup {a} /\ young' = young \cup {a} /\ tombstones' = tombstones \ {a}
      /\ UNCHANGED <<references, sweep, promised, raced>>
  BY DEF Publish
<1>2. /\ job'[r].id = job[r].id /\ job'[r].content = a /\ pc'[r] = "committing"
      /\ \A x \in Requests : x # r => job'[x] = job[x] /\ pc'[x] = pc[x]
  BY <1>1 DEF TypeInv, LimiterInv, Jobs
<1>3. a \in overtaken' \/ (Safe(a)' /\ a \in young')
  BY <1>1 DEF Safe
<1>4. \A b : /\ Safe(b) /\ b # a => Safe(b)' /\ (b \in overtaken' <=> b \in overtaken)
             /\ b # a => (b \in overtaken' <=> b \in overtaken)
             /\ b \in young => b \in young'
  BY <1>1 DEF Safe
<1>5. ASSUME NEW x \in Requests
      PROVE  CaptureFits(x)'
  <2>1. CaptureFits(x) /\ CaptureFits(r)
    BY DEF DurableInv
  <2>2. CASE x = r
    BY <2>1, <2>2, <1>1, <1>2, <1>3 DEF CaptureFits
  <2>3. CASE x # r
    <3>1. job'[x] = job[x] /\ pc'[x] = pc[x]
      BY <2>3, <1>2
    <3>2. PICK c : c = job[x].content /\ c = job'[x].content
      BY <3>1
    <3>3. pc[x] = "committing" => c \in overtaken' \/ (Safe(c)' /\ c \in young')
      BY <2>1, <3>2, <1>3, <1>4 DEF CaptureFits
    <3> QED BY <3>1, <3>2, <3>3, <2>1, <1>1 DEF CaptureFits, Safe
  <2> QED BY <2>2, <2>3
<1>6. RivalsKnown'
  BY <1>1, <1>2 DEF DurableInv, RivalsKnown
<1>7. ASSUME NEW o \in Ids
      PROVE  ReferenceFits(o)'
  <2>1. ReferenceFits(o) /\ UNCHANGED references[o]
    BY <1>1 DEF DurableInv
  <2>2. references[o] \notin overtaken' \cup {None} =>
          /\ Safe(references[o])'
          /\ sweep.running => references[o] \in sweep.referenced \cup young'
    BY <2>1, <1>1, <1>3, <1>4 DEF ReferenceFits
  <2> QED BY <2>1, <2>2, <1>1 DEF ReferenceFits, Safe
<1> QED BY <1>1, <1>5, <1>6, <1>7 DEF DurableInv

\* The reference takes the place of a rival's, if there was one.
LEMMA DurableCommit ==
  ASSUME TypeInv, DurableInv, NEW r \in Requests, Commit(r)
  PROVE  DurableInv'
<1> DEFINE i == job[r].id
           a == job[r].content
<1>1. /\ pc[r] = "committing" /\ pc' = [pc EXCEPT ![r] = "checking"]
      /\ references' = [references EXCEPT ![i] = a]
      /\ UNCHANGED <<job, index, young, tombstones, sweep, promised, raced, overtaken>>
  BY DEF Commit, store, history
<1>2. i \in Ids /\ a \in Contents /\ a # None
  BY <1>1, PlaneAssumption DEF TypeInv, LimiterInv, JobFits, Capture
<1>3. a \in overtaken \/ (Safe(a) /\ a \in young)
  BY <1>1 DEF DurableInv, CaptureFits
<1>4. references[i] = None \/ i \in raced
  BY <1>1 DEF DurableInv, CaptureFits
<1>5. references'[i] = a /\ \A o \in Ids : o # i => references'[o] = references[o]
  BY <1>1, <1>2 DEF TypeInv, StoreTypes
<1>6. pc'[r] = "checking" /\ \A x \in Requests : x # r => pc'[x] = pc[x]
  BY <1>1 DEF TypeInv, LimiterInv
<1>7. ASSUME NEW x \in Requests
      PROVE  CaptureFits(x)'
  <2>1. CASE x = r
    BY <2>1, <1>1, <1>2, <1>5, <1>6 DEF CaptureFits
  <2>2. CASE x # r
    <3>1. pc'[x] = pc[x] /\ CaptureFits(x) /\ JobFits(x)
      BY <2>2, <1>6 DEF DurableInv, TypeInv, LimiterInv
    <3>2. pc[x] \in Bound => job[x].id \in Ids
      BY <3>1 DEF JobFits, Bound, Capture
    <3>3. CASE job[x].id # i
      BY <3>1, <3>2, <3>3, <1>1, <1>5 DEF CaptureFits, Safe, Bound
    <3>4. CASE job[x].id = i
      <4>1. pc[x] \in {"publishing", "committing"} => i \in raced
        BY <3>4, <2>2, <1>1 DEF DurableInv, RivalsKnown
      <4>2. pc[x] = "checking" => i \in raced
        BY <3>1, <3>4, <1>4 DEF CaptureFits
      <4> QED BY <3>1, <3>4, <4>1, <4>2, <1>1, <1>2, <1>5 DEF CaptureFits, Safe
    <3> QED BY <3>3, <3>4
  <2> QED BY <2>1, <2>2
<1>8. RivalsKnown'
  BY <1>1, <1>6 DEF DurableInv, RivalsKnown
<1>9. ASSUME NEW o \in Ids
      PROVE  ReferenceFits(o)'
  <2>1. CASE o # i
    BY <2>1, <1>1, <1>5 DEF DurableInv, ReferenceFits, Safe
  <2>2. CASE o = i
    BY <2>2, <1>1, <1>2, <1>3, <1>4, <1>5 DEF DurableInv, ReferenceFits, Safe
  <2> QED BY <2>1, <2>2
<1> QED BY <1>1, <1>7, <1>8, <1>9 DEF DurableInv

LEMMA DurableCheckpoint ==
  ASSUME TypeInv, DurableInv, NEW r \in Requests, Checkpoint(r)
  PROVE  DurableInv'
<1>1. /\ pc[r] = "checking" /\ Answer(r)
      /\ UNCHANGED <<references, index, young, tombstones, sweep, raced, overtaken>>
      /\ promised' = [promised EXCEPT ![job[r].id] = job[r].content]
  BY DEF Checkpoint, store
<1>2. /\ job[r].id \in Ids /\ references[job[r].id] # None
      /\ references[job[r].id] = job[r].content \/ job[r].id \in raced
  BY <1>1 DEF JobFits, CaptureFits, Capture, DurableInv, TypeInv, LimiterInv
<1>3. \A x \in Requests : pc'[x] \notin Bound \/ (pc'[x] = pc[x] /\ job'[x] = job[x])
  BY <1>1, AnswerIsQuiet
<1>4. ASSUME NEW x \in Requests
      PROVE  CaptureFits(x)'
  BY <1>1, <1>3 DEF DurableInv, CaptureFits, Safe, Bound
<1>5. RivalsKnown'
  BY <1>1, <1>3 DEF DurableInv, RivalsKnown, Bound
<1>6. ASSUME NEW o \in Ids
      PROVE  ReferenceFits(o)'
  BY <1>1, <1>2 DEF DurableInv, ReferenceFits, Safe, TypeInv, StoreTypes
<1> QED BY <1>1, <1>4, <1>5, <1>6 DEF DurableInv

LEMMA DurableSteps ==
  ASSUME TypeInv, DurableInv, NEW r \in Requests, Step(r)
  PROVE  DurableInv'
<1>1. CASE PublishFails(r)
  BY <1>1, AnswerIsQuiet, Quiet DEF PublishFails
<1>2. CASE CommitFails(r)
  BY <1>2, AnswerIsQuiet, Quiet DEF CommitFails
<1>3. CASE Read(r)
  BY <1>3, AnswerIsQuiet, Quiet DEF Read
<1>4. CASE NextChunk(r)
  <2>1. Admit(r, "save") /\ UNCHANGED <<job, references, store, history>> /\ "save" \in Kinds
    BY <1>4 DEF NextChunk, Kinds
  <2>2. \A x \in Requests : pc'[x] = pc[x] \/ pc'[x] \notin Bound
    BY <2>1, AdmitBindsNobody
  <2> QED BY <2>1, <2>2, Quiet
<1>5. CASE ChunkRead(r)
  <2>1. /\ Release(r, "chunk", "saving") /\ pc[r] = "chunk"
        /\ UNCHANGED <<references, store, history>>
    BY <1>5 DEF ChunkRead
  <2>2. \A x \in Requests : x # r => job'[x] = job[x]
    BY <1>5 DEF ChunkRead, TypeInv, LimiterInv
  <2>3. pc'[r] = "saving" /\ \A x \in Requests : pc'[x] = pc[x] \/ pc'[x] \notin Bound
    BY <2>1, ReleaseBindsNobody DEF Bound
  <2> QED BY <2>1, <2>2, <2>3, Quiet DEF Bound
<1>6. CASE SaveEnds(r)
  BY <1>6, AnswerIsQuiet, Quiet DEF SaveEnds
<1> QED BY <1>1, <1>2, <1>3, <1>4, <1>5, <1>6, DurableLookUp, DurablePublish,
           DurableCommit, DurableCheckpoint DEF Step

LEMMA DurableNext ==
  ASSUME TypeInv, DurableInv, [Next]_vars
  PROVE  DurableInv'
<1>1. ASSUME NEW r \in Requests, Call(r) \/ Step(r)
      PROVE  DurableInv'
  BY <1>1, DurableAsks, DurableSteps
<1>2. CASE Collector
  <2>0. UNCHANGED <<pc, job, references, promised, raced, overtaken>>
    BY <1>2 DEF Collector, BeginSweep, Examine, Retire, EndSweep, Ages, requests, history
  <2>1. RivalsKnown' /\ None \notin Contents
    BY <2>0, PlaneAssumption DEF DurableInv, RivalsKnown
  <2>2. \A x \in Requests : pc[x] = "committing" => job[x].content \in Contents
    BY DEF TypeInv, LimiterInv, JobFits
  <2>3. \A o \in Ids : references[o] # None => references[o] \in Contents
    BY DEF TypeInv, StoreTypes
  <2> USE DEF DurableInv, CaptureFits, ReferenceFits, Safe
  <2>4. CASE BeginSweep
    BY <2>0, <2>1, <2>2, <2>3, <2>4 DEF BeginSweep
  <2>5. ASSUME NEW a \in Contents, Examine(a)
        PROVE  DurableInv'
    BY <2>0, <2>1, <2>2, <2>5 DEF Examine, TypeInv, StoreTypes
  <2>6. CASE Retire
    BY <2>0, <2>1, <2>2, <2>3, <2>6 DEF Retire, TypeInv, StoreTypes
  <2>7. CASE EndSweep
    BY <2>0, <2>1, <2>2, <2>3, <2>7 DEF EndSweep, Resting
  <2>8. ASSUME NEW a \in Contents, Ages(a)
        PROVE  DurableInv'
    BY <2>0, <2>1, <2>8 DEF Ages
  <2> QED BY <1>2, <2>4, <2>5, <2>6, <2>7, <2>8 DEF Collector
<1>3. CASE Crash
  <2>1. /\ \A x \in Requests : pc'[x] = "idle"
        /\ sweep' = Resting /\ tombstones' = {}
        /\ UNCHANGED <<references, index, young, promised, raced, overtaken>>
    BY <1>3 DEF Crash, history
  <2>2. \A o \in Ids : references[o] # None => references[o] \in Contents
    BY DEF TypeInv, StoreTypes
  <2> QED BY <2>1, <2>2, PlaneAssumption DEF DurableInv, RivalsKnown, CaptureFits,
                                             ReferenceFits, Safe, Resting
<1>4. CASE UNCHANGED vars
  BY <1>4 DEF vars, store, history, DurableInv, RivalsKnown, CaptureFits, ReferenceFits, Safe
<1> QED BY <1>1, <1>2, <1>3, <1>4 DEF Next

\* What was answered durable keeps a reference to an object that can be named,
\* whatever is captured, collected or lost. The reference is the one that was
\* answered unless two captures raced to it, and the object stays nameable unless
\* it was last published in the collector's hand (artifacts.ts, captureFile,
\* collectGarbage): nothing else breaks the promise.
THEOREM DurableStaysReadable == Spec => []DurableIsReadable
<1>1. Init => DurableInv
  BY PlaneAssumption DEF Init, DurableInv, RivalsKnown, CaptureFits, ReferenceFits, Safe,
                         Idle, Resting
<1>2. DurableInv => DurableIsReadable
  BY DEF DurableInv, ReferenceFits, Safe, DurableIsReadable, Readable
<1>3. TypeInv /\ DurableInv /\ [Next]_vars => DurableInv'
  BY DurableNext
<1> QED BY <1>1, <1>2, <1>3, TypeInit, TypeNext, PTL DEF Spec
=============================================================================
