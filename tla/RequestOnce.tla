---------------------------- MODULE RequestOnce ------------------------------
(***************************************************************************)
(* What a cell's lease promises of a request id, however often its frame   *)
(* is sent: it names one operation, that operation reaches its tool at     *)
(* most once, one request's operation at a time, and never after the       *)
(* request was given up unstarted.                                         *)
(***************************************************************************)
CONSTANTS Requests, Arguments, NoArguments

VARIABLES status,  \* each request's place in its life
          names    \* the operation each request ran

vars == <<status, names>>

Init == /\ status = [r \in Requests |-> "new"]
        /\ names = [r \in Requests |-> NoArguments]

Run(r, a) == /\ status[r] = "new"
             /\ \A q \in Requests : status[q] # "running"
             /\ status' = [status EXCEPT ![r] = "running"]
             /\ names' = [names EXCEPT ![r] = a]

Return(r) == /\ status[r] = "running"
             /\ status' = [status EXCEPT ![r] = "returned"]
             /\ UNCHANGED names

\* The lease closes: any requests that have not run are given up together.
GiveUp(R) == /\ \A r \in R : status[r] = "new"
             /\ status' = [r \in Requests |-> IF r \in R THEN "dropped" ELSE status[r]]
             /\ UNCHANGED names

\* The runner goes from one call to the next within one step.
Hand(r, q, a) == /\ status[r] = "running" /\ status[q] = "new"
                 /\ status' = [status EXCEPT ![r] = "returned", ![q] = "running"]
                 /\ names' = [names EXCEPT ![q] = a]

Next == \/ \E r \in Requests, a \in Arguments : Run(r, a)
        \/ \E r \in Requests : Return(r)
        \/ \E R \in SUBSET Requests : GiveUp(R)
        \/ \E r, q \in Requests, a \in Arguments : Hand(r, q, a)

Spec == Init /\ [][Next]_vars
=============================================================================
