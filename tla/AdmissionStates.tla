--------------------------- MODULE AdmissionStates ---------------------------
(***************************************************************************)
(* The vocabulary of one task's life, as states.ts declares it: the states *)
(* of a task record, the ones that count against the run's target, the two *)
(* that are final, and the edges a transition may take.                    *)
(***************************************************************************)

States == {"prepared", "launching", "accepted", "executing", "settling",
           "completed", "confirmed", "cancel_requested", "cancelled", "unknown"}

\* Mutant: a task nobody can account for frees its slot.
SlotHoldingWithoutUnknown == States \ {"completed", "confirmed", "cancelled", "unknown"}

SlotHoldingStates == States \ {"completed", "confirmed", "cancelled"}

TerminalStates == {"confirmed", "cancelled"}

HoldsSlot(s) == s \in SlotHoldingStates

\* States from which a running child may still be stopped or lost sight of.
Unfinished == {"prepared", "launching", "accepted", "executing", "settling"}

\* Mutant: an accepted task must be seen executing before it may complete.
TransitionsThroughExecuting ==
       Unfinished \X {"cancel_requested", "unknown"}
  \cup {<<"prepared", "launching">>, <<"accepted", "executing">>}
  \cup {"launching"} \X {"accepted", "prepared"}
  \cup {"executing"} \X {"settling", "completed"}
  \cup {"unknown"} \X {"accepted", "completed"}

Transitions ==
       Unfinished \X {"cancel_requested", "unknown"}
  \cup {<<"prepared", "launching">>}
  \cup {"launching"} \X {"accepted", "prepared"}
  \cup {"accepted"} \X {"executing", "settling", "completed"}
  \cup {"executing"} \X {"settling", "completed"}
  \cup {"settling"} \X {"completed", "confirmed"}
  \cup {"completed"} \X {"confirmed", "unknown", "cancelled"}
  \cup {"cancel_requested"} \X {"cancelled", "unknown"}
  \cup {"unknown"} \X (States \ {"prepared", "launching", "unknown"})

CanTransition(from, to) == <<from, to>> \in Transitions
=============================================================================
