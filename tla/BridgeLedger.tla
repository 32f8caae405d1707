---------------------------- MODULE BridgeLedger -----------------------------
(***************************************************************************)
(* The durable row of one exact call made from a cell: one row updated in  *)
(* place, from the intent written before any dispatch to the settlement    *)
(* and the single disposition its lease reports. What a reader of the      *)
(* ledger is told of a call after a crash is a function of this row alone. *)
(***************************************************************************)

Dispositions == {"settled", "cancelled", "handed-to-jobs", "abandoned-unstarted"}

\* The two dispositions that say the call never reached its tool.
NeverRan == {"handed-to-jobs", "abandoned-unstarted"}

None == "none"

BridgeCallRecord == [started : BOOLEAN, settled : BOOLEAN,
                     disposition : Dispositions \cup {None}]

NoRow == [started |-> FALSE, settled |-> FALSE, disposition |-> None]

\* The write of an intent replaces whatever the key held.
Started(row) == [NoRow EXCEPT !.started = TRUE]

\* A settlement without an intent, and a second disposition, are refused.
CanSettle(row) == row.started

Settled(row) == [row EXCEPT !.settled = TRUE]

CanDispose(row) == row.started /\ row.disposition = None
Disposed(row, disposition) == [row EXCEPT !.disposition = disposition]

\* Mutant: a row without a settlement is unknown, whatever its disposition says.
UnsettledIsUnknown(row) == row.started /\ ~row.settled

outcomeIsUnknown(row) ==
  row.started /\ ~row.settled /\ row.disposition \notin NeverRan
=============================================================================
