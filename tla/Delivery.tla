------------------------------ MODULE Delivery ------------------------------
(***************************************************************************)
(* What the bridge promises of each log, end to end: it is ahead of the    *)
(* listener, then held by the bridge as a job or as a row, and then        *)
(* settled for good.  Only a fault takes a log away, or a start that is    *)
(* cut short by a closing: the log is then ahead again, or lost until the  *)
(* listener or a start comes across it once more.                          *)
(***************************************************************************)
EXTENDS Naturals

CONSTANTS DeliveredLogs, FaultBudget  \* the budget is a bound

VARIABLES
  fate,       \* per log: ahead, held, settled or lost
  faultsLeft,
  cut         \* a closing comes during the start

deliveryVars == <<fate, faultsLeft, cut>>

DeliveryInit ==
  /\ fate = [l \in DeliveredLogs |-> "ahead"]
  /\ faultsLeft = FaultBudget /\ cut = FALSE

Moves(from, to) ==
  /\ fate' \in [DeliveredLogs -> {"ahead", "held", "settled", "lost"}]
  /\ \A l \in DeliveredLogs :
       fate'[l] # fate[l] => fate[l] \in from /\ fate'[l] \in to

\* A log is enqueued; or a process has ended, and the next one will start from the
\* saved block and from the rows that no update has reached.
Gain == Moves({"ahead", "lost"}, {"ahead", "held"}) /\ UNCHANGED faultsLeft

\* Its job is processed, or written off after all its tries.
Settle == Moves({"held"}, {"settled"}) /\ UNCHANGED faultsLeft

\* The start marks a row that the closing pool has saved.
Overwrite == cut /\ Moves({"held"}, {"ahead", "lost"}) /\ UNCHANGED faultsLeft

\* A crash, or a call that fails: whatever is not settled may be elsewhere.
Fault ==
  /\ faultsLeft > 0 /\ faultsLeft' = faultsLeft - 1
  /\ Moves({"ahead", "held", "lost"}, {"ahead", "held", "lost"})

\* A start may be cut short at any time.
DeliveryNext ==
  /\ cut' \in BOOLEAN
  /\ Gain \/ Settle \/ Overwrite \/ Fault

DeliverySpec == DeliveryInit /\ [][DeliveryNext]_deliveryVars
=============================================================================
