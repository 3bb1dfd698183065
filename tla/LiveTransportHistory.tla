------------------------ MODULE LiveTransportHistory ------------------------
(***************************************************************************)
(* LiveTransport with a history variable that counts, independently of the *)
(* code's own counter, the sessions lost since the reader was started.     *)
(***************************************************************************)
EXTENDS LiveTransport

VARIABLE
  lost       \* sessions lost in a row since one that ran long

historyVars == <<vars, lost>>

HistoryInit ==
  /\ Init
  /\ lost = 0

(* The session is over and nobody cancelled it. *)
SessionIsLost ==
  /\ \/ reader = "connecting"
     \/ reader = "exiting" /\ outcome \in {"returned", "failed"}
  /\ cancel # "sent"
  /\ reader' \in {"backoff", "done"}

Started == life' # life

HistoryNext ==
  /\ Next
  /\ lost' = IF Started THEN 0
             ELSE IF ~SessionIsLost THEN lost
             ELSE IF longRun THEN 1 ELSE lost + 1

HistorySpec == HistoryInit /\ [][HistoryNext]_historyVars

HistoryFairSpec == HistorySpec /\ Fairness

(* The loop gives up after max_attempts + 1 sessions lost in a row, the    *)
(* first of which may have run long, and neither sooner nor later.         *)
GivesUpExactly ==
  /\ outcome = "exhausted" => lost = MaxAttempts + 1
  /\ Limited /\ reader = "backoff" => lost <= MaxAttempts

(* Why: while the reader runs its own counter is the number of sessions    *)
(* lost, and only a reader that has given up has the outcome "exhausted".  *)
LostInv ==
  /\ ReaderAlive => lost = attempt
  /\ outcome = "exhausted" => reader = "done"
  /\ GivesUpExactly

=============================================================================
