-------------------------- MODULE MCLiveTransport --------------------------
(* LiveTransport on small instances.                                        *)
EXTENDS LiveTransport

CONSTANTS m, t, e     \* consumers of messages(), time_sync(), lts_not_found()

AllStreams == [c \in Consumers |-> IF c = m THEN "messages"
                                   ELSE IF c = t THEN "time_sync" ELSE "lts"]

(* LTSNotFoundPolicy() *)
DefaultPolicy ==
  [r \in Reasons |-> IF r = "not_yet_started" THEN "continue"
                     ELSE IF r = "ended" THEN "terminate" ELSE "raise"]

RaisePolicy == [r \in Reasons |-> "raise"]

=============================================================================
