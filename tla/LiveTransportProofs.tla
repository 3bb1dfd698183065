------------------------ MODULE LiveTransportProofs ------------------------
(***************************************************************************)
(* Proofs about LiveTransport, for every set of consumers, every policy    *)
(* and every value of the bounds: its safety properties, that it           *)
(* implements MessageStream, and what LiveTransportHistory counts.         *)
(***************************************************************************)
EXTENDS LiveTransportHistory, SequenceTheorems, TLAPS

-----------------------------------------------------------------------------
(* The queues. *)

(* Sentinels and the items made from frames are queue items.               *)
LEMMA ItemTypes ==
  /\ END \in Items
  /\ EXHAUSTED \in Items
  /\ \A kind \in {"message", "time"} \cup Reasons, n \in Nat :
       [kind |-> kind, frame |-> n] \in Items
BY DEF Items, Data, Sentinels, END, EXHAUSTED

(* The queues of the current life get at most one item each, the others    *)
(* none.                                                                   *)
Grows(old, new) ==
  /\ new \in [1..MaxLives -> [Streams -> Seq(Items)]]
  /\ \A l \in 1..MaxLives, s \in Streams :
       \/ new[l][s] = old[l][s]
       \/ l = life /\ \E item \in Items : new[l][s] = Append(old[l][s], item)

(* Nothing that was put on a queue is ever changed.                        *)
Extends(old, new) ==
  \A l \in 1..MaxLives, s \in Streams :
    /\ Len(old[l][s]) <= Len(new[l][s])
    /\ \A i \in 1..Len(old[l][s]) : new[l][s][i] = old[l][s][i]

(* put() adds one item to one queue of the current life.                   *)
LEMMA PutGrows ==
  ASSUME log \in LogType, life \in 1..MaxLives,
         NEW s \in Streams, NEW item \in Items
  PROVE  /\ Grows(log, Put(s, item))
         /\ Put(s, item)[life][s] = Append(log[life][s], item)
<1>1. \A l \in 1..MaxLives, r \in Streams :
        Put(s, item)[l][r] =
          IF l = life /\ r = s THEN Append(log[l][r], item) ELSE log[l][r]
  BY DEF Put, LogType
<1>2. Put(s, item) \in LogType
  BY DEF Put, LogType
<1>3. QED
  BY <1>1, <1>2 DEF Grows, LogType

LEMMA GrowsExtends ==
  ASSUME log \in LogType, Grows(log, log')
  PROVE  Extends(log, log')
<1>1. SUFFICES ASSUME NEW l \in 1..MaxLives, NEW s \in Streams
               PROVE  /\ Len(log[l][s]) <= Len(log'[l][s])
                      /\ \A i \in 1..Len(log[l][s]) : log'[l][s][i] = log[l][s][i]
  BY DEF Extends
<1>2. log[l][s] \in Seq(Items) /\ Len(log[l][s]) \in Nat
  BY LenProperties DEF LogType
<1>3. CASE log'[l][s] = log[l][s]
  BY <1>2, <1>3
<1>4. CASE \E item \in Items : log'[l][s] = Append(log[l][s], item)
  BY <1>2, <1>4, AppendProperties
<1>5. QED
  BY <1>3, <1>4 DEF Grows

(* An item that was put on a queue stays there.                            *)
LEMMA HoldsStays ==
  ASSUME log \in LogType, Grows(log, log'),
         NEW l \in 1..MaxLives, NEW s \in Streams, NEW kind, Holds(l, s, kind)
  PROVE  Holds(l, s, kind)'
<1>1. PICK i \in 1..Len(log[l][s]) : log[l][s][i].kind = kind
  BY DEF Holds
<1>2. /\ Len(log[l][s]) <= Len(log'[l][s])
      /\ log'[l][s][i] = log[l][s][i]
  BY GrowsExtends DEF Extends
<1>3. Len(log[l][s]) \in Nat
  BY LenProperties DEF LogType
<1>4. log'[l][s] \in Seq(Items) /\ Len(log'[l][s]) \in Nat
  BY LenProperties DEF Grows
<1>5. QED
  BY <1>1, <1>2, <1>3, <1>4 DEF Holds

(* An item just put is there.                                              *)
LEMMA HoldsNew ==
  ASSUME log \in LogType, NEW l \in 1..MaxLives, NEW s \in Streams,
         NEW item \in Items, log'[l][s] = Append(log[l][s], item)
  PROVE  /\ Holds(l, s, item.kind)'
         /\ log'[l][s] # <<>>
         /\ log'[l][s][Len(log'[l][s])] = item
<1>1. log[l][s] \in Seq(Items) /\ Len(log[l][s]) \in Nat
  BY LenProperties DEF LogType
<1>2. /\ Len(log'[l][s]) = Len(log[l][s]) + 1
      /\ log'[l][s][Len(log[l][s]) + 1] = item
  BY <1>1, AppendProperties
<1>3. QED
  BY <1>1, <1>2 DEF Holds

-----------------------------------------------------------------------------
(* What a step does to the log. *)

(* Expanding the tuples of unchanged variables, everywhere below.          *)
USE DEF queueVars, readerVars, cancelVars, lifeVars, consumerVars, frameVars

LEMMA LtsEventType ==
  ASSUME TypeOK, frames' = frames + 1
  PROVE  LtsEvent \in Items /\ LtsEvent.kind = Classify /\ Classify \in Reasons
BY ConstantsAssumption, ItemTypes DEF TypeOK, LtsEvent, Classify, Reasons

LEMMA StepGrows ==
  ASSUME TypeOK, TaskInv, [Next]_vars
  PROVE  Grows(log, log')
<1>0. log \in LogType /\ life \in 0..MaxLives
  BY DEF TypeOK, LogType
<1>1. CASE UNCHANGED log
  BY <1>0, <1>1 DEF Grows, LogType
<1>2. ASSUME life \in 1..MaxLives, NEW s \in Streams, NEW item \in Items,
             log' = Put(s, item)
      PROVE  Grows(log, log')
  BY <1>0, <1>2, PutGrows
<1>3. ASSUME reader # "none" PROVE life \in 1..MaxLives
  BY <1>0, <1>3 DEF TaskInv
<1>4. CASE Reader
  BY <1>1, <1>2, <1>3, <1>4, ItemTypes
  DEF Reader, StartSession, OpenSocket, ConnectFails, CloseSocket,
      ReachSuspension, DeliverCancel, AfterSession, Streams
<1>5. CASE SessionEnds
  BY <1>1, <1>5 DEF SessionEnds
<1>6. CASE Frame
  <2>0. life \in 1..MaxLives /\ frames' = frames + 1 /\ frames \in Nat
    BY <1>3, <1>6, ConstantsAssumption
    DEF Frame, FrameUndecodable, FrameSkipped, FrameTimeSync, FrameMessage,
        LtsContinue, LtsRaise, LtsTerminate, Receive, TypeOK
  <2>1. CASE FrameUndecodable \/ FrameSkipped
    BY <1>1, <2>1 DEF FrameUndecodable, FrameSkipped
  <2>2. CASE FrameTimeSync \/ FrameMessage
    BY <1>2, <2>0, <2>2, ItemTypes DEF FrameTimeSync, FrameMessage, Streams
  <2>3. CASE LtsContinue \/ LtsRaise
    BY <1>2, <2>0, <2>3, LtsEventType DEF LtsContinue, LtsRaise, Streams
  <2>4. CASE LtsTerminate
    <3>1. LtsEvent \in Items /\ EXHAUSTED \in Items
      BY <2>0, LtsEventType, ItemTypes
    <3>2. log' = [log EXCEPT ![life]["lts"] = Append(@, LtsEvent),
                             ![life]["messages"] = Append(@, EXHAUSTED)]
      BY <2>4 DEF LtsTerminate
    <3>3. \A l \in 1..MaxLives, s \in Streams :
            log'[l][s] =
              IF l = life /\ s = "lts" THEN Append(log[l][s], LtsEvent)
              ELSE IF l = life /\ s = "messages" THEN Append(log[l][s], EXHAUSTED)
              ELSE log[l][s]
      BY <1>0, <2>0, <3>2 DEF LogType, Streams
    <3>4. log' \in LogType
      BY <1>0, <2>0, <3>1, <3>2 DEF LogType, Streams
    <3>5. QED
      BY <3>1, <3>3, <3>4 DEF Grows, LogType
  <2>5. QED
    BY <1>6, <2>1, <2>2, <2>3, <2>4 DEF Frame
<1>7. CASE Time \/ Watchdog \/ User
  BY <1>1, <1>7
  DEF Time, GoIdle, GrowOld, RunLong, Watchdog, WatchdogFires,
      WatchdogSeesClosed, WatchdogCancelled, User, Connect, Close, Iterate,
      Abandon
<1>8. CASE CloseGotReader
  BY <1>1, <1>8 DEF CloseGotReader
<1>9. CASE CloseFinishes
  <2>1. life \in 1..MaxLives
    BY <1>0, <1>9 DEF CloseFinishes, TaskInv
  <2>2. log' = [log EXCEPT ![life] = [s \in Streams |-> Append(log[life][s], END)]]
    BY <1>9 DEF CloseFinishes
  <2>3. \A l \in 1..MaxLives, s \in Streams :
          log'[l][s] = IF l = life THEN Append(log[l][s], END) ELSE log[l][s]
    BY <1>0, <2>1, <2>2 DEF LogType
  <2>4. log' \in LogType
    BY <1>0, <2>1, <2>2, ItemTypes DEF LogType
  <2>5. QED
    BY <2>3, <2>4, ItemTypes DEF Grows, LogType
<1>10. CASE \E c \in Consumers : Consume(c)
  BY <1>1, <1>10 DEF Consume, TakeData, TakeSentinel, TakeItem, Resume
<1>11. CASE UNCHANGED vars
  BY <1>1, <1>11 DEF vars
<1>12. QED
  BY <1>4, <1>5, <1>6, <1>7, <1>8, <1>9, <1>10, <1>11 DEF Next, Server, Closing

-----------------------------------------------------------------------------
(* The inductive step, one invariant part after the other. *)

(* The session record keeps its type.                                      *)
LEMMA SessionStep ==
  ASSUME session \in Sessions, [Next]_vars
  PROVE  session' \in Sessions
<1> USE DEF Sessions
<1>1. CASE UNCHANGED session
  BY <1>1
<1>2. CASE session' = FreshSession
  BY <1>2 DEF FreshSession
<1>3. ASSUME NEW k, NEW obs \in Sessions, Receive(k, obs)
      PROVE  session' \in Sessions
  BY <1>3 DEF Receive
<1>4. CASE Reader
  BY <1>1, <1>2, <1>4 DEF Reader, StartSession, OpenSocket, ConnectFails,
     CloseSocket, ReachSuspension, DeliverCancel
<1>5. CASE Frame
  <2>1. \A k : Observe(k) \in Sessions
    BY DEF Observe
  <2>2. QED
    BY <1>3, <1>5, <2>1 DEF Frame, FrameUndecodable, FrameSkipped,
       FrameTimeSync, FrameMessage, LtsContinue, LtsRaise, LtsTerminate
<1>6. CASE Time
  BY <1>6 DEF Time, GoIdle, GrowOld, RunLong
<1>7. CASE SessionEnds \/ Watchdog \/ Closing
  BY <1>1, <1>7 DEF SessionEnds, Watchdog, WatchdogFires, WatchdogSeesClosed,
     WatchdogCancelled, Closing, CloseGotReader, CloseFinishes
<1>8. CASE User
  BY <1>1, <1>2, <1>8 DEF User, Connect, Close, Iterate, Abandon, Start
<1>9. CASE \E c \in Consumers : Consume(c)
  BY <1>1, <1>9 DEF Consume, TakeData, TakeSentinel, TakeItem, Resume
<1>10. CASE UNCHANGED vars
  BY <1>1, <1>10 DEF vars
<1>11. QED
  BY <1>4, <1>5, <1>6, <1>7, <1>8, <1>9, <1>10 DEF Next, Server

LEMMA TypeStep ==
  ASSUME TypeOK, TaskInv, ConsumerInv, [Next]_vars
  PROVE  TypeOK'
<1>0. /\ LogType' = LogType /\ CountType' = CountType
      /\ AttemptBound' = AttemptBound /\ Exceptions' = Exceptions
      /\ Sessions' = Sessions
      /\ log' \in LogType
      /\ session' \in Sessions
  BY StepGrows, SessionStep
  DEF Grows, LogType, CountType, AttemptBound, Exceptions, Sessions, TypeOK
<1> USE <1>0 DEF TypeOK
<1>1. CASE StartSession
  BY <1>1 DEF StartSession
<1>2. CASE OpenSocket
  BY <1>2 DEF OpenSocket
<1>3. ASSUME AfterSession
      PROVE  /\ attempt' \in 0..AttemptBound
             /\ reader' \in {"backoff", "done"}
             /\ outcome' \in {"none", "exhausted", "overflow"}
             /\ cancel' \in {"none", "latent", "sent"}
  BY <1>3, ConstantsAssumption
  DEF AfterSession, FinishReader, AttemptNow, Exhausted, AttemptBound
<1>4. CASE ConnectFails
  BY <1>3, <1>4 DEF ConnectFails
<1>5. CASE CloseSocket
  <2>1. /\ attempt' \in 0..AttemptBound
        /\ reader' \in {"backoff", "done"}
        /\ outcome' \in {"none", "exhausted", "overflow", "lts_error", "cancelled"}
        /\ cancel' \in {"none", "latent", "sent"}
    BY <1>3, <1>5 DEF CloseSocket, FinishReader
  <2>2. QED
    BY <1>5, <2>1 DEF CloseSocket
<1>6. CASE ReachSuspension
  BY <1>6 DEF ReachSuspension
<1>7. CASE DeliverCancel
  BY <1>7 DEF DeliverCancel, FinishReader
<1>8. CASE SessionEnds
  BY <1>8 DEF SessionEnds
<1>9. ASSUME NEW k, NEW obs, Receive(k, obs)
      PROVE  frames' \in 0..MaxFrames
  BY <1>9, ConstantsAssumption DEF Receive
<1>10. CASE FrameUndecodable
  BY <1>9, <1>10 DEF FrameUndecodable, Receive
<1>11. CASE FrameSkipped
  BY <1>9, <1>11 DEF FrameSkipped, Receive
<1>12. CASE FrameTimeSync
  BY <1>9, <1>12 DEF FrameTimeSync, Receive
<1>13. CASE FrameMessage
  BY <1>9, <1>13 DEF FrameMessage, Receive
<1>14. CASE LtsContinue
  BY <1>9, <1>14 DEF LtsContinue, Receive
<1>15. CASE LtsRaise
  <2>1. pendingExc' \in Exceptions
    BY <1>15 DEF LtsRaise, Classify, Exceptions, Reasons
  <2>2. QED
    BY <1>9, <1>15, <2>1 DEF LtsRaise, Receive
<1>16. CASE LtsTerminate
  BY ZenonT(60), <1>9, <1>16 DEF LtsTerminate, Receive
<1>17. CASE GoIdle
  BY <1>17 DEF GoIdle
<1>18. CASE GrowOld
  BY <1>18 DEF GrowOld
<1>19. CASE RunLong
  BY <1>19 DEF RunLong
<1>20. CASE WatchdogFires
  <2>1. cancel' \in {"none", "latent", "sent"}
        /\ cancelledBy' \subseteq {"terminate", "watchdog", "close"}
    BY <1>20 DEF WatchdogFires, CancelReader
  <2>2. QED
    BY <1>20, <2>1 DEF WatchdogFires
<1>21. CASE WatchdogSeesClosed
  BY <1>21 DEF WatchdogSeesClosed
<1>22. CASE WatchdogCancelled
  BY <1>22 DEF WatchdogCancelled
<1>23. CASE CloseGotReader
  BY <1>23 DEF CloseGotReader
<1>24. CASE CloseFinishes
  BY <1>24 DEF CloseFinishes
<1>25. ASSUME Start PROVE life' \in 0..MaxLives /\ attempt' \in 0..AttemptBound
  BY <1>25, ConstantsAssumption DEF Start, AttemptBound
<1>26. CASE Connect
  BY <1>25, <1>26 DEF Connect, Start
<1>27. CASE Close
  <2>1. cancel' \in {"none", "latent", "sent"}
        /\ cancelledBy' \subseteq {"terminate", "watchdog", "close"}
    BY <1>27 DEF Close, CancelReader
  <2>2. QED
    BY <1>27, <2>1 DEF Close
<1>28. ASSUME NEW c \in Consumers, Iterate(c) PROVE TypeOK'
  <2>1. life' \in 0..MaxLives /\ bound' = [bound EXCEPT ![c] = life']
    BY <1>25, <1>28 DEF Iterate
  <2>2. bound' \in [Consumers -> 0..MaxLives]
    BY <2>1
  <2>3. CASE connected
    <3>1. consumer' \in [Consumers -> {"idle", "getting", "holding", "ended", "raised"}]
      BY <1>28 DEF Iterate
    <3>2. /\ UNCHANGED <<lifeVars, readerVars, cancelVars, watchdog>>
          /\ UNCHANGED <<closer, queueVars, pendingExc, caught, frameVars>>
      BY <1>28, <2>3 DEF Iterate
    <3>3. QED
      BY <2>2, <3>1, <3>2
  <2>4. CASE ~connected
    BY <1>25, <1>28, <2>2, <2>4 DEF Iterate, Start
  <2>5. QED
    BY <2>3, <2>4
<1>29. ASSUME NEW c \in Consumers, Abandon(c) PROVE TypeOK'
  BY <1>29 DEF Abandon
<1>30. ASSUME NEW c \in Consumers, Resume(c) PROVE TypeOK'
  BY <1>30 DEF Resume
<1>31. ASSUME NEW c \in Consumers, TakeItem(c) PROVE taken' \in CountType
  <2> HIDE DEF TypeOK
  <2>1. taken \in CountType
    BY DEF TypeOK
  <2>2. taken' = [taken EXCEPT ![bound[c]][StreamOf[c]] = taken[bound[c]][StreamOf[c]] + 1]
    BY <1>31 DEF TakeItem
  <2>3. bound[c] \in 1..MaxLives
    BY <1>31 DEF TypeOK, ConsumerInv, TakeItem, Waiting
  <2>4. StreamOf[c] \in Streams
    BY ConstantsAssumption
  <2>5. QED
    BY <2>1, <2>2, <2>3, <2>4 DEF CountType
<1>32. ASSUME NEW c \in Consumers, TakeData(c) PROVE TypeOK'
  <2>1. consumer' \in [Consumers -> {"idle", "getting", "holding", "ended", "raised"}]
    BY <1>32 DEF TakeData
  <2>2. taken' \in CountType
    BY <1>31, <1>32 DEF TakeData
  <2>3. UNCHANGED <<lifeVars, closer, readerVars, cancelVars, watchdog, log,
                    bound, frameVars, pendingExc, caught>>
    BY <1>32 DEF TakeData, TakeItem
  <2>4. QED
    BY <2>1, <2>2, <2>3
<1>33. ASSUME NEW c \in Consumers, TakeSentinel(c) PROVE TypeOK'
  <2>1. NoExc \in Exceptions
    BY DEF NoExc, Exceptions
  <2>2. /\ consumer' \in [Consumers -> {"idle", "getting", "holding", "ended", "raised"}]
        /\ caught' \in [Consumers -> Exceptions]
        /\ pendingExc' \in Exceptions
    BY <1>33, <2>1 DEF TakeSentinel
  <2>3. taken' \in CountType
    BY <1>31, <1>33 DEF TakeSentinel
  <2>4. QED
    BY <1>33, <2>2, <2>3 DEF TakeSentinel, TakeItem
<1>34. CASE UNCHANGED vars
  BY <1>34 DEF vars
<1>35. QED
  BY <1>1, <1>2, <1>4, <1>5, <1>6, <1>7, <1>8, <1>10, <1>11, <1>12, <1>13, <1>14,
     <1>15, <1>16, <1>17, <1>18, <1>19, <1>20, <1>21, <1>22, <1>23, <1>24, <1>26,
     <1>27, <1>28, <1>29, <1>30, <1>32, <1>33, <1>34
  DEF Next, Reader, Server, Frame, Time, Watchdog, Closing, User, Consume

(* What the three parts on control need of the types. *)
ControlTypes ==
  /\ connected \in BOOLEAN
  /\ closed \in BOOLEAN
  /\ life \in Nat
  /\ cancel \in {"none", "latent", "sent"}
  /\ cancelledBy \subseteq {"terminate", "watchdog", "close"}
  /\ reader \in {"none", "offset", "connecting", "frames", "exiting",
                 "backoff", "done"}

LEMMA ControlStep ==
  ASSUME TypeOK, TaskInv, CancelInv, ClosedInv, [Next]_vars
  PROVE  TaskInv' /\ CancelInv'
<1>0. ControlTypes
  BY DEF TypeOK, ControlTypes
<1>a. ~connected /\ life > 0 => closed /\ closer = "none" /\ reader = "done"
  BY DEF ClosedInv
<1> USE <1>0 DEF ControlTypes, TaskInv, CancelInv, ReaderAlive
<1>1. CASE StartSession
  BY <1>1 DEF StartSession
<1>2. CASE OpenSocket
  BY <1>2 DEF OpenSocket
<1>3. CASE ConnectFails
  BY <1>3 DEF ConnectFails, AfterSession, FinishReader
<1>4. CASE CloseSocket
  BY <1>4 DEF CloseSocket, AfterSession, FinishReader
<1>5. CASE ReachSuspension
  BY <1>5 DEF ReachSuspension
<1>6. CASE DeliverCancel
  BY <1>6 DEF DeliverCancel, FinishReader
<1>7. CASE SessionEnds
  BY <1>7 DEF SessionEnds
<1>8. CASE FrameUndecodable \/ FrameSkipped \/ FrameTimeSync \/ FrameMessage
  BY <1>8 DEF FrameUndecodable, FrameSkipped, FrameTimeSync, FrameMessage, Receive
<1>9. CASE LtsContinue \/ LtsRaise
  BY <1>9 DEF LtsContinue, LtsRaise, Receive
<1>10. CASE LtsTerminate
  BY <1>10 DEF LtsTerminate, Receive
<1>11. CASE Time
  BY <1>11 DEF Time, GoIdle, GrowOld, RunLong
<1>12. CASE WatchdogFires
  BY <1>12 DEF WatchdogFires, CancelReader, LoopFree
<1>13. CASE WatchdogSeesClosed \/ WatchdogCancelled
  BY <1>13 DEF WatchdogSeesClosed, WatchdogCancelled
<1>14. CASE CloseGotReader
  BY <1>14 DEF CloseGotReader
<1>15. CASE CloseFinishes
  BY <1>15 DEF CloseFinishes
<1>16. CASE Connect
  BY <1>a, <1>16 DEF Connect, Start
<1>17. CASE Close
  <2>1. CASE life = 0
    BY <1>17, <2>1 DEF Close
  <2>2. CASE life # 0
    <3>1. connected /\ closed' /\ CancelReader("close")
      BY <1>a, <1>17, <2>2 DEF Close
    <3>2. UNCHANGED <<connected, life, readerVars, watchdog>> /\ closer' = "reader"
      BY <1>17, <2>2 DEF Close
    <3>3. cancel # "latent"
      BY <1>17 DEF Close, LoopFree
    <3>4. QED
      BY <3>1, <3>2, <3>3 DEF CancelReader
  <2>3. QED
    BY <2>1, <2>2
<1>18. ASSUME NEW c \in Consumers, Iterate(c) PROVE TaskInv' /\ CancelInv'
  <2>1. CASE connected
    BY <1>18, <2>1 DEF Iterate
  <2>2. CASE ~connected
    BY <1>a, <1>18, <2>2 DEF Iterate, Start
  <2>3. QED
    BY <2>1, <2>2
<1>19. ASSUME NEW c \in Consumers, Abandon(c) \/ Resume(c)
       PROVE  TaskInv' /\ CancelInv'
  <2>1. UNCHANGED <<lifeVars, closer, readerVars, cancelVars, watchdog>>
    BY <1>19 DEF Abandon, Resume
  <2>2. QED
    BY <2>1
<1>20. ASSUME NEW c \in Consumers, TakeData(c) \/ TakeSentinel(c)
       PROVE  TaskInv' /\ CancelInv'
  <2>1. UNCHANGED <<lifeVars, closer, readerVars, cancelVars, watchdog>>
    BY <1>20 DEF TakeData, TakeSentinel, TakeItem
  <2>2. QED
    BY <2>1
<1>21. CASE UNCHANGED vars
  BY <1>21 DEF vars
<1>22. QED
  BY <1>1, <1>2, <1>3, <1>4, <1>5, <1>6, <1>7, <1>8, <1>9, <1>10, <1>11, <1>12,
     <1>13, <1>14, <1>15, <1>16, <1>17, <1>18, <1>19, <1>20, <1>21
  DEF Next, Reader, Server, Frame, Watchdog, Closing, User, Consume

LEMMA ClosedStep ==
  ASSUME TypeOK, TaskInv, CancelInv, ClosedInv, [Next]_vars
  PROVE  ClosedInv'
<1>0. ControlTypes
  BY DEF TypeOK, ControlTypes
<1>a. UNCHANGED <<log, life>> /\ EndsWithEND(life) => EndsWithEND(life)'
  BY DEF EndsWithEND
<1> USE <1>0, <1>a DEF ControlTypes, TaskInv, CancelInv, ClosedInv, ReaderAlive
<1>1. CASE StartSession
  BY <1>1 DEF StartSession
<1>2. CASE OpenSocket
  BY <1>2 DEF OpenSocket
<1>3. CASE ConnectFails
  BY <1>3 DEF ConnectFails, AfterSession, FinishReader
<1>4. CASE CloseSocket
  BY <1>4 DEF CloseSocket, AfterSession, FinishReader
<1>5. CASE ReachSuspension
  BY <1>5 DEF ReachSuspension
<1>6. CASE DeliverCancel
  BY <1>6 DEF DeliverCancel, FinishReader
<1>7. CASE SessionEnds
  BY <1>7 DEF SessionEnds
<1>8. CASE FrameUndecodable \/ FrameSkipped \/ FrameTimeSync \/ FrameMessage
  BY <1>8 DEF FrameUndecodable, FrameSkipped, FrameTimeSync, FrameMessage, Receive
<1>9. CASE LtsContinue \/ LtsRaise
  BY <1>9 DEF LtsContinue, LtsRaise, Receive
<1>10. CASE LtsTerminate
  BY <1>10 DEF LtsTerminate, Receive
<1>11. CASE Time
  BY <1>11 DEF Time, GoIdle, GrowOld, RunLong
<1>12. CASE WatchdogFires
  BY <1>12 DEF WatchdogFires, CancelReader
<1>13. CASE WatchdogSeesClosed \/ WatchdogCancelled
  BY <1>13 DEF WatchdogSeesClosed, WatchdogCancelled
<1>14. CASE CloseGotReader
  BY <1>14 DEF CloseGotReader
<1>15. CASE CloseFinishes
  <2>1. life \in 1..MaxLives /\ log \in LogType
    BY <1>15 DEF CloseFinishes, TypeOK
  <2>2. \A s \in Streams : log'[life][s] = Append(log[life][s], END)
    BY <1>15, <2>1 DEF CloseFinishes, LogType
  <2>3. \A s \in Streams :
          log'[life][s] # <<>> /\ log'[life][s][Len(log'[life][s])] = END
    BY <2>1, <2>2, HoldsNew, ItemTypes
  <2>4. EndsWithEND(life)'
    BY <1>15, <2>3 DEF EndsWithEND, CloseFinishes
  <2>5. QED
    BY <1>15, <2>4 DEF CloseFinishes
<1>16. CASE Connect
  BY <1>16 DEF Connect, Start
<1>17. CASE Close
  <2>1. CASE life = 0
    BY <1>17, <2>1 DEF Close
  <2>2. CASE life # 0
    <3>1. connected /\ connected' /\ closed' /\ closer' = "reader"
      BY <1>17, <2>2 DEF Close
    <3>2. reader' = reader /\ CancelReader("close")
      BY <1>17, <2>2 DEF Close
    <3>3. QED
      BY <3>1, <3>2 DEF CancelReader
  <2>3. QED
    BY <2>1, <2>2
<1>18. ASSUME NEW c \in Consumers, Iterate(c) PROVE ClosedInv'
  <2>1. CASE connected
    BY <1>18, <2>1 DEF Iterate
  <2>2. CASE ~connected
    BY <1>18, <2>2 DEF Iterate, Start
  <2>3. QED
    BY <2>1, <2>2
<1>19. ASSUME NEW c \in Consumers, Abandon(c) \/ Consume(c) PROVE ClosedInv'
  <2>1. UNCHANGED <<lifeVars, closer, readerVars, cancelVars, watchdog, log>>
    BY <1>19 DEF Abandon, Consume, Resume, TakeData, TakeSentinel, TakeItem
  <2>2. QED
    BY <2>1
<1>20. CASE UNCHANGED vars
  BY <1>20 DEF vars
<1>21. QED
  BY <1>1, <1>2, <1>3, <1>4, <1>5, <1>6, <1>7, <1>8, <1>9, <1>10, <1>11, <1>12,
     <1>13, <1>14, <1>15, <1>16, <1>17, <1>18, <1>19, <1>20
  DEF Next, Reader, Server, Frame, Watchdog, Closing, User

LEMMA EndStep ==
  ASSUME TypeOK, TaskInv, ClosedInv, EndInv, [Next]_vars
  PROVE  EndInv'
<1>0. /\ log \in LogType /\ Grows(log, log')
      /\ life \in 0..MaxLives /\ "messages" \in Streams
      /\ connected \in BOOLEAN
      /\ reader # "none" => life \in 1..MaxLives
  BY StepGrows DEF TypeOK, Streams, TaskInv
<1> DEFINE Pending ==
             /\ "terminate" \notin cancelledBy
             /\ connected
             /\ ~(reader = "done" /\ outcome \in {"lts_error", "exhausted"})
<1>a. ASSUME NEW l \in 1..MaxLives, MessagesEnded(l)
      PROVE  MessagesEnded(l)'
  BY <1>0, <1>a, HoldsStays DEF MessagesEnded
<1>b. ASSUME NEW l \in 1..MaxLives, NEW item \in {END, EXHAUSTED},
             log'[l]["messages"] = Append(log[l]["messages"], item)
      PROVE  MessagesEnded(l)'
  <2>1. item \in Items /\ item.kind \in {"end", "exhausted"}
    BY ItemTypes DEF END, EXHAUSTED
  <2>2. QED
    BY <1>0, <1>b, <2>1, HoldsNew DEF MessagesEnded
<1>c. ASSUME life' = life, Pending => Pending' PROVE EndInv'
  BY <1>a, <1>c DEF EndInv
<1>d. ASSUME life' = life, reader # "none",
             log'[life]["messages"] = Append(log[life]["messages"], EXHAUSTED)
      PROVE  EndInv'
  BY <1>0, <1>a, <1>b, <1>d DEF EndInv
<1>e. ASSUME Start, ~connected PROVE EndInv'
  BY <1>0, <1>a, <1>e DEF Start, EndInv
<1>f. ASSUME reader # "none", log' = Put("messages", EXHAUSTED)
      PROVE  log'[life]["messages"] = Append(log[life]["messages"], EXHAUSTED)
  BY <1>0, <1>f, PutGrows, ItemTypes
<1>1. CASE StartSession \/ OpenSocket \/ ReachSuspension \/ DeliverCancel
  BY <1>c, <1>1 DEF StartSession, OpenSocket, ReachSuspension, DeliverCancel,
     FinishReader
<1>2. CASE ConnectFails
  <2>1. life' = life /\ reader # "none" /\ UNCHANGED <<connected, cancelledBy>>
    BY <1>2 DEF ConnectFails
  <2>2. QED
    BY <1>2, <1>c, <1>d, <1>f, <2>1 DEF ConnectFails, AfterSession, FinishReader
<1>3. CASE CloseSocket
  <2>1. life' = life /\ reader # "none" /\ UNCHANGED <<connected, cancelledBy>>
    BY <1>3 DEF CloseSocket
  <2>2. QED
    BY <1>3, <1>c, <1>d, <1>f, <2>1 DEF CloseSocket, AfterSession, FinishReader
<1>4. CASE SessionEnds
  BY <1>c, <1>4 DEF SessionEnds
<1>5. CASE FrameUndecodable \/ FrameSkipped \/ FrameTimeSync \/ FrameMessage
  BY <1>c, <1>5 DEF FrameUndecodable, FrameSkipped, FrameTimeSync, FrameMessage,
     Receive
<1>6. CASE LtsContinue \/ LtsRaise
  BY <1>c, <1>6 DEF LtsContinue, LtsRaise, Receive
<1>7. CASE LtsTerminate
  <2>1. life' = life /\ reader # "none" /\ life \in 1..MaxLives
    BY <1>0, <1>7 DEF LtsTerminate, Receive
  <2>2. log'[life]["messages"] = Append(log[life]["messages"], EXHAUSTED)
    BY <1>0, <1>7, <2>1 DEF LtsTerminate, LogType, Streams
  <2>3. QED
    BY <1>d, <2>1, <2>2
<1>8. CASE Time
  BY <1>c, <1>8 DEF Time, GoIdle, GrowOld, RunLong
<1>9. CASE Watchdog
  BY <1>c, <1>9 DEF Watchdog, WatchdogFires, WatchdogSeesClosed,
     WatchdogCancelled, CancelReader
<1>10. CASE CloseGotReader
  BY <1>c, <1>10 DEF CloseGotReader
<1>11. CASE CloseFinishes
  <2>1. life' = life /\ life \in 1..MaxLives
    BY <1>0, <1>11 DEF CloseFinishes, TaskInv
  <2>2. log'[life]["messages"] = Append(log[life]["messages"], END)
    BY <1>0, <1>11, <2>1 DEF CloseFinishes, LogType, Streams
  <2>3. QED
    BY <1>a, <1>b, <2>1, <2>2 DEF EndInv
<1>12. CASE Connect
  BY <1>e, <1>12 DEF Connect
<1>13. CASE Close
  BY <1>c, <1>13 DEF Close, CancelReader
<1>14. ASSUME NEW c \in Consumers, Iterate(c) PROVE EndInv'
  BY <1>c, <1>e, <1>14 DEF Iterate
<1>15. ASSUME NEW c \in Consumers, Abandon(c) \/ Consume(c) PROVE EndInv'
  <2>1. UNCHANGED <<lifeVars, readerVars, cancelVars>>
    BY <1>15 DEF Abandon, Consume, Resume, TakeData, TakeSentinel, TakeItem
  <2>2. QED
    BY <1>c, <2>1
<1>16. CASE UNCHANGED vars
  BY <1>c, <1>16 DEF vars
<1>17. QED
  BY <1>1, <1>2, <1>3, <1>4, <1>5, <1>6, <1>7, <1>8, <1>9, <1>10, <1>11, <1>12,
     <1>13, <1>14, <1>15, <1>16
  DEF Next, Reader, Server, Frame, Closing, User

LEMMA ConsumerStep ==
  ASSUME TypeOK, ConsumerInv, TaskInv, [Next]_vars
  PROVE  ConsumerInv'
<1>0. /\ life \in Nat
      /\ \A c \in Consumers : bound[c] \in Nat
      /\ consumer \in [Consumers -> {"idle", "getting", "holding", "ended", "raised"}]
      /\ bound \in [Consumers -> 0..MaxLives]
  BY ConstantsAssumption DEF TypeOK
<1>a. ASSUME life' \in {life, life + 1}, UNCHANGED <<consumer, bound>>
      PROVE  ConsumerInv'
  BY <1>0, <1>a DEF ConsumerInv
<1>1. CASE Reader
  BY <1>a, <1>1 DEF Reader, StartSession, OpenSocket, ConnectFails, CloseSocket,
     ReachSuspension, DeliverCancel
<1>2. CASE Server
  BY <1>a, <1>2 DEF Server, SessionEnds, Frame, FrameUndecodable, FrameSkipped,
     FrameTimeSync, FrameMessage, LtsContinue, LtsRaise, LtsTerminate, Receive
<1>3. CASE Time \/ Watchdog \/ Closing
  BY <1>a, <1>3 DEF Time, GoIdle, GrowOld, RunLong, Watchdog, WatchdogFires,
     WatchdogSeesClosed, WatchdogCancelled, Closing, CloseGotReader, CloseFinishes
<1>4. CASE Connect \/ Close
  BY <1>a, <1>4 DEF Connect, Close, Start
<1>5. ASSUME NEW c \in Consumers, Iterate(c) PROVE ConsumerInv'
  <2>1. life' > 0 /\ life' \in Nat /\ life <= life'
    BY <1>0, <1>5 DEF Iterate, Start, TaskInv
  <2>2. /\ consumer' = [consumer EXCEPT ![c] = "getting"]
        /\ bound' = [bound EXCEPT ![c] = life']
    BY <1>5 DEF Iterate
  <2>3. QED
    BY <1>0, <2>1, <2>2 DEF ConsumerInv
<1>6. ASSUME NEW c \in Consumers, Resume(c) PROVE ConsumerInv'
  <2>1. /\ life' = life
        /\ consumer[c] = "holding"
        /\ consumer' = [consumer EXCEPT ![c] = "getting"]
        /\ bound' = [bound EXCEPT ![c] = life]
    BY <1>6 DEF Resume
  <2>2. life > 0
    BY <1>0, <2>1 DEF ConsumerInv
  <2>3. QED
    BY <1>0, <2>1, <2>2 DEF ConsumerInv
<1>7. ASSUME NEW c \in Consumers, Abandon(c) \/ TakeData(c) \/ TakeSentinel(c)
      PROVE  ConsumerInv'
  <2>1. /\ life' = life /\ bound' = bound
        /\ consumer[c] # "idle"
        /\ \E v : consumer' = [consumer EXCEPT ![c] = v]
    BY <1>7 DEF Abandon, TakeData, TakeSentinel, TakeItem, Waiting
  <2>2. QED
    BY <1>0, <2>1 DEF ConsumerInv
<1>8. CASE UNCHANGED vars
  BY <1>a, <1>8 DEF vars
<1>9. QED
  BY <1>1, <1>2, <1>3, <1>4, <1>5, <1>6, <1>7, <1>8 DEF Next, User, Consume

LEMMA ReportStep ==
  ASSUME TypeOK, TaskInv, ErrorIsReported, [Next]_vars
  PROVE  ErrorIsReported'
<1>0. /\ log \in LogType /\ Grows(log, log')
      /\ "lts" \in Streams
      /\ life \in 0..MaxLives
      /\ caught \in [Consumers -> Exceptions]
  BY StepGrows DEF TypeOK, Streams
<1> DEFINE Later(l, kind) ==
             \E i \in 1..Len(log'[l]["lts"]) : log'[l]["lts"][i].kind = kind
           Known(exc) ==
             exc # NoExc => exc.life \in 1..MaxLives /\ Later(exc.life, exc.cause)
<1>a. \A exc : Reported(exc) => Known(exc)
  <2>1. ASSUME NEW l \in 1..MaxLives, NEW kind, Holds(l, "lts", kind)
        PROVE  Later(l, kind)
    BY <1>0, <2>1, HoldsStays DEF Holds
  <2>2. QED
    BY <2>1 DEF Reported
<1>b. ASSUME Known(pendingExc'), \A c \in Consumers : Known(caught'[c])
      PROVE  ErrorIsReported'
  BY <1>b DEF ErrorIsReported, Reported, Holds
<1>c. ASSUME UNCHANGED <<pendingExc, caught>> PROVE ErrorIsReported'
  BY <1>a, <1>b, <1>c DEF ErrorIsReported
<1>1. CASE Reader
  BY <1>c, <1>1 DEF Reader, StartSession, OpenSocket, ConnectFails, CloseSocket,
     ReachSuspension, DeliverCancel
<1>2. CASE SessionEnds \/ Time \/ Watchdog \/ Closing
  BY <1>c, <1>2 DEF SessionEnds, Time, GoIdle, GrowOld, RunLong, Watchdog,
     WatchdogFires, WatchdogSeesClosed, WatchdogCancelled, Closing,
     CloseGotReader, CloseFinishes
<1>3. CASE FrameUndecodable \/ FrameSkipped \/ FrameTimeSync \/ FrameMessage
           \/ LtsContinue \/ LtsTerminate
  BY <1>c, <1>3 DEF FrameUndecodable, FrameSkipped, FrameTimeSync, FrameMessage,
     LtsContinue, LtsTerminate, Receive
<1>4. CASE LtsRaise
  <2>1. /\ life \in 1..MaxLives
        /\ frames' = frames + 1
        /\ log' = Put("lts", LtsEvent)
        /\ pendingExc' = [reason |-> "unknown_event", cause |-> Classify, life |-> life]
        /\ caught' = caught
    BY <1>0, <1>4 DEF LtsRaise, Receive, TaskInv
  <2>2. LtsEvent \in Items /\ LtsEvent.kind = Classify
    BY <2>1, LtsEventType
  <2>3. log'[life]["lts"] = Append(log[life]["lts"], LtsEvent)
    BY <1>0, <2>1, <2>2, PutGrows
  <2>4. ASSUME NEW l \in 1..MaxLives,
               log'[l]["lts"] = Append(log[l]["lts"], LtsEvent)
        PROVE  Later(l, LtsEvent.kind)
    BY SMTT(30), <1>0, <2>2, <2>4, HoldsNew DEF Holds
  <2>5. Later(life, Classify)
    BY <2>1, <2>2, <2>3, <2>4
  <2>6. Known(pendingExc')
    BY <2>1, <2>5
  <2>7. \A c \in Consumers : Known(caught'[c])
    BY <1>a, <2>1 DEF ErrorIsReported
  <2>8. QED
    BY <1>b, <2>6, <2>7
<1>5. CASE Connect \/ Close
  BY <1>c, <1>5 DEF Connect, Close
<1>6. ASSUME NEW c \in Consumers,
             Iterate(c) \/ Abandon(c) \/ Resume(c) \/ TakeData(c)
      PROVE  ErrorIsReported'
  BY <1>c, <1>6 DEF Iterate, Abandon, Resume, TakeData
<1>7. ASSUME NEW c \in Consumers, TakeSentinel(c) PROVE ErrorIsReported'
  <2>1. CASE UNCHANGED <<pendingExc, caught>>
    BY <1>c, <2>1
  <2>2. CASE /\ caught' = [caught EXCEPT ![c] = pendingExc]
             /\ pendingExc' = NoExc
    <3>1. Known(pendingExc) /\ \A d \in Consumers : Known(caught[d])
      BY <1>a DEF ErrorIsReported
    <3>2. Known(pendingExc') /\ \A d \in Consumers : Known(caught'[d])
      BY <1>0, <2>2, <3>1
    <3>3. QED
      BY <1>b, <3>2
  <2>3. QED
    BY <1>7, <2>1, <2>2 DEF TakeSentinel
<1>8. CASE UNCHANGED vars
  BY <1>c, <1>8 DEF vars
<1>9. QED
  BY <1>1, <1>2, <1>3, <1>4, <1>5, <1>6, <1>7, <1>8
  DEF Next, Server, Frame, User, Consume

-----------------------------------------------------------------------------
(* The invariant, and the properties that follow from it. *)

LEMMA Initially == Init => IInv
<1> SUFFICES ASSUME Init PROVE IInv
  OBVIOUS
<1> USE ConstantsAssumption DEF Init
<1>1. log \in LogType /\ taken \in CountType
  BY DEF LogType, CountType
<1>2. NoExc \in Exceptions /\ FreshSession \in Sessions /\ 0 \in 0..AttemptBound
  BY DEF NoExc, Exceptions, FreshSession, Sessions, AttemptBound
<1>3. TypeOK
  <2>1. /\ consumer \in [Consumers -> {"idle", "getting", "holding", "ended", "raised"}]
        /\ bound \in [Consumers -> 0..MaxLives]
        /\ caught \in [Consumers -> Exceptions]
        /\ life \in 0..MaxLives
        /\ frames \in 0..MaxFrames
    BY <1>2
  <2>2. /\ session \in Sessions
        /\ pendingExc \in Exceptions
        /\ attempt \in 0..AttemptBound
        /\ cancelledBy \subseteq {"terminate", "watchdog", "close"}
    BY <1>2
  <2>3. QED
    BY <1>1, <2>1, <2>2 DEF TypeOK
<1>4. TaskInv /\ CancelInv /\ ClosedInv
  BY DEF TaskInv, CancelInv, ClosedInv, ReaderAlive
<1>5. EndInv /\ ConsumerInv
  BY DEF EndInv, ConsumerInv
<1>6. ErrorIsReported
  BY DEF ErrorIsReported, Reported
<1>7. QED
  BY <1>3, <1>4, <1>5, <1>6 DEF IInv

LEMMA Inductive == IInv /\ [Next]_vars => IInv'
BY TypeStep, ControlStep, ClosedStep, EndStep, ConsumerStep, ReportStep DEF IInv

(* The invariant holds of every reachable state: types, tasks, pending     *)
(* cancellations, closed transports and ended streams fit together.        *)
THEOREM Invariant == Spec => []IInv
BY Initially, Inductive, PTL DEF Spec

(* Every variable keeps its type, and the attempt counter its bound.       *)
THEOREM TypeCorrect == Spec => []TypeOK
<1>1. IInv => TypeOK
  BY DEF IInv
<1>2. QED
  BY <1>1, Invariant, PTL

(* A consumer blocked on messages() has a reader, a close(), a sentinel,   *)
(* or one of the two named defects to thank for it.                        *)
THEOREM ReceiverNotForgotten == Spec => []NoForgottenReceiver
<1>1. IInv => NoForgottenReceiver
  <2>1. SUFFICES ASSUME IInv, NEW c \in Consumers,
                        consumer[c] = "getting", ~MessagesEnded(bound[c])
                 PROVE  /\ bound[c] = life
                        /\ \/ ReaderAlive
                           \/ closer # "none"
                           \/ "watchdog" \in cancelledBy
                           \/ outcome = "overflow"
    BY DEF NoForgottenReceiver
  <2>a. TypeOK /\ TaskInv /\ CancelInv /\ ClosedInv /\ EndInv /\ ConsumerInv
    BY <2>1 DEF IInv
  <2>b. cancelledBy \subseteq {"terminate", "watchdog", "close"}
    BY <2>a DEF TypeOK
  <2>c. bound[c] \in 0..MaxLives /\ life \in Nat
    <3>1. bound \in [Consumers -> 0..MaxLives] /\ life \in 0..MaxLives
      BY <2>a DEF TypeOK
    <3>2. QED
      BY <3>1, ConstantsAssumption
  <2>2. bound[c] \in 1..MaxLives /\ bound[c] <= life /\ life \in Nat
    BY <2>1, <2>a, <2>c, ConstantsAssumption DEF ConsumerInv
  <2>3. bound[c] = life
    BY <2>1, <2>2, <2>a DEF EndInv
  <2>4. "terminate" \notin cancelledBy /\ connected
        /\ ~(reader = "done" /\ outcome \in {"lts_error", "exhausted"})
    BY <2>1, <2>2, <2>3, <2>a DEF EndInv
  <2>5. reader = "done" => outcome \in {"cancelled", "overflow"}
    BY <2>4, <2>a DEF TaskInv
  <2>6. CASE reader = "done" /\ outcome = "cancelled"
    <3>1. cancelledBy # {}
      BY <2>6, <2>a DEF CancelInv
    <3>2. "close" \in cancelledBy => closer # "none"
      BY <2>4, <2>6, <2>a DEF CancelInv, ClosedInv
    <3>3. QED
      BY <2>3, <2>4, <2>b, <3>1, <3>2
  <2>7. CASE ~(reader = "done" /\ outcome = "cancelled")
    BY <2>2, <2>3, <2>5, <2>7, <2>a DEF TaskInv, ReaderAlive
  <2>8. QED
    BY <2>3, <2>6, <2>7
<1>2. QED
  BY <1>1, Invariant, PTL

(* The event of an LTS_NOT_FOUND precedes the error it is raised as.       *)
THEOREM ErrorsAreReported == Spec => []ErrorIsReported
<1>1. IInv => ErrorIsReported
  BY DEF IInv
<1>2. QED
  BY <1>1, Invariant, PTL

(* A close() that has returned leaves no task and no open stream.          *)
THEOREM NothingLeftByClose == Spec => []CloseLeavesNothing
<1>1. IInv => CloseLeavesNothing
  BY DEF IInv, CloseLeavesNothing, ClosedInv, TypeOK
<1>2. QED
  BY <1>1, Invariant, PTL

(* No session is opened by a reader that was cancelled.                    *)
THEOREM NoReconnectAfterCancel == Spec => CancelledNeverReconnects
<1>1. IInv /\ [Next]_vars =>
        [ (reader # "connecting" /\ reader' = "connecting" /\ life' = life)
          => cancelledBy = {} ]_vars
  <2>1. SUFFICES ASSUME IInv, Next, reader # "connecting",
                        reader' = "connecting", life' = life
                 PROVE  cancelledBy = {}
    OBVIOUS
  <2>2. CASE StartSession
    BY <2>1, <2>2 DEF StartSession, IInv, CancelInv, ReaderAlive
  <2>3. CASE ~StartSession
    <3>1. CASE Reader
      BY <2>1, <2>3, <3>1 DEF Reader, OpenSocket, ConnectFails, CloseSocket,
         AfterSession, FinishReader, ReachSuspension, DeliverCancel
    <3>2. CASE Server
      BY <2>1, <3>2 DEF Server, SessionEnds, Frame, FrameUndecodable,
         FrameSkipped, FrameTimeSync, FrameMessage, LtsContinue, LtsRaise,
         LtsTerminate, Receive
    <3>3. CASE Time \/ Watchdog \/ Closing
      BY <2>1, <3>3 DEF Time, GoIdle, GrowOld, RunLong, Watchdog, WatchdogFires,
         WatchdogSeesClosed, WatchdogCancelled, Closing, CloseGotReader,
         CloseFinishes
    <3>4. CASE User
      <4>1. life \in 0..MaxLives
        BY <2>1 DEF IInv, TypeOK
      <4>2. ~Start
        BY <2>1, <4>1, ConstantsAssumption DEF Start
      <4>3. QED
        BY <2>1, <3>4, <4>2 DEF User, Connect, Close, Iterate, Abandon
    <3>5. CASE \E c \in Consumers : Consume(c)
      BY <2>1, <3>5 DEF Consume, Resume, TakeData, TakeSentinel, TakeItem
    <3>6. QED
      BY <2>1, <3>1, <3>2, <3>3, <3>4, <3>5 DEF Next
  <2>4. QED
    BY <2>2, <2>3
<1>2. QED
  BY <1>1, Invariant, PTL DEF Spec, CancelledNeverReconnects

-----------------------------------------------------------------------------
(* LiveTransport implements MessageStream: every step of its tasks opens,  *)
(* extends, ends or takes from its streams as MessageStream allows, or     *)
(* leaves them as they are. First, put() as the concatenation that         *)
(* MessageStream writes.                                                   *)

(* One item on one stream, nothing on the others. *)
Only(s, item) == [r \in Streams |-> IF r = s THEN <<item>> ELSE <<>>]

(* The log, with every stream of the current life extended.                *)
ExtendedBy(new) ==
  [log EXCEPT ![life] = [s \in Streams |-> log[life][s] \o new[s]]]

LEMMA Concatenation ==
  ASSUME log \in LogType, life \in 1..MaxLives, NEW s \in Streams
  PROVE  /\ log[life][s] \o <<>> = log[life][s]
         /\ \A item \in Items : log[life][s] \o <<item>> = Append(log[life][s], item)
<1>1. log[life][s] \in Seq(Items)
  BY DEF LogType
<1>2. QED
  BY <1>1, ConcatEmptySeq, AppendIsConcat

LEMMA PutExtends ==
  ASSUME log \in LogType, life \in 1..MaxLives,
         NEW s \in Streams, NEW item \in Items
  PROVE  Put(s, item) = ExtendedBy(Only(s, item))
<1>1. \A r \in Streams :
        log[life][r] \o Only(s, item)[r] =
          IF r = s THEN Append(log[life][r], item) ELSE log[life][r]
  BY Concatenation DEF Only
<1>2. Put(s, item)[life] =
        [r \in Streams |-> log[life][r] \o Only(s, item)[r]]
  BY <1>1 DEF Put, LogType
<1>3. QED
  BY <1>2 DEF Put, ExtendedBy, LogType

-----------------------------------------------------------------------------
(* The steps that add to the streams. *)

Numbered == Stream!Numbered(frames')

(* A frame that puts at most one item on each stream.                      *)
LEMMA ReceiveExtends ==
  ASSUME connected, UNCHANGED <<connected, life, taken>>,
         frames' = frames + 1,
         NEW new \in [Streams -> {<<>>, <<EXHAUSTED>>}
                                 \cup {<<item>> : item \in Numbered}],
         log' = ExtendedBy(new)
  PROVE  Stream!Receive
BY DEF Stream!Receive, Stream!Extend, ExtendedBy, Numbered

LEMMA ReceiveOne ==
  ASSUME TypeOK, life \in 1..MaxLives,
         connected, UNCHANGED <<connected, life, taken>>,
         frames' = frames + 1,
         NEW s \in Streams, NEW item \in Items, item \in Numbered,
         log' = Put(s, item)
  PROVE  Stream!Receive
<1>1. log' = ExtendedBy(Only(s, item))
  BY PutExtends DEF TypeOK
<1>2. Only(s, item) \in [Streams -> {<<>>, <<EXHAUSTED>>}
                                    \cup {<<i>> : i \in Numbered}]
  BY DEF Only
<1>3. QED
  BY <1>1, <1>2, ReceiveExtends

(* A frame that is counted and leaves no item.                             *)
LEMMA ReceiveNone ==
  ASSUME TypeOK, life \in 1..MaxLives,
         connected, UNCHANGED <<connected, life, taken, log>>,
         frames' = frames + 1
  PROVE  Stream!Receive
<1> DEFINE none == [s \in Streams |-> <<>>]
<1>1. none \in [Streams -> {<<>>, <<EXHAUSTED>>} \cup {<<i>> : i \in Numbered}]
  OBVIOUS
<1>2. log \in LogType
  BY DEF TypeOK
<1>3. \A s \in Streams : log[life][s] \o none[s] = log[life][s]
  BY <1>2, Concatenation
<1>4. [s \in Streams |-> log[life][s] \o none[s]] = log[life]
  BY <1>2, <1>3 DEF LogType
<1>5. log' = ExtendedBy(none)
  BY <1>2, <1>4 DEF ExtendedBy, LogType
<1>6. QED
  BY <1>1, <1>5, ReceiveExtends

(* The reader gives up: messages() is told, the other streams are not.     *)
LEMMA GivingUpExhausts ==
  ASSUME TypeOK, life \in 1..MaxLives, connected,
         UNCHANGED <<connected, life, taken, frames>>,
         log' = Put("messages", EXHAUSTED)
  PROVE  Stream!Exhaust
<1>1. log' = ExtendedBy(Only("messages", EXHAUSTED))
  BY PutExtends, ItemTypes DEF TypeOK, Streams
<1>2. QED
  BY <1>1 DEF Stream!Exhaust, Stream!Extend, ExtendedBy, Only

-----------------------------------------------------------------------------
(* Every step of the transport is one of the stream, or none of its        *)
(* business.                                                               *)

Unseen == UNCHANGED <<connected, life, frames, log, taken>>

LEMMA FrameRefines ==
  ASSUME TypeOK, life \in 1..MaxLives, connected, Frame
  PROVE  Stream!Receive
<1>0. /\ UNCHANGED <<connected, life, taken>>
      /\ frames' = frames + 1
      /\ frames' \in Nat
  <2>1. frames \in Nat
    BY ConstantsAssumption DEF TypeOK
  <2>2. \E kind, observed : Receive(kind, observed)
    BY DEF Frame, FrameUndecodable, FrameSkipped, FrameTimeSync, FrameMessage,
       LtsContinue, LtsRaise, LtsTerminate
  <2>3. connected' = connected /\ life' = life
    BY <2>2 DEF Receive
  <2>4. taken' = taken /\ frames' = frames + 1
    BY <2>2 DEF Receive
  <2>5. QED
    BY <2>1, <2>3, <2>4
<1>1. \A kind \in {"message", "time"} \cup Reasons :
        /\ [kind |-> kind, frame |-> frames'] \in Items
        /\ [kind |-> kind, frame |-> frames'] \in Numbered
  BY <1>0, ItemTypes DEF Numbered, Stream!Numbered
<1>2. LtsEvent \in Items /\ LtsEvent \in Numbered
  BY <1>1 DEF LtsEvent, Classify, Reasons
<1>3. {"messages", "time_sync", "lts"} \subseteq Streams
  BY DEF Streams
<1>4. CASE FrameUndecodable \/ FrameSkipped
  BY <1>0, <1>4, ReceiveNone DEF FrameUndecodable, FrameSkipped
<1>5. CASE FrameTimeSync \/ FrameMessage
  BY <1>0, <1>1, <1>3, <1>5, ReceiveOne DEF FrameTimeSync, FrameMessage
<1>6. CASE LtsContinue \/ LtsRaise
  BY <1>0, <1>2, <1>3, <1>6, ReceiveOne DEF LtsContinue, LtsRaise
<1>7. CASE LtsTerminate
  <2> DEFINE both == [s \in Streams |-> IF s = "lts" THEN <<LtsEvent>>
                                        ELSE IF s = "messages" THEN <<EXHAUSTED>>
                                        ELSE <<>>]
  <2>1. log \in LogType
    BY DEF TypeOK
  <2>2. \A s \in Streams :
          log[life][s] \o both[s] =
            IF s = "lts" THEN Append(log[life][s], LtsEvent)
            ELSE IF s = "messages" THEN Append(log[life][s], EXHAUSTED)
            ELSE log[life][s]
    BY <1>2, <2>1, Concatenation, ItemTypes
  <2>3. log' = [log EXCEPT ![life]["lts"] = Append(@, LtsEvent),
                           ![life]["messages"] = Append(@, EXHAUSTED)]
    BY <1>7 DEF LtsTerminate
  <2>4. log'[life] = [s \in Streams |-> log[life][s] \o both[s]]
    BY <2>1, <2>2, <2>3, <1>3 DEF LogType
  <2>5. log' = ExtendedBy(both)
    BY <2>1, <2>3, <2>4 DEF ExtendedBy, LogType
  <2>6. both \in [Streams -> {<<>>, <<EXHAUSTED>>} \cup {<<i>> : i \in Numbered}]
    BY <1>2
  <2>7. QED
    BY <1>0, <2>5, <2>6, ReceiveExtends
<1>8. QED
  BY <1>4, <1>5, <1>6, <1>7 DEF Frame

LEMMA ReaderRefines ==
  ASSUME TypeOK, life \in 1..MaxLives, connected, Reader
  PROVE  Stream!Exhaust \/ Unseen
<1>1. CASE StartSession \/ OpenSocket \/ ReachSuspension \/ DeliverCancel
  BY <1>1 DEF StartSession, OpenSocket, ReachSuspension, DeliverCancel, Unseen
<1>2. CASE ConnectFails \/ CloseSocket
  <2>1. UNCHANGED <<connected, life, taken, frames>>
    BY <1>2 DEF ConnectFails, CloseSocket
  <2>2. log' = log \/ log' = Put("messages", EXHAUSTED)
    BY <1>2 DEF ConnectFails, CloseSocket, AfterSession
  <2>3. QED
    BY <2>1, <2>2, GivingUpExhausts DEF Unseen
<1>3. QED
  BY <1>1, <1>2 DEF Reader

(* connect(), and an iterator that finds the transport not connected.      *)
LEMMA StartOpens ==
  ASSUME TypeOK, Start, ~connected, UNCHANGED <<frames, log, taken>>
  PROVE  Stream!Open
<1>1. life \in Nat /\ life < MaxLives /\ MaxLives \in Nat
  BY ConstantsAssumption DEF TypeOK, Start
<1>2. life' \in 1..MaxLives
  BY <1>1 DEF Start
<1>3. QED
  BY <1>2 DEF Start, Stream!Open

LEMMA TakeRefines ==
  ASSUME TypeOK, ConsumerInv, NEW c \in Consumers, TakeItem(c)
  PROVE  Stream!Take(bound[c], StreamOf[c])
         /\ bound[c] \in 1..MaxLives /\ StreamOf[c] \in Streams
<1>1. bound[c] \in 1..MaxLives
  BY DEF TypeOK, ConsumerInv, TakeItem, Waiting
<1>2. StreamOf[c] \in Streams
  BY ConstantsAssumption
<1>3. /\ taken[bound[c]][StreamOf[c]] \in Nat
      /\ Len(log[bound[c]][StreamOf[c]]) \in Nat
  BY <1>1, <1>2, LenProperties DEF TypeOK, LogType, CountType
<1>4. taken[bound[c]][StreamOf[c]] < Len(log[bound[c]][StreamOf[c]])
  BY <1>3 DEF TakeItem, Unread
<1>5. /\ taken' = [taken EXCEPT ![bound[c]][StreamOf[c]] = @ + 1]
      /\ UNCHANGED <<connected, life, frames, log>>
  BY DEF TakeItem
<1>6. QED
  BY <1>1, <1>2, <1>4, <1>5 DEF Stream!Take

LEMMA StepRefines ==
  ASSUME IInv, [Next]_vars
  PROVE  [Stream!Next]_(Stream!vars)
<1>a. /\ TypeOK /\ TaskInv /\ CancelInv /\ ClosedInv /\ ConsumerInv
      /\ life \in 0..MaxLives /\ connected \in BOOLEAN
  BY DEF IInv, TypeOK
<1>b. ReaderAlive => connected /\ life \in 1..MaxLives
  BY <1>a, ConstantsAssumption DEF TaskInv, ClosedInv, ReaderAlive
<1>c. Unseen => UNCHANGED Stream!vars
  BY DEF Unseen, Stream!vars
<1> USE DEF Stream!Next
<1>1. CASE Reader
  <2>1. ReaderAlive
    BY <1>1, <1>a
    DEF Reader, StartSession, OpenSocket, ConnectFails, CloseSocket,
        ReachSuspension, DeliverCancel, CancelInv, ReaderAlive
  <2>2. QED
    BY <1>1, <1>a, <1>b, <1>c, <2>1, ReaderRefines
<1>2. CASE Frame
  <2>1. ReaderAlive
    BY <1>2 DEF Frame, FrameUndecodable, FrameSkipped, FrameTimeSync,
       FrameMessage, LtsContinue, LtsRaise, LtsTerminate, Receive, ReaderAlive
  <2>2. QED
    BY <1>2, <1>a, <1>b, <2>1, FrameRefines
<1>3. CASE SessionEnds \/ Time \/ Watchdog \/ CloseGotReader \/ Close
  BY <1>3, <1>c
  DEF SessionEnds, Time, GoIdle, GrowOld, RunLong, Watchdog, WatchdogFires,
      WatchdogSeesClosed, WatchdogCancelled, CloseGotReader, Close, Unseen
<1>4. CASE CloseFinishes
  BY <1>4, <1>a DEF CloseFinishes, TaskInv, Stream!Close
<1>5. CASE Connect
  BY <1>5, <1>a, StartOpens DEF Connect
<1>6. ASSUME NEW c \in Consumers, Iterate(c)
      PROVE  [Stream!Next]_(Stream!vars)
  <2>1. UNCHANGED <<frames, log, taken>>
    BY <1>6 DEF Iterate
  <2>2. CASE connected
    BY <1>6, <1>c, <2>1, <2>2 DEF Iterate, Unseen
  <2>3. CASE ~connected
    BY <1>6, <1>a, <2>1, <2>3, StartOpens DEF Iterate
  <2>4. QED
    BY <2>2, <2>3
<1>7. ASSUME NEW c \in Consumers, Abandon(c) \/ Resume(c)
      PROVE  [Stream!Next]_(Stream!vars)
  BY <1>7, <1>c DEF Abandon, Resume, Unseen
<1>8. ASSUME NEW c \in Consumers, TakeData(c) \/ TakeSentinel(c)
      PROVE  [Stream!Next]_(Stream!vars)
  <2>1. TakeItem(c)
    BY <1>8 DEF TakeData, TakeSentinel
  <2>2. QED
    BY <1>a, <2>1, TakeRefines
<1>9. CASE UNCHANGED vars
  BY <1>9, <1>c DEF vars, Unseen
<1>10. QED
  BY <1>1, <1>2, <1>3, <1>4, <1>5, <1>6, <1>7, <1>8, <1>9
  DEF Next, Server, Closing, User, Consume

(* The live transport implements the abstract message stream: a life is    *)
(* open from connect() to the last step of close(), each frame adds at     *)
(* most one item to each stream, nothing follows END, and every item is    *)
(* taken once and in order, whatever the tasks interleave.                 *)
THEOREM TransportImplementsStream == Spec => ImplementsStream
<1>1. Init => Stream!Init
  BY DEF Init, Stream!Init
<1>2. IInv /\ [Next]_vars => [Stream!Next]_(Stream!vars)
  BY StepRefines
<1>3. QED
  BY <1>1, <1>2, Invariant, PTL DEF Spec, ImplementsStream, Stream!Spec

-----------------------------------------------------------------------------
(* The transport gives up after exactly max_attempts + 1 sessions lost in  *)
(* a row.                                                                  *)

(* The reader's counter never passes the limit, when there is one.         *)
LEMMA AttemptLimit ==
  ASSUME TypeOK
  PROVE  /\ attempt \in Nat /\ life \in Nat
         /\ Limited => attempt <= MaxAttempts
BY ConstantsAssumption DEF TypeOK, AttemptBound

(* A step that leaves the reader where it is, or finishes or resumes it    *)
(* without having lost a session.                                          *)
LEMMA NothingLost ==
  ASSUME LostInv, lost' = lost, attempt' = attempt,
         ReaderAlive' => ReaderAlive,
         outcome' = "exhausted" => outcome = "exhausted" /\ reader' = "done",
         reader' = "backoff" => reader = "backoff"
  PROVE  LostInv'
BY DEF LostInv, GivesUpExactly

(* What the loop does after a lost session fits the sessions counted.      *)
LEMMA LossCounted ==
  ASSUME TypeOK, LostInv, ReaderAlive, AfterSession,
         lost' = IF longRun THEN 1 ELSE lost + 1
  PROVE  LostInv'
<1>1. lost = attempt
  BY DEF LostInv
<1>2. AttemptNow \in Nat /\ lost' = AttemptNow + 1
  BY <1>1, AttemptLimit DEF AttemptNow
<1>3. Limited => AttemptNow <= MaxAttempts
  BY AttemptLimit, ConstantsAssumption DEF AttemptNow
<1>4. CASE Exhausted /\ reader' = "done" /\ outcome' = "exhausted"
  <2>1. lost' = MaxAttempts + 1
    BY <1>2, <1>3, <1>4, ConstantsAssumption DEF Exhausted
  <2>2. QED
    BY <1>4, <2>1 DEF LostInv, GivesUpExactly, ReaderAlive
<1>5. CASE reader' = "done" /\ outcome' = "overflow"
  BY <1>5 DEF LostInv, GivesUpExactly, ReaderAlive
<1>6. CASE /\ ~Exhausted /\ reader' = "backoff"
           /\ attempt' = AttemptNow + 1 /\ outcome' = "none"
  <2>1. Limited => lost' <= MaxAttempts
    BY <1>2, <1>6, ConstantsAssumption DEF Exhausted
  <2>2. QED
    BY <1>2, <1>6, <2>1 DEF LostInv, GivesUpExactly, ReaderAlive
<1>7. QED
  BY <1>4, <1>5, <1>6 DEF AfterSession, FinishReader

(* connect() counts from the beginning.                                    *)
LEMMA StartCounts ==
  ASSUME TypeOK, Start, lost' = IF Started THEN 0 ELSE lost
  PROVE  LostInv'
<1>1. life' # life
  BY AttemptLimit DEF Start
<1>2. lost' = 0
  BY <1>1 DEF Started
<1>3. QED
  BY <1>2 DEF Start, LostInv, GivesUpExactly, ReaderAlive

LEMMA LostStep ==
  ASSUME IInv, LostInv, [HistoryNext]_historyVars
  PROVE  LostInv'
<1>a. TypeOK /\ TaskInv /\ CancelInv
  BY DEF IInv
<1>1. CASE UNCHANGED historyVars
  BY <1>1 DEF historyVars, vars, LostInv, GivesUpExactly, ReaderAlive
<1>2. CASE HistoryNext
  <2>0. lost' = IF Started THEN 0
                ELSE IF ~SessionIsLost THEN lost
                ELSE IF longRun THEN 1 ELSE lost + 1
    BY <1>2 DEF HistoryNext
  <2>1. CASE StartSession \/ OpenSocket \/ ReachSuspension
    <3>1. lost' = lost
      BY <2>0, <2>1 DEF StartSession, OpenSocket, ReachSuspension, Started,
         SessionIsLost
    <3>2. QED
      BY <2>1, <3>1, NothingLost
      DEF StartSession, OpenSocket, ReachSuspension, ReaderAlive, LostInv
  <2>2. CASE ConnectFails
    <3>1. SessionIsLost /\ ~Started /\ ReaderAlive
      BY <2>2 DEF ConnectFails, SessionIsLost, Started, AfterSession,
         FinishReader, ReaderAlive
    <3>2. QED
      BY <1>a, <2>0, <2>2, <3>1, LossCounted DEF ConnectFails
  <2>3. CASE CloseSocket
    <3>1. ~Started /\ ReaderAlive /\ reader = "exiting" /\ cancel # "sent"
      BY <2>3 DEF CloseSocket, Started, ReaderAlive
    <3>2. CASE outcome \in {"returned", "failed"}
      <4>1. AfterSession
        BY <2>3, <3>2 DEF CloseSocket
      <4>2. SessionIsLost
        BY <3>1, <3>2, <4>1 DEF SessionIsLost, AfterSession, FinishReader
      <4>3. QED
        BY <1>a, <2>0, <3>1, <4>1, <4>2, LossCounted
    <3>3. CASE outcome \notin {"returned", "failed"}
      <4>1. ~SessionIsLost
        BY <3>1, <3>3 DEF SessionIsLost
      <4>2. lost' = lost
        BY <2>0, <3>1, <4>1
      <4>3. attempt' = attempt /\ reader' = "done" /\ outcome' # "exhausted"
        BY <2>3, <3>3 DEF CloseSocket, FinishReader
      <4>4. QED
        BY <4>2, <4>3, NothingLost DEF ReaderAlive
    <3>4. QED
      BY <3>2, <3>3
  <2>4. CASE DeliverCancel
    <3>1. lost' = lost
      BY <2>0, <2>4 DEF DeliverCancel, Started, SessionIsLost
    <3>2. /\ attempt' = attempt /\ outcome' = "cancelled"
          /\ reader' \in {"exiting", "done"} /\ ReaderAlive
      BY <1>a, <2>4 DEF DeliverCancel, FinishReader, CancelInv
    <3>3. QED
      BY <3>1, <3>2, NothingLost
  <2>5. CASE Server
    <3>1. /\ ~Started /\ reader = "frames" /\ reader' \in {"frames", "exiting"}
          /\ attempt' = attempt
          /\ outcome' \in {outcome, "returned", "failed", "lts_error"}
      BY <2>5 DEF Server, SessionEnds, Frame, FrameUndecodable, FrameSkipped,
         FrameTimeSync, FrameMessage, LtsContinue, LtsRaise, LtsTerminate,
         Receive, Started
    <3>2. lost' = lost
      BY <2>0, <3>1 DEF SessionIsLost
    <3>3. QED
      BY <3>1, <3>2, NothingLost DEF ReaderAlive, LostInv
  <2>6. ASSUME UNCHANGED <<life, reader, outcome, attempt>>
        PROVE  LostInv'
    <3>1. lost' = lost
      BY <2>0, <2>6 DEF Started, SessionIsLost
    <3>2. QED
      BY <2>6, <3>1, NothingLost DEF ReaderAlive, LostInv
  <2>7. CASE Time \/ Watchdog \/ Closing \/ Close
    BY <2>6, <2>7
    DEF Time, GoIdle, GrowOld, RunLong, Watchdog, WatchdogFires,
        WatchdogSeesClosed, WatchdogCancelled, Closing, CloseGotReader,
        CloseFinishes, Close
  <2>8. ASSUME Start PROVE LostInv'
    <3>1. Started
      BY <1>a, <2>8, AttemptLimit DEF Start, Started
    <3>2. QED
      BY <1>a, <2>0, <2>8, <3>1, StartCounts
  <2>9. CASE Connect
    BY <2>8, <2>9 DEF Connect
  <2>10. ASSUME NEW c \in Consumers, Iterate(c) PROVE LostInv'
    BY <2>6, <2>8, <2>10 DEF Iterate
  <2>11. ASSUME NEW c \in Consumers, Abandon(c) \/ Consume(c) PROVE LostInv'
    BY <2>6, <2>11 DEF Abandon, Consume, Resume, TakeData, TakeSentinel, TakeItem
  <2>12. QED
    BY <1>2, <2>1, <2>2, <2>3, <2>4, <2>5, <2>7, <2>9, <2>10, <2>11
    DEF HistoryNext, Next, Reader, User
<1>3. QED
  BY <1>1, <1>2

(* The reconnect loop gives up after max_attempts + 1 sessions lost in a   *)
(* row, counted from the last one that ran long, whatever else the tasks   *)
(* of the transport do meanwhile.                                          *)
THEOREM GivesUpOnTime == HistorySpec => []GivesUpExactly
<1>1. HistoryInit => IInv /\ LostInv
  <2>1. HistoryInit => IInv
    BY Initially DEF HistoryInit
  <2>2. HistoryInit => LostInv
    BY DEF HistoryInit, Init, LostInv, GivesUpExactly, ReaderAlive
  <2>3. QED
    BY <2>1, <2>2
<1>2. IInv /\ LostInv /\ [HistoryNext]_historyVars => (IInv /\ LostInv)'
  <2>1. [HistoryNext]_historyVars => [Next]_vars
    BY DEF HistoryNext, historyVars
  <2>2. QED
    BY <2>1, Inductive, LostStep
<1>3. LostInv => GivesUpExactly
  BY DEF LostInv
<1>4. QED
  BY <1>1, <1>2, <1>3, PTL DEF HistorySpec
=============================================================================
