--------------------------- MODULE LiveTransport ---------------------------
(***************************************************************************)
(* The live WebSocket transport: transport/websocket.py together with the  *)
(* per-session state of transport/_connection.py.                          *)
(*                                                                         *)
(* One asyncio event loop runs the reader task (the reconnect loop and the *)
(* session inside it), the idle watchdog task, a caller of close(), and    *)
(* the tasks that iterate messages(), time_sync() and lts_not_found().     *)
(* Code between two suspension points is atomic, so every action below is  *)
(* the code from one suspension of one task to its next one.               *)
(*                                                                         *)
(* An asyncio.Queue is represented by the sequence of everything ever put  *)
(* on it (log) and the number of items taken off it (taken).               *)
(***************************************************************************)
EXTENDS Naturals, Sequences, FiniteSets

CONSTANTS
  Consumers,       \* tasks that iterate over the transport
  StreamOf,        \* the stream each of them iterates over
  Policy,          \* LTSNotFoundPolicy: what to do for each reason
  Limited,         \* reconnect_policy.max_attempts is not None
  MaxAttempts,     \* reconnect_policy.max_attempts, when Limited
  OverflowAt,      \* first attempt whose 2**attempt no longer fits a float (1024)
  IdleTimeout,     \* idle_timeout_s is finite
  FrameKinds,      \* the kinds of frame the server may send
  MaxFrames,       \* bound: frames received over the whole behaviour
  MaxLives         \* bound: times connect() starts the transport

Streams == {"messages", "time_sync", "lts"}
Reasons == {"not_yet_started", "ended", "unknown_event"}
Actions == {"continue", "terminate", "raise"}

(* What a frame is to the transport:                                       *)
(*   bad_json  JSON decoding raises                                        *)
(*   skipped   not an object, or the parser raises on it                   *)
(*   time      {type: "time"}                                              *)
(*   lts       LTS_NOT_FOUND is truthy                                     *)
(*   race_end  TrackState with FINISHED/CHEQUERED or an end time           *)
(*   results   InitialState with a non-empty RESULT                        *)
(*   other     every other message                                         *)
AllFrameKinds ==
  {"bad_json", "skipped", "time", "lts", "race_end", "results", "other"}

ASSUME ConstantsAssumption ==
  /\ StreamOf \in [Consumers -> Streams]
  /\ Policy \in [Reasons -> Actions]
  /\ Limited \in BOOLEAN
  /\ MaxAttempts \in Nat
  /\ OverflowAt \in Nat \ {0}
  /\ IdleTimeout \in BOOLEAN
  /\ FrameKinds \subseteq AllFrameKinds
  /\ MaxFrames \in Nat
  /\ MaxLives \in Nat

VARIABLES
  connected,     \* self._connected
  closed,        \* self._closed
  life,          \* how often connect() has created queues and tasks
  closer,        \* where the running close() is suspended, or "none"
  reader,        \* where the reader task is suspended
  outcome,       \* how the session body, or a finished reader, ended
  cancel,        \* a cancellation of the reader that is still to be delivered
  cancelledBy,   \* who called reader_task.cancel() in this life
  attempt,       \* the reader's count of failed attempts
  session,       \* self._state, a _ConnectionState
  longRun,       \* this session started more than 60 s ago
  watchdog,      \* the idle watchdog task
  log,           \* per life and stream, all items put on the queue
  taken,         \* per life and stream, how many were taken off again
  pendingExc,    \* self._pending_messages_exc
  consumer,      \* where each consumer is
  bound,         \* the life whose queue each consumer last called get() on
  caught,        \* the exception that ended each consumer's iteration
  frames,        \* frames received; the serial number of the latest one
  clockSynced    \* clock_offset has had its first sample

queueVars == <<log, taken>>
readerVars == <<reader, outcome, attempt, session, longRun>>
cancelVars == <<cancel, cancelledBy>>
lifeVars == <<connected, closed, life>>
consumerVars == <<consumer, bound, caught>>
frameVars == <<frames, clockSynced>>

vars == <<lifeVars, closer, readerVars, cancelVars, watchdog, queueVars,
          pendingExc, consumerVars, frameVars>>

-----------------------------------------------------------------------------
(* Queue items.  A sentinel ends the iterator that takes it.               *)

Data == [kind: {"message", "time"} \cup Reasons, frame: Nat]
Sentinels == [kind: {"end", "exhausted"}, frame: {0}]
Items == Data \cup Sentinels

END == [kind |-> "end", frame |-> 0]
EXHAUSTED == [kind |-> "exhausted", frame |-> 0]

IsSentinel(item) == item.kind \in {"end", "exhausted"}

(* The log after put(item) on one queue of the current life; queues are    *)
(* unbounded, so put never suspends.                                       *)
Put(stream, item) ==
  [log EXCEPT ![life][stream] = Append(@, item)]

(* An LTSNotFoundError: the reason it carries, the reason it was raised    *)
(* for, and the life of the transport it was raised in.                    *)
NoExc == [reason |-> "none", cause |-> "none", life |-> 0]
Exceptions ==
  [reason: Reasons \cup {"none"}, cause: Reasons \cup {"none"}, life: Nat]

Sessions ==
  [ended: BOOLEAN, results: BOOLEAN, aged: BOOLEAN, idle: BOOLEAN]

FreshSession ==
  [ended |-> FALSE, results |-> FALSE, aged |-> FALSE, idle |-> FALSE]

Init ==
  /\ connected = FALSE
  /\ closed = FALSE
  /\ life = 0
  /\ closer = "none"
  /\ reader = "none"
  /\ outcome = "none"
  /\ cancel = "none"
  /\ cancelledBy = {}
  /\ attempt = 0
  /\ session = FreshSession
  /\ longRun = FALSE
  /\ watchdog = "none"
  /\ log = [l \in 1..MaxLives |-> [s \in Streams |-> <<>>]]
  /\ taken = [l \in 1..MaxLives |-> [s \in Streams |-> 0]]
  /\ pendingExc = NoExc
  /\ consumer = [c \in Consumers |-> "idle"]
  /\ bound = [c \in Consumers |-> 0]
  /\ caught = [c \in Consumers |-> NoExc]
  /\ frames = 0
  /\ clockSynced = FALSE

-----------------------------------------------------------------------------
(* Cancelling the reader task.  cancel() on a finished task does nothing.  *)
(* On a suspended task it makes the pending await raise CancelledError     *)
(* ("sent").  When the reader cancels itself the error waits for its next  *)
(* real suspension ("latent"); until then it keeps the event loop, so no   *)
(* other task runs.                                                        *)

ReaderAlive == reader \notin {"none", "done"}

LoopFree == cancel # "latent"

CancelReader(who) ==
  IF ReaderAlive
  THEN /\ cancel' = "sent"
       /\ cancelledBy' = cancelledBy \cup {who}
  ELSE UNCHANGED cancelVars

(* The reader task ends. *)
FinishReader(how) ==
  /\ reader' = "done"
  /\ outcome' = how
  /\ cancel' = "none"

-----------------------------------------------------------------------------
(* connect() *)

Start ==
  /\ life < MaxLives
  /\ connected' = TRUE
  /\ closed' = FALSE
  /\ life' = life + 1
  /\ reader' = "offset"
  /\ outcome' = "none"
  /\ cancel' = "none"
  /\ cancelledBy' = {}
  /\ attempt' = 0
  /\ session' = FreshSession
  /\ longRun' = FALSE
  /\ watchdog' = "sleeping"

Connect ==
  /\ LoopFree
  /\ ~connected
  /\ Start
  /\ UNCHANGED <<closer, queueVars, pendingExc, consumerVars, frameVars>>

-----------------------------------------------------------------------------
(* The reader task: _reader_loop. *)

(* The initial random offset or a backoff delay is over: the next session  *)
(* begins with a fresh _ConnectionState.  The loop's own test of _closed   *)
(* never stops it here: close() sets _closed and cancels in one step.      *)
StartSession ==
  /\ reader \in {"offset", "backoff"}
  /\ cancel = "none"
  /\ ~closed
  /\ reader' = "connecting"
  /\ outcome' = "none"
  /\ session' = FreshSession
  /\ longRun' = FALSE
  /\ UNCHANGED <<lifeVars, closer, attempt, cancelVars, watchdog, queueVars,
                 pendingExc, consumerVars, frameVars>>

(* The socket is open; the handshake is sent and the frame loop entered.   *)
OpenSocket ==
  /\ reader = "connecting"
  /\ cancel = "none"
  /\ reader' = "frames"
  /\ UNCHANGED <<lifeVars, closer, outcome, attempt, session, longRun,
                 cancelVars, watchdog, queueVars, pendingExc, consumerVars,
                 frameVars>>

(* What the loop does once a session is over for any reason but            *)
(* cancellation and LTSNotFoundError.  Computing the delay of attempt      *)
(* OverflowAt raises OverflowError, outside of the loop's try statement.   *)
AttemptNow == IF longRun THEN 0 ELSE attempt

ExhaustedOffByOne == Limited /\ AttemptNow > MaxAttempts

Exhausted == Limited /\ AttemptNow >= MaxAttempts

(* A defective loop that returns without telling the iterators. *)
AfterSessionSilent ==
  \/ /\ Exhausted
     /\ FinishReader("exhausted")
     /\ attempt' = AttemptNow
     /\ UNCHANGED log
  \/ /\ ~Exhausted
     /\ AttemptNow >= OverflowAt
     /\ FinishReader("overflow")
     /\ attempt' = AttemptNow
     /\ UNCHANGED log
  \/ /\ ~Exhausted
     /\ AttemptNow < OverflowAt
     /\ reader' = "backoff"
     /\ attempt' = AttemptNow + 1
     /\ outcome' = "none"
     /\ UNCHANGED <<log, cancel>>

AfterSession ==
  \/ /\ Exhausted
     /\ log' = Put("messages", EXHAUSTED)
     /\ FinishReader("exhausted")
     /\ attempt' = AttemptNow
  \/ /\ ~Exhausted
     /\ AttemptNow >= OverflowAt
     /\ FinishReader("overflow")
     /\ attempt' = AttemptNow
     /\ UNCHANGED log
  \/ /\ ~Exhausted
     /\ AttemptNow < OverflowAt
     /\ reader' = "backoff"
     /\ attempt' = AttemptNow + 1
     /\ outcome' = "none"
     /\ UNCHANGED <<log, cancel>>

ConnectFails ==
  /\ reader = "connecting"
  /\ cancel = "none"
  /\ AfterSession
  /\ UNCHANGED <<lifeVars, closer, session, longRun, cancelledBy, watchdog,
                 taken, pendingExc, consumerVars, frameVars>>

(* The frame loop ends: the server closed normally (1000 or 1001), which   *)
(* just ends the async for, or the connection was lost, which raises.      *)
SessionEnds ==
  /\ reader = "frames"
  /\ cancel \in {"none", "latent"}
  /\ reader' = "exiting"
  /\ outcome' \in {"returned", "failed"}
  /\ UNCHANGED <<lifeVars, closer, attempt, session, longRun, cancelVars,
                 watchdog, queueVars, pendingExc, consumerVars, frameVars>>

(* The socket's __aexit__ has returned; how the session ended reaches the  *)
(* except clauses of the loop.                                             *)
CloseSocket ==
  /\ reader = "exiting"
  /\ cancel \in {"none", "latent"}
  /\ \/ /\ outcome \in {"returned", "failed"}
        /\ AfterSession
     \/ /\ outcome = "lts_error"
        /\ log' = Put("messages", EXHAUSTED)
        /\ FinishReader("lts_error")
        /\ UNCHANGED attempt
     \/ /\ outcome = "cancelled"
        /\ FinishReader("cancelled")
        /\ UNCHANGED <<log, attempt>>
  /\ UNCHANGED <<lifeVars, closer, session, longRun, cancelledBy, watchdog,
                 taken, pendingExc, consumerVars, frameVars>>

(* After cancelling itself the reader reaches an await that suspends.      *)
ReachSuspension ==
  /\ cancel = "latent"
  /\ cancel' = "sent"
  /\ UNCHANGED <<lifeVars, closer, readerVars, cancelledBy, watchdog,
                 queueVars, pendingExc, consumerVars, frameVars>>

(* CancelledError is raised at the reader's await.  Inside the session it  *)
(* first closes the socket; raised in that close it replaces whatever the  *)
(* session was ending with.                                                *)
DeliverCancel ==
  /\ cancel = "sent"
  /\ IF reader = "frames"
     THEN reader' = "exiting" /\ outcome' = "cancelled" /\ cancel' = "none"
     ELSE FinishReader("cancelled")
  /\ UNCHANGED <<lifeVars, closer, attempt, session, longRun, cancelledBy,
                 watchdog, queueVars, pendingExc, consumerVars, frameVars>>

-----------------------------------------------------------------------------
(* Frames: the body of the async for, _handle_frame and                    *)
(* _handle_lts_not_found.  A latent cancellation does not stop frames that *)
(* are already buffered.                                                   *)

(* Every frame is recorded, whatever it holds (record_frame). *)
Receive(kind, observed) ==
  /\ reader = "frames"
  /\ cancel \in {"none", "latent"}
  /\ kind \in FrameKinds
  /\ frames < MaxFrames
  /\ frames' = frames + 1
  /\ session' = [observed EXCEPT !.idle = FALSE]
  /\ UNCHANGED <<lifeVars, closer, attempt, longRun, watchdog, taken,
                 consumerVars>>

FrameUndecodable ==
  /\ Receive("bad_json", session)
  /\ reader' = "exiting"
  /\ outcome' = "failed"
  /\ UNCHANGED <<cancelVars, log, pendingExc, clockSynced>>

FrameSkipped ==
  /\ Receive("skipped", session)
  /\ UNCHANGED <<reader, outcome, cancelVars, log, pendingExc, clockSynced>>

FrameTimeSync ==
  /\ Receive("time", session)
  /\ clockSynced' = TRUE
  /\ log' = Put("time_sync", [kind |-> "time", frame |-> frames'])
  /\ UNCHANGED <<reader, outcome, cancelVars, pendingExc>>

(* observe_track_state and observe_initial_state *)
Observe(kind) ==
  [session EXCEPT !.ended = @ \/ kind = "race_end",
                  !.results = @ \/ kind = "results"]

FrameMessage ==
  /\ \E kind \in {"race_end", "results", "other"} : Receive(kind, Observe(kind))
  /\ log' = Put("messages", [kind |-> "message", frame |-> frames'])
  /\ UNCHANGED <<reader, outcome, cancelVars, pendingExc, clockSynced>>

Classify ==
  IF session.ended THEN "ended"
  ELSE IF ~session.aged /\ ~session.results THEN "not_yet_started"
  ELSE "unknown_event"

LtsEvent == [kind |-> Classify, frame |-> frames']

LtsContinue ==
  /\ Policy[Classify] = "continue"
  /\ Receive("lts", session)
  /\ log' = Put("lts", LtsEvent)
  /\ UNCHANGED <<reader, outcome, cancelVars, pendingExc, clockSynced>>

(* A defective handler that raises before it reports the event. *)
LtsRaiseUnreported ==
  /\ Policy[Classify] = "raise"
  /\ Receive("lts", session)
  /\ pendingExc' = [reason |-> "unknown_event", cause |-> Classify, life |-> life]
  /\ reader' = "exiting"
  /\ outcome' = "lts_error"
  /\ UNCHANGED <<cancelVars, clockSynced, log>>

(* The exception's reason is written out in the code, whatever the         *)
(* classification was.                                                     *)
LtsRaise ==
  /\ Policy[Classify] = "raise"
  /\ Receive("lts", session)
  /\ log' = Put("lts", LtsEvent)
  /\ pendingExc' = [reason |-> "unknown_event", cause |-> Classify, life |-> life]
  /\ reader' = "exiting"
  /\ outcome' = "lts_error"
  /\ UNCHANGED <<cancelVars, clockSynced>>

(* A defective handler that forgets to cancel the reader. *)
LtsTerminateUncancelled ==
  /\ Policy[Classify] = "terminate"
  /\ Receive("lts", [session EXCEPT !.ended = TRUE])
  /\ log' = [log EXCEPT ![life]["lts"] = Append(@, LtsEvent),
                         ![life]["messages"] = Append(@, EXHAUSTED)]
  /\ cancelledBy' = cancelledBy \cup {"terminate"}
  /\ UNCHANGED <<reader, outcome, pendingExc, clockSynced, cancel>>

(* The reader marks the session ended, ends messages() and cancels itself. *)
LtsTerminate ==
  /\ Policy[Classify] = "terminate"
  /\ Receive("lts", [session EXCEPT !.ended = TRUE])
  /\ log' = [log EXCEPT ![life]["lts"] = Append(@, LtsEvent),
                         ![life]["messages"] = Append(@, EXHAUSTED)]
  /\ cancel' = "latent"
  /\ cancelledBy' = cancelledBy \cup {"terminate"}
  /\ UNCHANGED <<reader, outcome, pendingExc, clockSynced>>

Frame ==
  \/ FrameUndecodable
  \/ FrameSkipped
  \/ FrameTimeSync
  \/ FrameMessage
  \/ LtsContinue
  \/ LtsRaise
  \/ LtsTerminate

-----------------------------------------------------------------------------
(* Time.  Only the comparisons the code makes are kept: idle_seconds() >   *)
(* idle_timeout_s, connection_age_seconds() < pre_race_threshold_s, and    *)
(* the 60 seconds after which a session resets the attempts.               *)

GoIdle ==
  /\ IdleTimeout
  /\ life > 0
  /\ ~session.idle
  /\ session' = [session EXCEPT !.idle = TRUE]
  /\ UNCHANGED <<lifeVars, closer, reader, outcome, attempt, longRun,
                 cancelVars, watchdog, queueVars, pendingExc, consumerVars,
                 frameVars>>

(* The age is only looked at while a frame is handled. *)
GrowOld ==
  /\ reader = "frames"
  /\ ~session.aged
  /\ session' = [session EXCEPT !.aged = TRUE]
  /\ UNCHANGED <<lifeVars, closer, reader, outcome, attempt, longRun,
                 cancelVars, watchdog, queueVars, pendingExc, consumerVars,
                 frameVars>>

RunLong ==
  /\ reader = "frames"
  /\ ~longRun
  /\ longRun' = TRUE
  /\ UNCHANGED <<lifeVars, closer, reader, outcome, attempt, session,
                 cancelVars, watchdog, queueVars, pendingExc, consumerVars,
                 frameVars>>

-----------------------------------------------------------------------------
(* The idle watchdog: _idle_watchdog. *)

(* It wakes from a sleep; unless there is something to do it sleeps again. *)
WatchdogFires ==
  /\ LoopFree
  /\ watchdog = "sleeping"
  /\ closer # "watchdog"
  /\ session.idle
  /\ CancelReader("watchdog")
  /\ watchdog' = "done"
  /\ UNCHANGED <<lifeVars, closer, readerVars, queueVars, pendingExc,
                 consumerVars, frameVars>>

WatchdogSeesClosed ==
  /\ LoopFree
  /\ watchdog = "sleeping"
  /\ closer # "watchdog"
  /\ ~session.idle
  /\ closed
  /\ watchdog' = "done"
  /\ UNCHANGED <<lifeVars, closer, readerVars, cancelVars, queueVars,
                 pendingExc, consumerVars, frameVars>>

-----------------------------------------------------------------------------
(* close().  It is suspended while it waits for the reader and then for    *)
(* the watchdog; a second call meanwhile returns at once.                  *)

(* A defective close() that leaves the reader running. *)
CloseUncancelled ==
  /\ LoopFree
  /\ ~closed
  /\ closed' = TRUE
  /\ IF life = 0
     THEN UNCHANGED closer
     ELSE closer' = "reader"
  /\ UNCHANGED <<connected, life, readerVars, cancelVars, watchdog, queueVars,
                 pendingExc, consumerVars, frameVars>>

(* Before the first connect() there is nothing to stop. *)
Close ==
  /\ LoopFree
  /\ ~closed
  /\ closed' = TRUE
  /\ IF life = 0
     THEN UNCHANGED <<closer, cancelVars>>
     ELSE closer' = "reader" /\ CancelReader("close")
  /\ UNCHANGED <<connected, life, readerVars, watchdog, queueVars,
                 pendingExc, consumerVars, frameVars>>

(* A defective close() that does not wait for the reader it cancelled. *)
CloseSkipsReader ==
  /\ LoopFree
  /\ closer = "reader"
  /\ closer' = "watchdog"
  /\ UNCHANGED <<lifeVars, readerVars, cancelVars, watchdog, queueVars,
                 pendingExc, consumerVars, frameVars>>

(* Only CancelledError is suppressed: another exception the reader died of *)
(* leaves close() here.                                                    *)
CloseGotReader ==
  /\ LoopFree
  /\ closer = "reader"
  /\ reader = "done"
  /\ closer' = IF outcome = "overflow" THEN "none" ELSE "watchdog"
  /\ UNCHANGED <<lifeVars, readerVars, cancelVars, watchdog, queueVars,
                 pendingExc, consumerVars, frameVars>>

WatchdogCancelled ==
  /\ LoopFree
  /\ closer = "watchdog"
  /\ watchdog = "sleeping"
  /\ watchdog' = "done"
  /\ UNCHANGED <<lifeVars, closer, readerVars, cancelVars, queueVars,
                 pendingExc, consumerVars, frameVars>>

(* A defective close() that ends only the messages() iterator. *)
CloseEndsMessagesOnly ==
  /\ LoopFree
  /\ closer = "watchdog"
  /\ watchdog = "done"
  /\ log' = Put("messages", END)
  /\ connected' = FALSE
  /\ closer' = "none"
  /\ UNCHANGED <<closed, life, readerVars, cancelVars, watchdog, taken,
                 pendingExc, consumerVars, frameVars>>

CloseFinishes ==
  /\ LoopFree
  /\ closer = "watchdog"
  /\ watchdog = "done"
  /\ log' = [log EXCEPT ![life] = [s \in Streams |-> Append(log[life][s], END)]]
  /\ connected' = FALSE
  /\ closer' = "none"
  /\ UNCHANGED <<closed, life, readerVars, cancelVars, watchdog, taken,
                 pendingExc, consumerVars, frameVars>>

-----------------------------------------------------------------------------
(* The iterators messages(), time_sync() and lts_not_found(). *)

Waiting(c) == LoopFree /\ consumer[c] = "getting"

(* What the queue the consumer waits on holds. *)
Unread(l, s) == Len(log[l][s]) - taken[l][s]

NextItem(c) ==
  LET l == bound[c]
      s == StreamOf[c]
  IN  log[l][s][taken[l][s] + 1]

(* A new iterator connects a transport that is not connected, a closed one *)
(* too, and calls get() on the queue of the life it finds.                 *)
Iterate(c) ==
  /\ LoopFree
  /\ consumer[c] \in {"idle", "ended", "raised"}
  /\ IF connected
     THEN UNCHANGED <<lifeVars, readerVars, cancelVars, watchdog>>
     ELSE Start
  /\ consumer' = [consumer EXCEPT ![c] = "getting"]
  /\ bound' = [bound EXCEPT ![c] = life']
  /\ UNCHANGED <<closer, queueVars, pendingExc, caught, frameVars>>

TakeItem(c) ==
  /\ Waiting(c)
  /\ Unread(bound[c], StreamOf[c]) > 0
  /\ taken' = [taken EXCEPT ![bound[c]][StreamOf[c]] = @ + 1]
  /\ UNCHANGED <<lifeVars, closer, readerVars, cancelVars, watchdog, log, bound,
                 frameVars>>

TakeData(c) ==
  /\ TakeItem(c)
  /\ ~IsSentinel(NextItem(c))
  /\ consumer' = [consumer EXCEPT ![c] = "holding"]
  /\ UNCHANGED <<pendingExc, caught>>

(* Only messages() looks at the pending exception. *)
TakeSentinel(c) ==
  /\ TakeItem(c)
  /\ IsSentinel(NextItem(c))
  /\ IF StreamOf[c] = "messages" /\ pendingExc # NoExc
     THEN /\ consumer' = [consumer EXCEPT ![c] = "raised"]
          /\ caught' = [caught EXCEPT ![c] = pendingExc]
          /\ pendingExc' = NoExc
     ELSE /\ consumer' = [consumer EXCEPT ![c] = "ended"]
          /\ UNCHANGED <<pendingExc, caught>>

(* The loop body is done with its item; the iterator calls get() on what   *)
(* is now the transport's queue.                                           *)
Resume(c) ==
  /\ LoopFree
  /\ consumer[c] = "holding"
  /\ consumer' = [consumer EXCEPT ![c] = "getting"]
  /\ bound' = [bound EXCEPT ![c] = life]
  /\ UNCHANGED <<lifeVars, closer, readerVars, cancelVars, watchdog, queueVars,
                 pendingExc, caught, frameVars>>

(* The loop is left with break, or its task is cancelled. *)
Abandon(c) ==
  /\ LoopFree
  /\ consumer[c] \in {"getting", "holding"}
  /\ consumer' = [consumer EXCEPT ![c] = "idle"]
  /\ UNCHANGED <<lifeVars, closer, readerVars, cancelVars, watchdog, queueVars,
                 pendingExc, bound, caught, frameVars>>

-----------------------------------------------------------------------------

Reader ==
  \/ StartSession
  \/ OpenSocket
  \/ ConnectFails
  \/ CloseSocket
  \/ ReachSuspension
  \/ DeliverCancel

Server == SessionEnds \/ Frame

Time == GoIdle \/ GrowOld \/ RunLong

Watchdog == WatchdogFires \/ WatchdogSeesClosed \/ WatchdogCancelled

Closing == CloseGotReader \/ CloseFinishes

Consume(c) == TakeData(c) \/ TakeSentinel(c) \/ Resume(c)

User ==
  \/ Connect
  \/ Close
  \/ \E c \in Consumers : Iterate(c) \/ Abandon(c)

Next ==
  \/ Reader
  \/ Server
  \/ Time
  \/ Watchdog
  \/ Closing
  \/ User
  \/ \E c \in Consumers : Consume(c)

Spec == Init /\ [][Next]_vars

(* Awaits the library bounds end: connecting (open_timeout), closing the   *)
(* socket (close_timeout), sleeping, and being cancelled.  So do the       *)
(* bodies of the consumers' loops.  Nothing is assumed of the server, of   *)
(* the passing of time, or of the user.                                    *)
Fairness ==
  /\ WF_vars(Reader)
  /\ WF_vars(Watchdog)
  /\ WF_vars(Closing)
  /\ \A c \in Consumers : WF_vars(Consume(c))

FairSpec == Spec /\ Fairness

-----------------------------------------------------------------------------
(* Properties. *)

(* The largest attempt the loop ever computes a delay for, plus one. *)
AttemptBound ==
  IF Limited /\ MaxAttempts < OverflowAt THEN MaxAttempts ELSE OverflowAt

LogType == [1..MaxLives -> [Streams -> Seq(Items)]]

CountType == [1..MaxLives -> [Streams -> Nat]]

(* Every variable holds a value of its type; the attempt counter stays     *)
(* within max_attempts, and within what a float can hold.                  *)
TypeOK ==
  /\ connected \in BOOLEAN
  /\ closed \in BOOLEAN
  /\ life \in 0..MaxLives
  /\ closer \in {"none", "reader", "watchdog"}
  /\ reader \in {"none", "offset", "connecting", "frames", "exiting",
                 "backoff", "done"}
  /\ outcome \in {"none", "returned", "failed", "lts_error", "cancelled",
                  "exhausted", "overflow"}
  /\ cancel \in {"none", "latent", "sent"}
  /\ cancelledBy \subseteq {"terminate", "watchdog", "close"}
  /\ attempt \in 0..AttemptBound
  /\ session \in Sessions
  /\ longRun \in BOOLEAN
  /\ watchdog \in {"none", "sleeping", "done"}
  /\ log \in LogType
  /\ taken \in CountType
  /\ pendingExc \in Exceptions
  /\ consumer \in [Consumers -> {"idle", "getting", "holding", "ended", "raised"}]
  /\ bound \in [Consumers -> 0..MaxLives]
  /\ caught \in [Consumers -> Exceptions]
  /\ frames \in 0..MaxFrames
  /\ clockSynced \in BOOLEAN

Holds(l, s, kind) == \E i \in 1..Len(log[l][s]) : log[l][s][i].kind = kind

MessagesEnded(l) ==
  Holds(l, "messages", "end") \/ Holds(l, "messages", "exhausted")

(* END is the last item of all three streams. *)
EndsWithEND(l) ==
  \A s \in Streams : log[l][s] # <<>> /\ log[l][s][Len(log[l][s])] = END

(* A consumer blocked on the empty queue of messages() is never forgotten: *)
(* the reader of that queue still runs, or a close() that will end the     *)
(* stream is under way, or the stream was ended before.  The two ways the  *)
(* code breaks this are named: the watchdog's cancellation and the         *)
(* overflow of the backoff delay.                                          *)
NoForgottenReceiver ==
  \A c \in Consumers :
    LET l == bound[c] IN
    ( /\ StreamOf[c] = "messages"
      /\ consumer[c] = "getting"
      /\ Unread(l, "messages") = 0 )
    => \/ MessagesEnded(l)
       \/ /\ l = life
          /\ \/ ReaderAlive
             \/ closer # "none"
             \/ "watchdog" \in cancelledBy
             \/ outcome = "overflow"

Reported(exc) ==
  exc # NoExc => /\ exc.life \in 1..MaxLives
                 /\ Holds(exc.life, "lts", exc.cause)

(* An LTSNotFoundError never reaches a consumer of messages() before the   *)
(* event that explains it is on the queue of lts_not_found(), as the       *)
(* comment "Yield the event BEFORE raising" promises.                      *)
ErrorIsReported ==
  /\ Reported(pendingExc)
  /\ \A c \in Consumers : Reported(caught[c])

(* Once close() has returned no task of the transport is left, it is ready *)
(* for another connect(), and all three streams of the life it closed end  *)
(* with END.  (Not after a reader that died of the overflow.)              *)
CloseLeavesNothing ==
  closed /\ closer = "none" /\ life > 0 /\ outcome # "overflow" =>
    /\ ~connected
    /\ reader = "done"
    /\ watchdog = "done"
    /\ EndsWithEND(life)

(* A reader that was cancelled, by the terminate policy, the watchdog or   *)
(* close(), never opens another session.                                   *)
CancelledNeverReconnects ==
  [][ (reader # "connecting" /\ reader' = "connecting" /\ life' = life)
      => cancelledBy = {} ]_vars

(* close() always comes back. *)
CloseCompletes == (closer # "none") ~> (closer = "none")

(* close() wakes every consumer that waits on a stream of the life it      *)
(* closes, when each stream has one consumer.                              *)
CloseUnblocks ==
  \A c \in Consumers, l \in 1..MaxLives :
    (consumer[c] = "getting" /\ bound[c] = l /\ life = l /\ closer # "none")
      ~> (consumer[c] \in {"idle", "ended", "raised"} \/ life # l)

(* A lost connection is tried again, or messages() is told that it is not, *)
(* unless somebody cancelled the reader meanwhile.                         *)
LossIsRetriedOrReported ==
  \A l \in 1..MaxLives :
    (life = l /\ reader = "exiting" /\ outcome \in {"returned", "failed"})
      ~> \/ reader = "connecting"
         \/ MessagesEnded(l)
         \/ cancelledBy # {}
         \/ outcome = "overflow"
         \/ life # l

(* The transport implements MessageStream: a life is open from connect()   *)
(* to the last step of close(), its streams get at most one item for each  *)
(* frame and nothing after END, and items are taken once, in order.        *)
Stream == INSTANCE MessageStream
  WITH open <- connected,
       Kinds <- {"message", "time"} \cup Reasons,
       Lives <- 1..MaxLives

ImplementsStream == Stream!Spec

-----------------------------------------------------------------------------
(* The inductive invariant behind the safety properties, by subject.       *)

(* Tasks exist from the first connect() on; close() is only suspended      *)
(* while the transport is connected, and waits for the watchdog only after *)
(* the reader.                                                             *)
TaskInv ==
  /\ connected => life > 0
  /\ life > 0 => reader # "none" /\ watchdog # "none"
  /\ life = 0 => reader = "none" /\ watchdog = "none" /\ cancelledBy = {}
  /\ closer # "none" => closed /\ connected
  /\ closer = "watchdog" => reader = "done"
  /\ reader = "exiting" =>
       outcome \in {"returned", "failed", "lts_error", "cancelled"}
  /\ reader = "done" =>
       outcome \in {"lts_error", "cancelled", "exhausted", "overflow"}

(* A cancelled reader that still runs has its CancelledError coming, or is *)
(* closing the socket because of it.                                       *)
CancelInv ==
  /\ cancel # "none" => ReaderAlive /\ cancelledBy # {}
  /\ outcome = "cancelled" => cancelledBy # {}
  /\ ReaderAlive /\ cancelledBy # {} =>
       cancel # "none" \/ (reader = "exiting" /\ outcome = "cancelled")
  /\ "close" \in cancelledBy => closed

(* What a transport that was closed looks like, until it is connected      *)
(* again.                                                                  *)
ClosedInv ==
  /\ ~connected /\ life > 0 =>
       /\ closed
       /\ closer = "none"
       /\ reader = "done"
       /\ watchdog = "done"
       /\ EndsWithEND(life)
  /\ connected /\ closed /\ closer = "none" =>
       reader = "done" /\ outcome = "overflow"
  /\ connected /\ ReaderAlive /\ closed => "close" \in cancelledBy

(* How messages() learns that the reader is gone. *)
EndInv ==
  \A l \in 1..MaxLives :
    /\ l < life => MessagesEnded(l)
    /\ l = life =>
         \/ MessagesEnded(l)
         \/ /\ "terminate" \notin cancelledBy
            /\ connected
            /\ ~(reader = "done" /\ outcome \in {"lts_error", "exhausted"})

(* Consumers wait only on queues that exist. *)
ConsumerInv ==
  \A c \in Consumers :
    /\ bound[c] <= life
    /\ consumer[c] # "idle" => bound[c] > 0

IInv ==
  /\ TypeOK
  /\ TaskInv
  /\ CancelInv
  /\ ClosedInv
  /\ EndInv
  /\ ConsumerInv
  /\ ErrorIsReported

-----------------------------------------------------------------------------
(* What the sources say of the transport and the code does not do.         *)

(* "D-02: force reconnect if no frame received": after the watchdog has    *)
(* cancelled the reader another session is opened, unless it is closed.    *)
WatchdogForcesReconnect ==
  ("watchdog" \in cancelledBy /\ ~closed) ~> (reader = "connecting" \/ closed)

=============================================================================
