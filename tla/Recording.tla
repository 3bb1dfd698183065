------------------------------ MODULE Recording ------------------------------
(***************************************************************************)
(* Recording a stream: JsonlRecorder (transport/recorder.py) behind        *)
(* RecordingTransport (transport/recorder_wrapper.py), run after run of a  *)
(* program that may crash, on one file.                                    *)
(*                                                                         *)
(* Messages are numbered in the order the inner transport yields them.     *)
(* The recorder's queue holds what append() accepted and the writer has    *)
(* not taken yet, and at its end perhaps the close sentinel.               *)
(***************************************************************************)
EXTENDS Naturals, Sequences, FiniteSets

CONSTANTS
  MaxMessages,    \* bound: messages the inner transport yields
  MaxRuns         \* bound: runs of the program

ASSUME ConstantsAssumption == MaxMessages \in Nat /\ MaxRuns \in Nat \ {0}

VARIABLES
  runs,        \* runs of the program so far
  inner,       \* the inner transport
  ended,       \* a sentinel ends the inner transport's messages
  produced,    \* messages the inner transport has put on its queue
  consumed,    \* messages the consumer has taken from it, or a crash has lost
  consumer,    \* the task that iterates the RecordingTransport
  enabled,     \* self._enabled
  closed,      \* self._closed of the recorder
  sentinel,    \* the close sentinel has been put on the recorder's queue
  task,        \* self._task, the writer
  accepted,    \* the messages put on the recorder's queue in this run
  got,         \* how many of them the writer has taken
  file,        \* what has been written, in pieces that end where a write ended
  base,        \* how many pieces there were when this run began
  closer,      \* where the running close() is suspended, or "none"
  result       \* how the latest close() of this run came back

innerVars == <<inner, ended, produced>>
consumerVars == <<consumed, consumer>>
queueVars == <<enabled, closed, sentinel, accepted>>
writerVars == <<task, got, file>>
closeVars == <<closer, result>>
runVars == <<runs, base>>

vars == <<innerVars, consumerVars, queueVars, writerVars, closeVars, runVars>>

(* A piece of the file: a line with its newline, the whole text of a line  *)
(* without it, or less than that, cut between two characters or, as orjson *)
(* leaves them in UTF-8, inside one.                                       *)
Ends == {"line", "text", "torn", "split"}
Pieces == [msg: Nat, end: Ends]

Init ==
  /\ runs = 1
  /\ inner = "open"
  /\ ended = FALSE
  /\ produced = 0
  /\ consumed = 0
  /\ consumer = "waiting"
  /\ enabled = TRUE
  /\ closed = FALSE
  /\ sentinel = FALSE
  /\ task = "none"
  /\ accepted = <<>>
  /\ got = 0
  /\ file = <<>>
  /\ base = 0
  /\ closer = "none"
  /\ result = "none"

(* get() on a queue that is not empty does not suspend: once it runs, the  *)
(* writer keeps the event loop until it has emptied its queue.             *)
LoopFree == task # "draining"

-----------------------------------------------------------------------------
(* The inner transport. *)

Produce ==
  /\ LoopFree
  /\ inner = "open"
  /\ produced < MaxMessages
  /\ produced' = produced + 1
  /\ UNCHANGED <<inner, ended, consumerVars, queueVars, writerVars, closeVars,
                 runVars>>

(* It gives up by itself. *)
InnerExhausts ==
  /\ LoopFree
  /\ inner = "open"
  /\ inner' = "exhausted"
  /\ ended' = TRUE
  /\ UNCHANGED <<produced, consumerVars, queueVars, writerVars, closeVars,
                 runVars>>

-----------------------------------------------------------------------------
(* RecordingTransport.__aiter__: the next message is appended, then yielded. *)

(* A defective append() that creates the writer only for a queue that      *)
(* already holds a message.                                                *)
AppendMessageLate(msg) ==
  IF enabled
  THEN /\ accepted' = Append(accepted, msg)
       /\ task' = IF task = "none" /\ accepted # <<>> THEN "created" ELSE task
  ELSE UNCHANGED <<accepted, task>>

(* append() to a recorder that is not closed: the writer task is created   *)
(* with the first message.                                                 *)
AppendMessage(msg) ==
  IF enabled
  THEN /\ accepted' = Append(accepted, msg)
       /\ task' = IF task = "none" THEN "created" ELSE task
  ELSE UNCHANGED <<accepted, task>>

TakeMessage ==
  /\ LoopFree
  /\ consumer = "waiting"
  /\ consumed < produced
  /\ consumed' = consumed + 1
  /\ ~closed
  /\ AppendMessage(consumed')
  /\ consumer' = "holding"
  /\ UNCHANGED <<innerVars, enabled, closed, sentinel, got, file, closeVars,
                 runVars>>

(* append() to a closed recorder raises RuntimeError, also when disabled.  *)
TakeMessageTooLate ==
  /\ LoopFree
  /\ consumer = "waiting"
  /\ consumed < produced
  /\ consumed' = consumed + 1
  /\ closed
  /\ consumer' = "error"
  /\ UNCHANGED <<innerVars, queueVars, writerVars, closeVars, runVars>>

TakeEnd ==
  /\ LoopFree
  /\ consumer = "waiting"
  /\ consumed = produced
  /\ ended
  /\ consumer' = "ended"
  /\ UNCHANGED <<innerVars, consumed, queueVars, writerVars, closeVars, runVars>>

ConsumerContinues ==
  /\ LoopFree
  /\ consumer = "holding"
  /\ consumer' = "waiting"
  /\ UNCHANGED <<innerVars, consumed, queueVars, writerVars, closeVars, runVars>>

SetEnabled ==
  /\ LoopFree
  /\ enabled' = ~enabled
  /\ UNCHANGED <<innerVars, consumerVars, closed, sentinel, accepted,
                 writerVars, closeVars, runVars>>

-----------------------------------------------------------------------------
(* The writer task: _writer_loop. *)

NextState(n) ==
  IF n < Len(accepted) \/ sentinel THEN "draining" ELSE "waiting"

(* A defective writer that opens the file for overwriting. *)
WriterStartsOver ==
  /\ task = "created"
  /\ task' = NextState(got)
  /\ file' = <<>>
  /\ UNCHANGED <<innerVars, consumerVars, queueVars, got, closeVars, runVars>>

(* mkdir and open either work or raise. *)
WriterStarts ==
  /\ task = "created"
  /\ task' \in {NextState(got), "failed"}
  /\ UNCHANGED <<innerVars, consumerVars, queueVars, got, file, closeVars,
                 runVars>>

HasMessage == task \in {"waiting", "draining"} /\ got < Len(accepted)

Piece(end) == [msg |-> accepted[got + 1], end |-> end]

(* A defective writer that writes the newest message first. *)
WriterWritesNewest ==
  /\ HasMessage
  /\ file' = Append(file, [msg |-> accepted[Len(accepted)], end |-> "line"])
  /\ got' = got + 1
  /\ task' = NextState(got + 1)
  /\ UNCHANGED <<innerVars, consumerVars, queueVars, closeVars, runVars>>

WriterWrites ==
  /\ HasMessage
  /\ file' = Append(file, Piece("line"))
  /\ got' = got + 1
  /\ task' = NextState(got + 1)
  /\ UNCHANGED <<innerVars, consumerVars, queueVars, closeVars, runVars>>

(* A defective writer that goes on after an error. *)
WriterSurvives ==
  /\ HasMessage
  /\ file' \in {file} \cup {Append(file, Piece(end)) : end \in Ends}
  /\ got' = got + 1
  /\ task' = NextState(got + 1)
  /\ UNCHANGED <<innerVars, consumerVars, queueVars, closeVars, runVars>>

(* write or flush raises; some of the line may be in the file. *)
WriterFails ==
  /\ HasMessage
  /\ file' \in {file} \cup {Append(file, Piece(end)) : end \in Ends}
  /\ got' = got + 1
  /\ task' = "failed"
  /\ UNCHANGED <<innerVars, consumerVars, queueVars, closeVars, runVars>>

(* A defective writer that looks for the sentinel first. *)
WriterStopsEarly ==
  /\ task \in {"waiting", "draining"}
  /\ sentinel
  /\ task' = "finished"
  /\ UNCHANGED <<innerVars, consumerVars, queueVars, got, file, closeVars,
                 runVars>>

(* A defective writer that takes the sentinel for a message. *)
WriterCountsSentinel ==
  /\ task \in {"waiting", "draining"}
  /\ got = Len(accepted)
  /\ sentinel
  /\ task' = "finished"
  /\ got' = got + 1
  /\ UNCHANGED <<innerVars, consumerVars, queueVars, file, closeVars, runVars>>

WriterStops ==
  /\ task \in {"waiting", "draining"}
  /\ got = Len(accepted)
  /\ sentinel
  /\ task' = "finished"
  /\ UNCHANGED <<innerVars, consumerVars, queueVars, got, file, closeVars,
                 runVars>>

-----------------------------------------------------------------------------
(* RecordingTransport.close(): the inner transport, then the recorder.  The *)
(* inner close() returns at once when it was called before.                *)

(* A defective recorder that puts no sentinel on a queue that is not empty. *)
CloseRecorderUnlessBusy ==
  IF closed \/ task = "none"
  THEN /\ closed' = TRUE
       /\ closer' = "none"
       /\ result' = "ok"
       /\ UNCHANGED sentinel
  ELSE /\ closed' = TRUE
       /\ sentinel' = (got = Len(accepted))
       /\ closer' = "writer"
       /\ UNCHANGED result

(* JsonlRecorder.close(), up to where it waits for the writer. *)
CloseRecorder ==
  IF closed \/ task = "none"
  THEN /\ closed' = TRUE
       /\ closer' = "none"
       /\ result' = "ok"
       /\ UNCHANGED sentinel
  ELSE /\ closed' = TRUE
       /\ sentinel' = TRUE
       /\ closer' = "writer"
       /\ UNCHANGED result

Close ==
  /\ LoopFree
  /\ closer = "none"
  /\ IF inner \in {"open", "exhausted"}
     THEN /\ inner' = "closing"
          /\ closer' = "inner"
          /\ UNCHANGED <<closed, sentinel, result>>
     ELSE CloseRecorder /\ UNCHANGED inner
  /\ UNCHANGED <<ended, produced, consumerVars, enabled, accepted, writerVars,
                 runVars>>

(* The inner transport is closed: its messages now end. *)
InnerCloses ==
  /\ LoopFree
  /\ closer = "inner"
  /\ inner' = "closed"
  /\ ended' = TRUE
  /\ CloseRecorder
  /\ UNCHANGED <<produced, consumerVars, enabled, accepted, writerVars, runVars>>

(* Its close() raises or is cancelled: the recorder stays open. *)
InnerCloseFails ==
  /\ LoopFree
  /\ closer = "inner"
  /\ inner' = "broken"
  /\ closer' = "none"
  /\ result' \in {"raised", "cancelled"}
  /\ UNCHANGED <<ended, produced, consumerVars, queueVars, writerVars, runVars>>

(* A defective close() that suppresses what the writer task raised. *)
CloseJoinsQuietly ==
  /\ LoopFree
  /\ closer = "writer"
  /\ task \in {"finished", "failed"}
  /\ closer' = "none"
  /\ result' = "ok"
  /\ UNCHANGED <<innerVars, consumerVars, queueVars, writerVars, runVars>>

(* await self._task: an exception of the writer is raised here. *)
CloseJoins ==
  /\ LoopFree
  /\ closer = "writer"
  /\ task \in {"finished", "failed"}
  /\ closer' = "none"
  /\ result' = IF task = "finished" THEN "ok" ELSE "raised"
  /\ UNCHANGED <<innerVars, consumerVars, queueVars, writerVars, runVars>>

(* Cancelling a task that awaits another cancels that one, unless it has   *)
(* ended; the CancelledError is raised in close() all the same.            *)
CloseCancelled ==
  /\ LoopFree
  /\ closer = "writer"
  /\ task' = IF task \in {"created", "waiting"} THEN "cancelled" ELSE task
  /\ closer' = "none"
  /\ result' = "cancelled"
  /\ UNCHANGED <<innerVars, consumerVars, queueVars, got, file, runVars>>

-----------------------------------------------------------------------------
(* The process dies, perhaps in the middle of a write, and the program is  *)
(* run again on the same file, which the recorder opens for appending.     *)
Crash ==
  /\ runs < MaxRuns
  /\ runs' = runs + 1
  /\ file' \in {file} \cup (IF HasMessage
                            THEN {Append(file, Piece(end)) : end \in Ends}
                            ELSE {})
  /\ base' = Len(file')
  /\ inner' = "open"
  /\ ended' = FALSE
  /\ consumed' = produced
  /\ consumer' = "waiting"
  /\ enabled' = TRUE
  /\ closed' = FALSE
  /\ sentinel' = FALSE
  /\ task' = "none"
  /\ accepted' = <<>>
  /\ got' = 0
  /\ closer' = "none"
  /\ result' = "none"
  /\ UNCHANGED produced

Inner == Produce \/ InnerExhausts

Consumer == TakeMessage \/ TakeMessageTooLate \/ TakeEnd \/ ConsumerContinues

Writer == WriterStarts \/ WriterWrites \/ WriterFails \/ WriterStops

Closing == InnerCloses \/ InnerCloseFails \/ CloseJoins

Next ==
  \/ Inner
  \/ Consumer
  \/ SetEnabled
  \/ Writer
  \/ Close
  \/ Closing
  \/ CloseCancelled
  \/ Crash

Spec == Init /\ [][Next]_vars

(* The event loop runs every task that can run, and closing the inner      *)
(* transport comes back (CloseCompletes of LiveTransport).                 *)
Fairness == WF_vars(Writer) /\ WF_vars(Closing)

FairSpec == Spec /\ Fairness

-----------------------------------------------------------------------------
(* Properties. *)

(* Every variable holds a value of its type. *)
TypeOK ==
  /\ runs \in 1..MaxRuns
  /\ inner \in {"open", "exhausted", "closing", "closed", "broken"}
  /\ ended \in BOOLEAN
  /\ produced \in 0..MaxMessages
  /\ consumed \in 0..produced
  /\ consumer \in {"waiting", "holding", "ended", "error"}
  /\ enabled \in BOOLEAN
  /\ closed \in BOOLEAN
  /\ sentinel \in BOOLEAN
  /\ task \in {"none", "created", "waiting", "draining", "finished", "failed",
               "cancelled"}
  /\ accepted \in Seq(Nat)
  /\ got \in 0..Len(accepted)
  /\ file \in Seq(Pieces)
  /\ base \in 0..Len(file)
  /\ closer \in {"none", "inner", "writer"}
  /\ result \in {"none", "ok", "raised", "cancelled"}

(* What this run has written are the first messages it accepted, in their  *)
(* order; over all runs no message is written twice or before an older one. *)
RecordedInOrder ==
  /\ Len(file) - base <= Len(accepted)
  /\ \A k \in 1..(Len(file) - base) : file[base + k].msg = accepted[k]
  /\ \A i, j \in 1..Len(file) : i < j => file[i].msg < file[j].msg

AllWritten ==
  \A k \in 1..Len(accepted) :
    /\ base + k <= Len(file)
    /\ file[base + k] = [msg |-> accepted[k], end |-> "line"]

(* A writer that ran to its end has written every message that append()    *)
(* accepted, whatever was enabled, disabled or appended meanwhile.         *)
FinishedMeansFlushed == task = "finished" => AllWritten

(* How replay reads piece i: a line of the file is what lies between       *)
(* newlines, and it is skipped unless it is one whole JSON text.           *)
Parses(i) ==
  /\ file[i].end \in {"line", "text"}
  /\ i = 1 \/ file[i - 1].end = "line"
  /\ i = Len(file) \/ file[i].end = "line"

(* One character that was cut makes the file as a whole unreadable: what   *)
(* follows it, or the end of the file, is no continuation of it, and the   *)
(* decoder raises UnicodeDecodeError out of the reader.                    *)
Decodes == \A i \in DOMAIN file : file[i].end # "split"

Readable(i) == Decodes /\ Parses(i)

(* A close() that waited and came back without an exception has flushed:   *)
(* an error of the writer task is never lost on its way to that caller.    *)
CloseReports ==
  [][ closer # "none" /\ closer' = "none" /\ result' = "ok" => AllWritten' ]_vars

(* Of the lines written whole a replay misses at most one for each earlier *)
(* run, the one that follows what an interrupted write left, unless such a *)
(* write was cut inside a character: then it misses them all. Nothing but  *)
(* a crash or a failing write ever does that to a file.                    *)
LossIsBounded ==
  /\ Decodes =>
       Cardinality({i \in 1..Len(file) : file[i].end = "line" /\ ~Readable(i)})
         <= runs - 1
  /\ ~Decodes => runs > 1 \/ task = "failed"

(* What is in the file stays as it is, over crashes and restarts. *)
FileOnlyGrows ==
  [][ /\ Len(file) <= Len(file')
      /\ \A i \in 1..Len(file) : file'[i] = file[i] ]_vars

(* A message that append() accepted is written, unless the run ends or the *)
(* writer fails or is cancelled with the close() that waits for it.        *)
AcceptedIsWritten ==
  \A r \in 1..MaxRuns, n \in 1..MaxMessages :
    (runs = r /\ Len(accepted) >= n)
      ~> (Len(file) - base >= n \/ runs # r \/ task \in {"failed", "cancelled"})

(* close() always comes back. *)
CloseCompletes == closer # "none" ~> closer = "none"

-----------------------------------------------------------------------------
(* The inductive invariant behind the safety properties, by subject.       *)

(* Messages are accepted in the order of their numbers, after all that the *)
(* file already held when the run began.                                   *)
OrderInv ==
  /\ \A i, j \in 1..Len(accepted) : i < j => accepted[i] < accepted[j]
  /\ \A k \in 1..Len(accepted) : accepted[k] <= consumed
  /\ \A i \in 1..Len(file) : file[i].msg <= consumed
  /\ \A i \in 1..base, k \in 1..Len(accepted) : file[i].msg < accepted[k]

(* Until it fails, the writer has written what it has taken. *)
WriterInv ==
  /\ Len(file) - base <= got
  /\ task # "failed" =>
       /\ Len(file) - base = got
       /\ \A k \in 1..got : file[base + k].end = "line"
  /\ task = "none" => accepted = <<>> /\ ~sentinel
  /\ task = "finished" => got = Len(accepted) /\ sentinel
  /\ sentinel => closed

IInv == TypeOK /\ RecordedInOrder /\ OrderInv /\ WriterInv

(* The pieces of earlier runs that are no whole line.                      *)
BrokenBefore == {i \in 1..base : file[i].end # "line"}

(* A run breaks at most its last line, when its writer fails or it dies.   *)
BrokenInv ==
  /\ \A i \in 1..Len(file) :
       i > base /\ file[i].end # "line" => i = Len(file) /\ task = "failed"
  /\ Cardinality(BrokenBefore) <= runs - 1

(* The recorder is closed only after the inner transport.                  *)
CloseInv ==
  /\ closed => inner \in {"closed", "broken"}
  /\ closer = "inner" <=> inner = "closing"

-----------------------------------------------------------------------------
(* What the sources say and the code does not do.                          *)

(* "close the inner transport first so no more messages flow into the      *)
(* recorder": no append() meets a closed recorder.                         *)
NoAppendAfterClose == consumer # "error"

=============================================================================
