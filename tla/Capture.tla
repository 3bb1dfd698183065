------------------------------ MODULE Capture ------------------------------
(***************************************************************************)
(* nls-record (cli/record.py): connect, overwrite the file, write a line   *)
(* for every frame until the deadline, the end of the connection, a frame  *)
(* that is not JSON, Ctrl-C or the end of the process.                     *)
(*                                                                         *)
(* A frame is what a replay will make of it (Replay), or "notjson".        *)
(***************************************************************************)
EXTENDS Naturals, Sequences

CONSTANTS
  Feeds,       \* bound: what the server may send, one frame after the other
  Befores,     \* bound: what may be at the path before
  Deadlines,   \* bound: --max-seconds, None for no limit
  MaxTime,     \* bound: how long the model looks at a capture with no limit
  WallTimes,   \* bound: readings of the wall clock
  Absent, None

Frames == {"known", "unknown", "poison", "time", "refused", "notjson"}

VARIABLES
  stage,       \* where the program is
  deadline,    \* on the monotonic clock
  now,         \* the monotonic clock
  feed,        \* what the server has still to send
  buffered,    \* frames that recv() has not returned yet
  open,        \* the connection is open
  captured,    \* the lines written to the file object
  file,        \* what is on disk
  broken,      \* a write to the file has raised OSError
  outcome      \* how the program ended

serverVars == <<feed, buffered, open>>
captureVars ==
  <<stage, deadline, now, serverVars, captured, file, broken, outcome>>

CaptureInit ==
  /\ stage = "connecting"
  /\ deadline \in Deadlines
  /\ now = 0
  /\ feed \in Feeds
  /\ buffered = <<>>
  /\ open = TRUE
  /\ captured = <<>>
  /\ file \in Befores
  /\ broken = FALSE
  /\ outcome = "none"

Capturing == stage \in {"checking", "waiting"}

(* --max-seconds counts from before the connection is made.                *)
Due == deadline # None /\ now >= deadline

-----------------------------------------------------------------------------
(* The server and the clock. A deadline the program waits for is kept.     *)

ServerSends ==
  /\ open
  /\ stage # "connecting"
  /\ feed # <<>>
  /\ buffered' = Append(buffered, Head(feed))
  /\ feed' = Tail(feed)
  /\ UNCHANGED <<stage, deadline, now, open, captured, file, broken, outcome>>

ServerCloses ==
  /\ open
  /\ open' = FALSE
  /\ UNCHANGED <<stage, deadline, now, feed, buffered, captured, file, broken, outcome>>

Tick ==
  /\ now < MaxTime
  /\ ~(Capturing /\ Due)
  /\ now' = now + 1
  /\ UNCHANGED <<stage, deadline, serverVars, captured, file, broken, outcome>>

-----------------------------------------------------------------------------
(* run(). *)

(* connect, the handshake and open(..., "w").                              *)
Connects ==
  /\ stage = "connecting"
  /\ open
  /\ stage' = "checking"
  /\ file' = <<>>
  /\ UNCHANGED <<deadline, now, serverVars, captured, broken, outcome>>

ConnectFails ==
  /\ stage = "connecting"
  /\ stage' = "done"
  /\ outcome' = "returned"
  /\ UNCHANGED <<deadline, now, serverVars, captured, file, broken>>

(* What a process that is killed, or a disk that is full, leaves of a file *)
(* object: some lines and perhaps a piece of the next, cut between two     *)
(* characters or inside one.                                               *)
Remains ==
  {SubSeq(captured, 1, n) : n \in 0 .. Len(captured)}
    \cup {Append(SubSeq(captured, 1, n), [content |-> torn, ts |-> None]) :
            n \in 0 .. Len(captured) - 1, torn \in {"garbage", "bytes"}}

(* Mutant: the file is not closed before the program is gone.              *)
StopsUnflushed(o) ==
  /\ stage' = "leaving"
  /\ outcome' = o
  /\ UNCHANGED <<deadline, now, serverVars, captured, file, broken>>

(* Leaving the inner with statement closes the file and so writes what was *)
(* buffered; closing the connection comes after it. The OSError of a write *)
(* that fails there takes the place of what ended the loop, a cancellation *)
(* included, and is caught like a connection that could not be made.       *)
StopsWith(o) ==
  /\ stage' = "leaving"
  /\ \/ file' = captured /\ outcome' = o /\ UNCHANGED broken
     \/ file' \in Remains /\ outcome' = "returned" /\ broken' = TRUE
  /\ UNCHANGED <<deadline, now, serverVars, captured>>

(* The head of the loop.                                                   *)
CheckDeadline ==
  /\ stage = "checking"
  /\ IF Due
     THEN StopsWith("returned")
     ELSE /\ stage' = "waiting"
          /\ UNCHANGED <<deadline, now, serverVars, captured, file, broken, outcome>>

(* fh.write writes what was buffered before when there is too much of it;  *)
(* an OSError is taken for a closed connection.                            *)
Receive ==
  /\ stage = "waiting"
  /\ buffered # <<>>
  /\ Head(buffered) # "notjson"
  /\ \E ts \in WallTimes :
       captured' = Append(captured, [content |-> Head(buffered), ts |-> ts])
  /\ buffered' = Tail(buffered)
  /\ \/ /\ stage' = "checking"
        /\ UNCHANGED <<file, broken, outcome>>
     \/ /\ stage' = "leaving"
        /\ outcome' = "returned"
        /\ file' \in Remains'
        /\ broken' = TRUE
  /\ UNCHANGED <<deadline, now, feed, open>>

(* _json_loads raises: taken for a closed connection.                      *)
ReceiveNotJson ==
  /\ stage = "waiting"
  /\ buffered # <<>>
  /\ Head(buffered) = "notjson"
  /\ StopsWith("returned")

(* recv() raises ConnectionClosed when it has returned every frame.        *)
ReceiveClosed ==
  /\ stage = "waiting"
  /\ buffered = <<>>
  /\ ~open
  /\ StopsWith("returned")

(* Mutant: recv() without a timeout.                                       *)
TimesOutNever ==
  /\ stage = "waiting"
  /\ Due
  /\ buffered # <<>>
  /\ StopsWith("returned")

(* wait_for() of recv(), also when a frame comes at the same moment.       *)
TimesOut ==
  /\ stage = "waiting"
  /\ Due
  /\ StopsWith("returned")

Leave ==
  /\ stage = "leaving"
  /\ stage' = "done"
  /\ UNCHANGED <<deadline, now, serverVars, captured, file, broken, outcome>>

(* Ctrl-C cancels the task at an await; asyncio.run() then raises          *)
(* KeyboardInterrupt, which nothing catches.                               *)
Interrupt ==
  \/ /\ stage = "waiting"
     /\ StopsWith("interrupted")
  \/ /\ stage \in {"connecting", "leaving"}
     /\ stage' = "done"
     /\ outcome' = "interrupted"
     /\ UNCHANGED <<deadline, now, serverVars, captured, file, broken>>

Kill ==
  /\ Capturing
  /\ stage' = "done"
  /\ outcome' = "killed"
  /\ file' \in Remains
  /\ UNCHANGED <<deadline, now, serverVars, captured, broken>>

CaptureRuns ==
  \/ Connects \/ ConnectFails
  \/ CheckDeadline
  \/ Receive \/ ReceiveNotJson \/ ReceiveClosed \/ TimesOut
  \/ Leave

CaptureNext ==
  \/ ServerSends \/ ServerCloses \/ Tick
  \/ CaptureRuns
  \/ Interrupt \/ Kill

CaptureSpec == CaptureInit /\ [][CaptureNext]_captureVars

(* Time passes, and connecting and closing have timeouts of their own.     *)
CaptureFairness == WF_captureVars(Tick) /\ WF_captureVars(CaptureRuns)

-----------------------------------------------------------------------------
(* Properties. *)

(* run(): with --max-seconds the capture ends, however quiet the server.   *)
CaptureEnds == deadline # None ~> stage = "done"
=============================================================================
