------------------------------- MODULE Session -------------------------------
(***************************************************************************)
(* A program around NLSClient(record_to=path) (client.py): every message   *)
(* is recorded (Recording), applied to client.state (RaceState) and handed *)
(* over; leaving `async with' closes the transport. Run again, the program *)
(* may pass on a state that a replay of the recording has given (Replay    *)
(* says what a replay yields), or begin with an empty one.                 *)
(***************************************************************************)
EXTENDS Recording, RaceState

CONSTANTS
  Scripts,     \* bound: what the server sends, one message after the other
  Times,       \* bound: readings of the wall clock
  Huge         \* no stamp a recorder writes (Replay)

ASSUME SessionAssumption ==
  /\ Scripts \subseteq [1 .. MaxMessages -> Messages]
  /\ Times \subseteq Nat
  /\ Huge \notin Nat /\ Huge # None

VARIABLES
  script,      \* the messages by their number
  state,       \* client.state
  died,        \* state.apply raised, out of messages() into the consumer
  exit,        \* where the `async with' block is, or how it was left
  stamps,      \* ts_recv_ms of each piece of the file
  known,       \* the state began with all that was in the file by then
  swallowed,   \* __aexit__ has suppressed a CancelledError
  skipped      \* a message was heard while recording was disabled

clientVars == <<state, died, exit, swallowed, skipped>>
sessionVars == <<script, clientVars, stamps, known>>

-----------------------------------------------------------------------------
(* What a replay of the file gives. *)

Content(i) == script[file[i].msg]

LineOf(i) ==
  [content |-> IF file[i].end = "split" THEN "bytes"
               ELSE IF ~Parses(i) THEN "garbage"
               ELSE IF Raises(Content(i)) THEN "poison"
               ELSE IF Content(i).kind = "other" THEN "unknown" ELSE "known",
   ts |-> IF Parses(i) THEN stamps[i] ELSE None]

R == INSTANCE Replay WITH
       Files <- {}, Absent <- None, Huge <- Huge,
       paced <- FALSE, suppress <- TRUE, file <- None, connected <- TRUE,
       offset <- FALSE, phase <- "ended", error <- "none",
       lines <- [i \in DOMAIN file |-> LineOf(i)], at <- Len(file) + 1,
       prevTs <- None, prevSleep <- None, emitted <- <<>>, slept <- 0

(* The pieces it yields, in their order; none when the reader raises.      *)
Yielded ==
  LET Plays(i) == R!Yields(LineOf(i)) /\ \A j \in 1 .. i : ~R!StopsAt(j)
  IN IF R!Unreadable([i \in DOMAIN file |-> LineOf(i)])
     THEN <<>>
     ELSE Sorted({i \in DOMAIN file : Plays(i)}, <)

(* A consumer that applies messages gets as far as the first that raises.  *)
Consume(s, msgs) ==
  LET bad == {k \in DOMAIN msgs : Raises(msgs[k])}
      last == IF bad = {} THEN Len(msgs) ELSE Min(bad)
      after[k \in 0 .. last] == IF k = 0 THEN s ELSE Apply(after[k - 1], msgs[k])
  IN after[last]

Replayed ==
  Consume(Empty("REPLAY"), [k \in DOMAIN Yielded |-> Content(Yielded[k])])

-----------------------------------------------------------------------------
SessionInit ==
  /\ Init
  /\ script \in Scripts
  /\ state = Empty("LIVE")
  /\ died = FALSE
  /\ exit = "inside"
  /\ stamps = <<>>
  /\ known = TRUE
  /\ swallowed = FALSE
  /\ skipped = FALSE

(* messages(): the recorder's append() and state.apply() without an await  *)
(* between them that suspends.                                             *)
Hear ==
  /\ TakeMessage
  /\ LET msg == script[consumed']
     IN state' = Apply(state, msg) /\ died' = Raises(msg)
  /\ skipped' = (skipped \/ ~enabled)
  /\ UNCHANGED <<script, exit, swallowed, stamps, known>>

(* An iterator that raised has ended.                                      *)
HearNothing ==
  /\ TakeMessageTooLate \/ TakeEnd \/ (ConsumerContinues /\ ~died)
  /\ UNCHANGED sessionVars

Server == Inner /\ UNCHANGED sessionVars

Toggle == SetEnabled /\ UNCHANGED sessionVars

(* Mutant: a stamp is taken whatever the writer does.                      *)
StampAlways == \E now \in Times : stamps' = Append(stamps, now)

(* int(time.time() * 1000) when the line is written, from a clock that may *)
(* be set back.                                                            *)
Stamp ==
  IF Len(file') > Len(file)
  THEN \E now \in Times : stamps' = Append(stamps, now)
  ELSE UNCHANGED stamps

Record ==
  /\ Writer
  /\ Stamp
  /\ UNCHANGED <<script, clientVars, known>>

(* Mutant: the transport's errors are suppressed with the cancellation.    *)
LeavesQuietly ==
  /\ exit' = IF closer' = "none" THEN "left" ELSE "leaving"
  /\ swallowed' = (swallowed \/ (closer' = "none" /\ result' = "cancelled"))

(* __aexit__: the transport's close(), a CancelledError suppressed.        *)
Leaves ==
  /\ exit' = IF closer' # "none" THEN "leaving"
             ELSE IF result' = "raised" THEN "raised" ELSE "left"
  /\ swallowed' = (swallowed \/ (closer' = "none" /\ result' = "cancelled"))

Leave ==
  /\ exit = "inside"
  /\ Close
  /\ Leaves
  /\ UNCHANGED <<script, state, died, skipped, stamps, known>>

Exit ==
  /\ exit = "leaving"
  /\ Closing \/ CloseCancelled
  /\ Leaves
  /\ UNCHANGED <<script, state, died, skipped, stamps, known>>

(* The process ends, in whatever way, and the program is run again.        *)
Restart ==
  /\ Crash
  /\ Stamp
  /\ UNCHANGED script
  /\ \/ state' = Empty("LIVE") /\ known' = (file' = <<>>)
     \/ state' = Replayed' /\ known' = TRUE
  /\ died' = FALSE
  /\ exit' = "inside"
  /\ swallowed' = FALSE
  /\ skipped' = FALSE

SessionNext ==
  \/ Hear
  \/ HearNothing
  \/ Server
  \/ Toggle
  \/ Record
  \/ Leave
  \/ Exit
  \/ Restart

sessionAllVars == <<vars, sessionVars>>

SessionSpec == SessionInit /\ [][SessionNext]_sessionAllVars

-----------------------------------------------------------------------------
(* Properties. *)

(* Every variable of the session holds a value of its type.                *)
SessionTypeOK ==
  /\ {died, known, swallowed, skipped} \subseteq BOOLEAN
  /\ exit \in {"inside", "leaving", "left", "raised"}
  /\ stamps \in Seq(Times)
  /\ Len(stamps) = Len(file)

(* client.py:127: `async with' that is left without an exception has       *)
(* everything the recorder accepted in the file, whatever happened to the  *)
(* writer, unless __aexit__ swallowed a cancellation, which the caller     *)
(* never hears of.                                                         *)
LeavingTellsLoss == exit = "left" /\ ~swallowed => AllWritten

(* Every line but the last ends in a newline: no run was cut off in a      *)
(* write that another went on from.                                        *)
Whole == \A i \in 1 .. Len(file) - 1 : file[i].end = "line"

(* The message a replay raises at hides the runs after it.                 *)
OldPoison == \E i \in 1 .. base : Raises(Content(i))

(* The clock was set back between the writing of two lines.                *)
SetBack == \E i, j \in DOMAIN stamps : i < j /\ stamps[j] < stamps[i]

(* Client, recorder, reducer and replay together: once the block has been  *)
(* left quietly, a replay of the recording gives the state the client had, *)
(* run after run, provided the client began with what was in the file,     *)
(* recording was on, and none of three things the code does not survive    *)
(* came to pass: a torn line that was written on, a message that raises in *)
(* an earlier run, a clock set back. A line cut inside a character, which  *)
(* leaves nothing to replay, is a torn line too.                           *)
OfflineIsLive ==
  exit = "left" /\ ~swallowed /\ known /\ ~skipped /\ Whole /\ ~OldPoison /\ ~SetBack
    => SameData(Replayed, state)

(* The same at every other moment, of a crash or a failing writer: a       *)
(* replay of a run's recording gives the state the messages in it have led *)
(* through, all of them or all but the last, the one a write was cut in.   *)
(* Cut inside a character, that one line costs the others too: the replay  *)
(* gives nothing of them (transport/replay.py:188).                        *)
OnlyASuffixIsLost ==
  base = 0 /\ ~SetBack =>
    \E n \in 0 .. Len(file) :
      /\ IF Decodes THEN n + 1 >= Len(file) ELSE n = 0
      /\ SameData(Replayed, Consume(Empty("LIVE"),
                                    [k \in 1 .. n |-> script[accepted[k]]]))
==============================================================================
