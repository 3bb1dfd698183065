------------------------------- MODULE Replay -------------------------------
(***************************************************************************)
(* ReplayTransport (transport/replay.py): a recording is read as a whole,  *)
(* then its lines are classified, checked against the line emitted last,   *)
(* paced and yielded one by one.                                           *)
(*                                                                         *)
(* A line is what the reader and the parser make of it, and its stamp      *)
(* ts_recv_ms. Times are those of the recording; a sleep is counted in     *)
(* them, before it is divided by speed_factor.                             *)
(***************************************************************************)
EXTENDS Naturals, Sequences

CONSTANTS
  Files,       \* bound: what may be found at the path; Absent is one of them
  Absent,      \* there is no such file
  None,        \* no stamp, or one that is no number
  Huge         \* a stamp that int() cannot convert, such as Infinity

(* "garbage" is no JSON object; "noraw" an object without `raw'. Of the    *)
(* others the parser refuses "refused", and yields a time-sync frame, a    *)
(* message of a known PID or an UnknownMessage. RaceState.apply raises on  *)
(* "poison". A line of "bytes" is not UTF-8.                               *)
MessageContents == {"known", "unknown", "poison"}
Contents ==
  {"bytes", "blank", "garbage", "noraw", "refused", "time"} \cup MessageContents

Lines == [content: Contents, ts: Nat \cup {None, Huge}]

(* What _read_lines_sync returns.                                          *)
Items == [content: Contents, ts: Nat \cup {None}]

ASSUME ConstantsAssumption ==
  /\ Files \subseteq Seq(Lines) \cup {Absent}
  /\ None \notin Nat /\ Huge \notin Nat /\ None # Huge
  /\ Absent \notin Seq(Lines)

VARIABLES
  paced,       \* speed_factor > 0
  suppress,    \* suppress_time_sync
  file,        \* what is at the path now
  connected,   \* self._connected
  offset,      \* the clock offset has had a sample
  phase,       \* where the iteration is suspended, or how it ended
  error,       \* the exception it ended with
  lines,       \* the lines as they were read
  at,          \* the line that is next
  prevTs,      \* prev_ts
  prevSleep,   \* prev_ts_for_sleep
  emitted,     \* the lines yielded in this iteration
  slept        \* how long it has slept

fileVars == <<paced, suppress, file>>
stampVars == <<prevTs, prevSleep, emitted, slept>>
vars == <<fileVars, connected, offset, phase, error, lines, at, stampVars>>

Init ==
  /\ paced \in BOOLEAN
  /\ suppress \in BOOLEAN
  /\ file \in Files
  /\ connected = FALSE
  /\ offset = FALSE
  /\ phase = "idle"
  /\ error = "none"
  /\ lines = <<>>
  /\ at = 1
  /\ prevTs = None
  /\ prevSleep = None
  /\ emitted = <<>>
  /\ slept = 0

Iterating == phase \in {"reading", "looping", "sleeping", "yielded"}

(* Between two awaits no other task runs.                                  *)
LoopFree == phase # "looping"

-----------------------------------------------------------------------------
(* connect() and close(), which an iteration under way does not notice.    *)

Connect ==
  /\ LoopFree
  /\ file # Absent
  /\ connected' = TRUE
  /\ UNCHANGED <<fileVars, offset, phase, error, lines, at, stampVars>>

Close ==
  /\ LoopFree
  /\ connected' = FALSE
  /\ UNCHANGED <<fileVars, offset, phase, error, lines, at, stampVars>>

(* Somebody else removes the file.                                         *)
Vanish ==
  /\ LoopFree
  /\ file' = Absent
  /\ UNCHANGED <<paced, suppress, connected, offset, phase, error, lines, at,
                 stampVars>>

-----------------------------------------------------------------------------
(* __aiter__ up to the thread that reads the file. connect() raises when   *)
(* there is no file.                                                       *)
Iterate ==
  /\ ~Iterating
  /\ phase' = IF connected \/ file # Absent THEN "reading" ELSE "failed"
  /\ error' = IF phase' = "failed" THEN "missing" ELSE "none"
  /\ connected' = (phase' = "reading")
  /\ lines' = <<>>
  /\ at' = 1
  /\ prevTs' = None
  /\ prevSleep' = None
  /\ emitted' = <<>>
  /\ slept' = 0
  /\ UNCHANGED <<fileVars, offset>>

(* One line that is not UTF-8 makes the reader raise UnicodeDecodeError,   *)
(* and one stamp that int() cannot convert OverflowError, for all of them. *)
Unreadable(f) ==
  \E i \in DOMAIN f :
    \/ f[i].content = "bytes"
    \/ f[i].content \notin {"blank", "garbage"} /\ f[i].ts = Huge

(* The stamp of a line that is not an object is never looked at.           *)
Item(l) ==
  [content |-> l.content,
   ts |-> IF l.content \in {"blank", "garbage"} THEN None ELSE l.ts]

ReadLines ==
  /\ phase = "reading"
  /\ file # Absent
  /\ ~Unreadable(file)
  /\ lines' = [i \in DOMAIN file |-> Item(file[i])]
  /\ phase' = "looping"
  /\ UNCHANGED <<fileVars, connected, offset, error, at, stampVars>>

ReadFails ==
  /\ phase = "reading"
  /\ \/ file = Absent /\ error' = "missing"
     \/ file # Absent /\ Unreadable(file) /\ error' = "reader"
  /\ phase' = "failed"
  /\ UNCHANGED <<fileVars, connected, offset, lines, at, stampVars>>

-----------------------------------------------------------------------------
(* One turn of the loop. *)

AtLine == phase = "looping" /\ at <= Len(lines)
Line == lines[at]

(* Mutant: equal stamps are out of order.                                  *)
BehindOrEqual == prevTs # None /\ Line.ts # None /\ Line.ts <= prevTs

Behind == prevTs # None /\ Line.ts # None /\ Line.ts < prevTs

OutOfOrder ==
  /\ AtLine
  /\ Behind
  /\ phase' = "failed"
  /\ error' = "ordering"
  /\ UNCHANGED <<fileVars, connected, offset, lines, at, stampVars>>

MissingRaw ==
  /\ AtLine
  /\ ~Behind
  /\ Line.content = "noraw"
  /\ phase' = "failed"
  /\ error' = "schema"
  /\ UNCHANGED <<fileVars, connected, offset, lines, at, stampVars>>

(* Mutant: two lines are skipped for one.                                  *)
SkipLineAndNext ==
  /\ AtLine
  /\ ~Behind
  /\ Line.content \in {"blank", "garbage", "refused"}
  /\ at' = at + 2
  /\ UNCHANGED <<fileVars, connected, offset, phase, error, lines, stampVars>>

(* Blank lines silently, the others with one warning an iteration.         *)
SkipLine ==
  /\ AtLine
  /\ ~Behind
  /\ Line.content \in {"blank", "garbage", "refused"}
  /\ at' = at + 1
  /\ UNCHANGED <<fileVars, connected, offset, phase, error, lines, stampVars>>

(* Mutant: what is not yielded still moves the clock of the pacing.        *)
SuppressTimeSyncMoves ==
  /\ AtLine
  /\ ~Behind
  /\ Line.content = "time"
  /\ suppress
  /\ offset' = TRUE
  /\ at' = at + 1
  /\ prevSleep' = IF Line.ts # None THEN Line.ts ELSE prevSleep
  /\ UNCHANGED <<fileVars, connected, phase, error, lines, prevTs, emitted,
                 slept>>

SuppressTimeSync ==
  /\ AtLine
  /\ ~Behind
  /\ Line.content = "time"
  /\ suppress
  /\ offset' = TRUE
  /\ at' = at + 1
  /\ UNCHANGED <<fileVars, connected, phase, error, lines, stampVars>>

Yields(l) ==
  l.content \in MessageContents \/ (l.content = "time" /\ ~suppress)

MustSleep ==
  /\ paced
  /\ prevSleep # None
  /\ Line.ts # None
  /\ Line.ts > prevSleep

Sleep ==
  /\ AtLine
  /\ ~Behind
  /\ Yields(Line)
  /\ MustSleep
  /\ slept' = slept + (Line.ts - prevSleep)
  /\ offset' = (offset \/ Line.content = "time")
  /\ phase' = "sleeping"
  /\ UNCHANGED <<fileVars, connected, error, lines, at, prevTs, prevSleep,
                 emitted>>

(* Mutant: the stamp to compare the next line with is not kept.            *)
YieldLineOnly ==
  /\ prevSleep' = IF Line.ts # None THEN Line.ts ELSE prevSleep
  /\ prevTs' = prevTs
  /\ emitted' = Append(emitted, at)
  /\ at' = at + 1
  /\ phase' = "yielded"

YieldLine ==
  /\ prevSleep' = IF Line.ts # None THEN Line.ts ELSE prevSleep
  /\ prevTs' = IF Line.ts # None THEN Line.ts ELSE prevTs
  /\ emitted' = Append(emitted, at)
  /\ at' = at + 1
  /\ phase' = "yielded"

EmitAtOnce ==
  /\ AtLine
  /\ ~Behind
  /\ Yields(Line)
  /\ ~MustSleep
  /\ offset' = (offset \/ Line.content = "time")
  /\ YieldLine
  /\ UNCHANGED <<fileVars, connected, error, lines, slept>>

(* Mutant: a close() puts the sleeping iteration to rest.                  *)
WakeIfConnected ==
  /\ phase = "sleeping"
  /\ connected
  /\ YieldLine
  /\ UNCHANGED <<fileVars, connected, offset, error, lines, slept>>

Wake ==
  /\ phase = "sleeping"
  /\ YieldLine
  /\ UNCHANGED <<fileVars, connected, offset, error, lines, slept>>

Finish ==
  /\ phase = "looping"
  /\ at > Len(lines)
  /\ phase' = IF emitted = <<>> THEN "failed" ELSE "ended"
  /\ error' = IF emitted = <<>> THEN "empty" ELSE "none"
  /\ UNCHANGED <<fileVars, connected, offset, lines, at, stampVars>>

(* The consumer asks for the next message.                                 *)
Resume ==
  /\ phase = "yielded"
  /\ phase' = "looping"
  /\ UNCHANGED <<fileVars, connected, offset, error, lines, at, stampVars>>

(* It leaves the loop, or its task is cancelled at one of the awaits.      *)
Abandon ==
  /\ phase \in {"reading", "sleeping", "yielded"}
  /\ phase' = "abandoned"
  /\ UNCHANGED <<fileVars, connected, offset, error, lines, at, stampVars>>

Generator ==
  \/ ReadLines \/ ReadFails
  \/ OutOfOrder \/ MissingRaw \/ SkipLine \/ SuppressTimeSync
  \/ Sleep \/ EmitAtOnce \/ Wake
  \/ Finish

Next ==
  \/ Connect \/ Close \/ Vanish
  \/ Iterate
  \/ Generator
  \/ Resume
  \/ Abandon

Spec == Init /\ [][Next]_vars

(* The thread, the sleeps and the generator come back by themselves; the   *)
(* consumer asks for the next message unless it gives up.                  *)
Fairness == WF_vars(Generator) /\ WF_vars(Resume)

FairSpec == Spec /\ Fairness

-----------------------------------------------------------------------------
(* Properties. *)

(* Every variable holds a value of its type.                               *)
TypeOK ==
  /\ {paced, suppress, connected, offset} \subseteq BOOLEAN
  /\ file \in Seq(Lines) \cup {Absent}
  /\ phase \in {"idle", "reading", "looping", "sleeping", "yielded", "ended",
                "failed", "abandoned"}
  /\ error \in {"none", "missing", "reader", "ordering", "schema", "empty"}
  /\ lines \in Seq(Items)
  /\ at \in 1 .. Len(lines) + 1
  /\ {prevTs, prevSleep} \subseteq Nat \cup {None}
  /\ emitted \in Seq(1 .. Len(lines))
  /\ slept \in Nat

Stamped(i) == lines[i].ts # None

(* __aiter__: the lines yielded are in the order of the file, and their    *)
(* stamps never go back, whatever was skipped or suppressed between two.   *)
EmittedInOrder ==
  \A j, k \in DOMAIN emitted : j < k =>
    /\ emitted[j] < emitted[k]
    /\ Stamped(emitted[j]) /\ Stamped(emitted[k])
         => lines[emitted[j]].ts <= lines[emitted[k]].ts

(* Of all stamped lines yielded so far, one is the first and one the last. *)
StampedEmitted == {j \in DOMAIN emitted : Stamped(emitted[j])}

(* D-15, the pacing: when a message is handed over at speed_factor > 0,    *)
(* the time slept is exactly the time between the first and the last       *)
(* stamped message of the recording. Skipped, suppressed and unstamped     *)
(* lines make it neither faster nor slower, and no error adds up.          *)
PacingIsExact ==
  phase = "yielded" =>
    slept = IF ~paced \/ StampedEmitted = {} THEN 0
            ELSE LET first == CHOOSE j \in StampedEmitted :
                                \A k \in StampedEmitted : j <= k
                     last == CHOOSE j \in StampedEmitted :
                                \A k \in StampedEmitted : k <= j
                 IN lines[emitted[last]].ts - lines[emitted[first]].ts

(* D-17, from the lines alone: where a replay has to stop.                 *)
OutOfOrderAt(i) ==
  \E j \in 1 .. i - 1 :
    /\ Yields(lines[j]) /\ Stamped(j) /\ Stamped(i)
    /\ lines[i].ts < lines[j].ts

StopsAt(i) == lines[i].content = "noraw" \/ OutOfOrderAt(i)

(* __aiter__: whatever the lines are, exactly those before the first bad   *)
(* one that can be yielded have been; a replay that ended had none; one    *)
(* that failed on a line failed on the first, for the reason it gives; and *)
(* "empty" is said of a file with nothing to yield, and only of that.      *)
EndsAsTheFileSays ==
  /\ Iterating \/ phase \in {"ended", "failed", "abandoned"} =>
       /\ \A i \in 1 .. at - 1 : ~StopsAt(i)
       /\ {emitted[k] : k \in DOMAIN emitted} = {i \in 1 .. at - 1 : Yields(lines[i])}
  /\ error \in {"ordering", "schema"} =>
       at <= Len(lines) /\ (error = "ordering" <=> OutOfOrderAt(at)) /\ StopsAt(at)
  /\ phase = "ended" => at = Len(lines) + 1 /\ emitted # <<>>
  /\ error = "empty" => at = Len(lines) + 1 /\ emitted = <<>>

(* An iteration that is not given up comes to its end.                     *)
ReplayEnds == Iterating ~> ~Iterating

=============================================================================
