---------------------------- MODULE ToolsProofs -----------------------------
(***************************************************************************)
(* Proofs about Tools: what nls-record leaves in the file, and what        *)
(* nls-replay makes of any file, for every feed, every moment at which a   *)
(* capture ends and every command line.                                    *)
(***************************************************************************)
EXTENDS Tools, ReplayProofs, FiniteSetTheorems

-----------------------------------------------------------------------------
(* The inductive invariant. *)

(* A line of a capture.                                                    *)
Recorded == [content: C!Frames \ {"notjson"}, ts: WallTimes]

(* Every way out of a capture that is not the end of the process leaves in *)
(* the file what was captured, as long as the disk takes it.               *)
CaptureInv ==
  /\ feed \in Seq(C!Frames)
  /\ buffered \in Seq(C!Frames)
  /\ captured \in Seq(Recorded)
  /\ stage = "connecting" => captured = <<>>
  /\ stage = "leaving" /\ ~broken => file = captured
  /\ stage = "done" /\ outcome # "killed" /\ ~broken =>
       captured = <<>> \/ file = captured

StageInv ==
  /\ suppress = TRUE
  /\ tool \in {"start", "entering", "running", "done"}
  /\ tool # "start" => stage = "done" /\ opts \in Options
  /\ tool \in {"start", "entering"} => phase = "idle" /\ printed = 0
  /\ tool = "running" =>
       phase \in {"reading", "looping", "sleeping", "yielded", "ended", "failed"}
  /\ tool = "done" => code \in {"0", "1", "crash", "interrupted"}

(* An iteration that failed says why; and what it says of the file is so.  *)
FailInv ==
  /\ phase = "failed" => error # "none"
  /\ error = "missing" => tool # "start" /\ file = Absent
  /\ error = "reader" => tool # "start" /\ file # Absent /\ Unreadable(file)

(* The lines are those of the file.                                        *)
Read == file # Absent /\ lines = [i \in DOMAIN file |-> Item(file[i])]

ReadInv ==
  /\ tool = "running" /\ phase \in {"looping", "sleeping", "yielded", "ended"} => Read
  /\ tool = "running" /\ error \in {"ordering", "schema", "empty"} => Read
  /\ tool = "done" /\ code \in {"0", "1"} => Read

(* What has been yielded has been printed, but for the message that is     *)
(* held, and is nothing that ends the program.                             *)
Fine(l) == Printable(l) /\ (l.content = "unknown" => ~opts.strict)

PrintedFine ==
  printed \in 0 .. Len(emitted) /\ \A k \in 1 .. printed : Fine(lines[emitted[k]])

(* The limit has not been reached by the lines before the last.            *)
Within(n) == opts.limit # None => n = 0 \/ n < opts.limit

PrintInv ==
  tool = "running" =>
    /\ PrintedFine
    /\ printed = IF phase = "yielded" THEN Len(emitted) - 1 ELSE Len(emitted)
    /\ Within(printed)

(* The ways to an exit code.                                               *)
RefusedInv ==
  /\ code = "1" /\ opts.strict
  /\ emitted # <<>>
  /\ printed = Len(emitted) - 1
  /\ lines[emitted[Len(emitted)]].content = "unknown"
  /\ Within(printed)

LimitInv ==
  /\ code = "0" /\ opts.limit # None
  /\ printed = Len(emitted)
  /\ printed >= 1 /\ printed >= opts.limit
  /\ Within(printed - 1)

EndedInv ==
  /\ printed = Len(emitted)
  /\ Within(printed)
  /\ \/ phase = "ended" /\ code = "0"
     \/ /\ error \in {"ordering", "schema", "empty"}
        /\ code = IF opts.strict THEN "1" ELSE "0"

CodeInv ==
  tool = "done" /\ code \in {"0", "1"} =>
    PrintedFine /\ (RefusedInv \/ LimitInv \/ EndedInv)

(* Why it crashed.                                                         *)
CrashInv ==
  tool = "done" /\ code = "crash" =>
    \/ file = Absent
    \/ file # Absent /\ \E i \in DOMAIN file : file[i].content \in {"bytes", "garbage"}
    \/ file # Absent /\ Unreadable(file)
    \/ Read /\ \E i \in DOMAIN lines : lines[i].content = "poison"

TInv ==
  /\ IInv /\ CaptureInv /\ StageInv /\ FailInv /\ ReadInv /\ PrintInv
  /\ CodeInv /\ CrashInv

-----------------------------------------------------------------------------
(* The steps of nls-record. *)

LEMMA RecordedAreLines ==
  /\ Recorded \subseteq Lines
  /\ Seq(Recorded) \subseteq Seq(Lines)
<1>1. Recorded \subseteq Lines
  BY CaptureAssumption
     DEF Recorded, Lines, C!Frames, Contents, MessageContents
<1> QED BY <1>1

LEMMA FinallyHolds ==
  ASSUME NEW s \in Seq(Recorded)
  PROVE  s \in Seq(Lines) \cup {Absent}
BY RecordedAreLines

(* What the end of the process leaves is a file of lines.                  *)
LEMMA RemainsAreLines ==
  ASSUME captured \in Seq(Recorded), NEW f \in C!Remains
  PROVE  f \in Seq(Lines)
<1>1. captured \in Seq(Lines) /\ Len(captured) \in Nat
  BY RecordedAreLines
<1>2. \A n \in 0 .. Len(captured) : SubSeq(captured, 1, n) \in Seq(Lines)
  BY <1>1
<1>3. \A torn \in {"garbage", "bytes"} : [content |-> torn, ts |-> None] \in Lines
  BY DEF Lines, Contents
<1>4. \A n \in 0 .. Len(captured) - 1, torn \in {"garbage", "bytes"} :
        Append(SubSeq(captured, 1, n), [content |-> torn, ts |-> None]) \in Seq(Lines)
  <2> TAKE n \in 0 .. Len(captured) - 1, torn \in {"garbage", "bytes"}
  <2>1. n \in 0 .. Len(captured)
    BY <1>1
  <2> QED BY <1>2, <1>3, <2>1
<1> QED BY <1>2, <1>4 DEF C!Remains

LEMMA RemainsAreLinesNext ==
  (captured \in Seq(Recorded) => \A f \in C!Remains : f \in Seq(Lines))'
<1>1. captured \in Seq(Recorded) => \A f \in C!Remains : f \in Seq(Lines)
  BY RemainsAreLines
<1> QED BY <1>1, PTL

LEMMA CaptureKeeps ==
  ASSUME CaptureInv, file \in Seq(Lines) \cup {Absent}, C!CaptureNext
  PROVE  /\ CaptureInv'
         /\ file' \in Seq(Lines) \cup {Absent}
         /\ stage = "done" => stage' = "done" /\ file' = file
<1>1. /\ feed \in Seq(C!Frames) /\ buffered \in Seq(C!Frames)
      /\ captured \in Seq(Recorded) /\ captured \in Seq(Lines) \cup {Absent}
      /\ stage = "connecting" => captured = <<>>
      /\ stage = "leaving" /\ ~broken => file = captured
      /\ stage = "done" /\ outcome # "killed" /\ ~broken =>
           captured = <<>> \/ file = captured
  BY FinallyHolds DEF CaptureInv
<1>2. CASE C!ServerSends
  <2>1. /\ feed # <<>>
        /\ buffered' = Append(buffered, Head(feed))
        /\ feed' = Tail(feed)
        /\ UNCHANGED <<stage, captured, file, broken, outcome>>
    BY <1>2 DEF C!ServerSends
  <2>2. feed' \in Seq(C!Frames) /\ buffered' \in Seq(C!Frames)
    BY <1>1, <2>1
  <2> QED BY <1>1, <2>1, <2>2 DEF CaptureInv
<1>3. CASE C!ServerCloses \/ C!Tick
  <2>1. UNCHANGED <<stage, feed, buffered, captured, file, broken, outcome>>
    BY <1>3 DEF C!ServerCloses, C!Tick, C!serverVars
  <2> QED BY <1>1, <2>1 DEF CaptureInv
<1>4. CASE C!Connects
  <2>1. /\ stage = "connecting" /\ stage' = "checking" /\ file' = <<>>
        /\ UNCHANGED <<feed, buffered, captured, broken, outcome>>
    BY <1>4 DEF C!Connects, C!serverVars
  <2> QED BY <1>1, <2>1 DEF CaptureInv
<1>5. CASE C!ConnectFails
  <2>1. /\ stage = "connecting" /\ stage' = "done"
        /\ UNCHANGED <<feed, buffered, captured, file, broken>>
    BY <1>5 DEF C!ConnectFails, C!serverVars
  <2> QED BY <1>1, <2>1 DEF CaptureInv
<1>6. ASSUME NEW o, C!StopsWith(o), stage # "done"
      PROVE  /\ CaptureInv'
             /\ file' \in Seq(Lines) \cup {Absent}
  <2>1. /\ stage' = "leaving"
        /\ UNCHANGED <<feed, buffered, captured>>
    BY <1>6 DEF C!StopsWith, C!serverVars
  <2>2. CASE file' = captured
    BY <1>1, <2>1, <2>2 DEF CaptureInv
  <2>3. CASE file' \in C!Remains /\ broken' = TRUE
    <3>1. file' \in Seq(Lines)
      BY <1>1, <2>3, RemainsAreLines
    <3> QED BY <1>1, <2>1, <2>3, <3>1 DEF CaptureInv
  <2> QED BY <1>6, <2>2, <2>3 DEF C!StopsWith
<1>7. CASE C!CheckDeadline
  <2>1. stage = "checking"
    BY <1>7 DEF C!CheckDeadline
  <2>2. CASE C!StopsWith("returned")
    BY <1>6, <2>1, <2>2
  <2>3. CASE stage' = "waiting" /\ UNCHANGED <<C!serverVars, captured, file, broken, outcome>>
    BY <1>1, <2>1, <2>3 DEF CaptureInv, C!serverVars
  <2> QED BY <1>7, <2>1, <2>2, <2>3 DEF C!CheckDeadline
<1>8. CASE C!Receive
  <2>1. /\ stage = "waiting"
        /\ buffered # <<>> /\ Head(buffered) # "notjson"
        /\ buffered' = Tail(buffered)
        /\ UNCHANGED feed
    BY <1>8 DEF C!Receive
  <2>2. PICK ts \in WallTimes :
          captured' = Append(captured, [content |-> Head(buffered), ts |-> ts])
    BY <1>8 DEF C!Receive
  <2>3. Head(buffered) \in C!Frames /\ buffered' \in Seq(C!Frames)
    BY <1>1, <2>1
  <2>4. [content |-> Head(buffered), ts |-> ts] \in Recorded
    BY <2>1, <2>3 DEF Recorded
  <2>5. captured' \in Seq(Recorded)
    BY <1>1, <2>2, <2>4
  <2>6. CASE stage' = "checking" /\ UNCHANGED <<file, broken, outcome>>
    BY <1>1, <2>1, <2>3, <2>5, <2>6 DEF CaptureInv
  <2>7. CASE stage' = "leaving" /\ file' \in C!Remains' /\ broken' = TRUE
    <3>1. file' \in Seq(Lines)
      BY <2>5, <2>7, RemainsAreLinesNext
    <3> QED BY <1>1, <2>1, <2>3, <2>5, <2>7, <3>1 DEF CaptureInv
  <2> QED BY <1>8, <2>6, <2>7 DEF C!Receive
<1>9. CASE C!ReceiveNotJson \/ C!ReceiveClosed \/ C!TimesOut
  <2>1. stage = "waiting" /\ C!StopsWith("returned")
    BY <1>9 DEF C!ReceiveNotJson, C!ReceiveClosed, C!TimesOut
  <2> QED BY <1>6, <2>1
<1>10. CASE C!Leave
  <2>1. /\ stage = "leaving" /\ stage' = "done"
        /\ UNCHANGED <<feed, buffered, captured, file, broken, outcome>>
    BY <1>10 DEF C!Leave, C!serverVars
  <2> QED BY <1>1, <2>1 DEF CaptureInv
<1>11. CASE C!Interrupt
  <2>1. CASE stage = "waiting" /\ C!StopsWith("interrupted")
    BY <1>6, <2>1
  <2>2. CASE /\ stage \in {"connecting", "leaving"} /\ stage' = "done"
             /\ UNCHANGED <<C!serverVars, captured, file, broken>>
    BY <1>1, <2>2 DEF CaptureInv, C!serverVars
  <2> QED BY <1>11, <2>1, <2>2 DEF C!Interrupt
<1>12. CASE C!Kill
  <2>1. /\ stage \in {"checking", "waiting"} /\ stage' = "done"
        /\ outcome' = "killed" /\ file' \in C!Remains
        /\ UNCHANGED <<feed, buffered, captured>>
    BY <1>12 DEF C!Kill, C!Capturing, C!serverVars
  <2>2. file' \in Seq(Lines)
    BY <1>1, <2>1, RemainsAreLines
  <2> QED BY <1>1, <2>1, <2>2 DEF CaptureInv
<1> QED BY <1>2, <1>3, <1>4, <1>5, <1>7, <1>8, <1>9, <1>10, <1>11, <1>12
        DEF C!CaptureNext, C!CaptureRuns

LEMMA RecordsKeep ==
  ASSUME TInv, Records
  PROVE  TInv'
<1>1. /\ IInv /\ CaptureInv /\ StageInv /\ FailInv /\ ReadInv /\ PrintInv
      /\ CodeInv /\ CrashInv
  BY DEF TInv
<1>2. /\ C!CaptureNext
      /\ UNCHANGED <<paced, suppress, connected, offset, phase, error, lines, at,
                     prevTs, prevSleep, emitted, slept, opts, tool, code, printed>>
  BY DEF Records, replayVars, stampVars, toolVars
<1>3. file \in Seq(Lines) \cup {Absent}
  BY <1>1 DEF IInv, TypeOK
<1>4. /\ CaptureInv' /\ file' \in Seq(Lines) \cup {Absent}
      /\ stage = "done" => stage' = "done" /\ file' = file
  BY <1>1, <1>2, <1>3, CaptureKeeps
<1>5. IInv'
  <2>1. TypeOK'
    BY <1>1, <1>2, <1>4 DEF IInv, TypeOK
  <2>2. EmittedInv' /\ StopInv' /\ StampInv'
    BY <1>1, <1>2, DataKept
  <2>3. PaceInv' /\ PhaseInv'
    BY <1>1, <1>2 DEF IInv, PaceInv, PhaseInv, Due, Line, IsFirst, StampedEmitted,
                      Stamped, MustSleep, Behind, Yields, OutOfOrderAt
  <2> QED BY <2>1, <2>2, <2>3 DEF IInv
<1>6. CASE tool = "start"
  <2>1. tool' = "start" /\ error = "none" /\ phase = "idle" /\ printed = 0
    BY <1>1, <1>2, <1>6 DEF StageInv, IInv, PhaseInv
  <2>2. StageInv' /\ FailInv' /\ ReadInv' /\ PrintInv' /\ CodeInv' /\ CrashInv'
    BY <1>1, <1>2, <2>1
       DEF StageInv, FailInv, ReadInv, PrintInv, CodeInv, CrashInv
  <2> QED BY <1>4, <1>5, <2>2 DEF TInv
<1>7. CASE tool # "start"
  <2>1. stage = "done" /\ stage' = "done" /\ file' = file
    BY <1>1, <1>4, <1>7 DEF StageInv
  <2>2. StageInv' /\ FailInv'
    BY <1>1, <1>2, <2>1 DEF StageInv, FailInv, Unreadable
  <2>3. ReadInv' /\ CrashInv'
    BY <1>1, <1>2, <2>1 DEF ReadInv, CrashInv, Read, Unreadable, Item
  <2>4. PrintInv' /\ CodeInv'
    BY <1>1, <1>2 DEF PrintInv, CodeInv, PrintedFine, Fine, Printable, Within,
                      RefusedInv, LimitInv, EndedInv
  <2> QED BY <1>4, <1>5, <2>2, <2>3, <2>4 DEF TInv
<1> QED BY <1>6, <1>7
-----------------------------------------------------------------------------
(* The steps of nls-replay. *)

LEMMA ToolsInitHolds == ToolsInit => TInv
<1> SUFFICES ASSUME ToolsInit PROVE TInv
  OBVIOUS
<1> USE DEF ToolsInit, NotReplaying, ToolInit, C!CaptureInit
<1>1. Len(lines) = 0 /\ DOMAIN emitted = {} /\ StampedEmitted = {}
  BY DEF StampedEmitted
<1>2. TypeOK
  <2>1. /\ lines \in Seq(Items) /\ emitted \in Seq(1 .. Len(lines))
        /\ at \in 1 .. Len(lines) + 1
    BY <1>1
  <2>2. file \in Seq(Lines) \cup {Absent}
    BY CaptureAssumption
  <2> QED BY <2>1, <2>2 DEF TypeOK
<1>3. IInv
  BY <1>1, <1>2 DEF IInv, EmittedInv, StopInv, StampInv, PaceInv, PhaseInv
<1>4. CaptureInv
  BY CaptureAssumption DEF CaptureInv
<1>5. StageInv /\ FailInv /\ ReadInv /\ PrintInv /\ CodeInv /\ CrashInv
  BY DEF StageInv, FailInv, ReadInv, PrintInv, CodeInv, CrashInv
<1> QED BY <1>3, <1>4, <1>5 DEF TInv

(* Leaving an iteration and closing the transport change nothing of what   *)
(* has been yielded.                                                       *)
LEMMA ParkedKeeps ==
  ASSUME IInv,
         UNCHANGED <<paced, suppress, file, offset, error, lines, at, prevTs,
                     prevSleep, emitted, slept>>,
         connected' \in BOOLEAN,
         phase' = phase \/ (phase' = "abandoned" /\ phase # "failed")
  PROVE  IInv'
<1>1. TypeOK'
  BY DEF IInv, TypeOK
<1>2. EmittedInv' /\ StopInv' /\ StampInv'
  BY DataKept
<1>3. PaceInv' /\ PhaseInv'
  BY DEF IInv, PaceInv, PhaseInv, Due, Line, IsFirst, StampedEmitted,
         Stamped, MustSleep, Behind, Yields, OutOfOrderAt
<1> QED BY <1>1, <1>2, <1>3 DEF IInv

(* The recording and the recorder stay as they are.                        *)
LEMMA RecorderGone ==
  ASSUME TInv, UNCHANGED <<recordVars, file>>
  PROVE  CaptureInv'
BY DEF TInv, CaptureInv, recordVars

LEMMA ScanKeeps ==
  ASSUME TInv, stage = "done", Scan, UNCHANGED recordVars
  PROVE  TInv'
<1>1. /\ tool = "start" /\ opts' \in Options
      /\ \/ tool' = "done" /\ code' = "crash" /\ connected' = FALSE /\ ScanCrashes
         \/ tool' = "entering" /\ UNCHANGED <<code, connected>>
      /\ UNCHANGED <<paced, suppress, file, offset, phase, error, lines, at, prevTs,
                     prevSleep, emitted, slept, printed>>
  BY DEF Scan, Returns, fileVars, stampVars
<1>2. IInv /\ StageInv /\ connected \in BOOLEAN
  BY DEF TInv, IInv, TypeOK
<1>3. IInv'
  BY <1>1, <1>2, ParkedKeeps
<1>4. CaptureInv'
  BY <1>1, RecorderGone
<1>5. phase = "idle" /\ printed = 0 /\ error = "none" /\ stage' = "done"
        /\ suppress = TRUE
  BY <1>1, <1>2 DEF StageInv, IInv, PhaseInv, recordVars
<1>6. StageInv' /\ FailInv' /\ ReadInv' /\ PrintInv' /\ CodeInv'
  BY <1>1, <1>5 DEF StageInv, FailInv, ReadInv, PrintInv, CodeInv
<1>7. CrashInv'
  BY <1>1 DEF CrashInv, ScanCrashes
<1> QED BY <1>3, <1>4, <1>6, <1>7 DEF TInv

LEMMA EnterKeeps ==
  ASSUME TInv, stage = "done", Enter \/ EnterFails, UNCHANGED recordVars
  PROVE  TInv'
<1>1. IInv /\ StageInv /\ stage' = "done"
  BY DEF TInv, recordVars
<1>2. CASE Enter
  <2>1. /\ tool = "entering" /\ tool' = "running" /\ file # Absent
        /\ Iterate
        /\ UNCHANGED <<opts, code, printed>>
    BY <1>2 DEF Enter
  <2>2. IInv'
    BY <1>1, <2>1, IterateKeeps
  <2>3. /\ phase' = "reading" /\ error' = "none" /\ emitted' = <<>>
        /\ UNCHANGED <<paced, suppress, file>>
    BY <2>1 DEF Iterate, fileVars
  <2>4. CaptureInv'
    BY <2>3, RecorderGone
  <2>5. printed = 0 /\ suppress = TRUE /\ opts \in Options
    BY <1>1, <2>1 DEF StageInv
  <2>6. StageInv' /\ FailInv' /\ ReadInv' /\ CodeInv' /\ CrashInv'
    BY <1>1, <2>1, <2>3, <2>5
       DEF StageInv, FailInv, ReadInv, CodeInv, CrashInv
  <2>7. PrintInv'
    BY <2>1, <2>3, <2>5 DEF PrintInv, PrintedFine, Within
  <2> QED BY <2>2, <2>4, <2>6, <2>7 DEF TInv
<1>3. CASE EnterFails
  <2>1. /\ tool = "entering" /\ tool' = "done" /\ code' = "crash"
        /\ connected' = FALSE /\ file = Absent
        /\ UNCHANGED <<paced, suppress, file, offset, phase, error, lines, at,
                       prevTs, prevSleep, emitted, slept, opts, printed>>
    BY <1>3 DEF EnterFails, Returns, fileVars, stampVars
  <2>2. IInv'
    BY <1>1, <2>1, ParkedKeeps
  <2>3. CaptureInv'
    BY <2>1, RecorderGone
  <2>4. phase = "idle" /\ error = "none" /\ suppress = TRUE /\ opts \in Options
    BY <1>1, <2>1 DEF StageInv, IInv, PhaseInv
  <2>5. StageInv' /\ FailInv' /\ ReadInv' /\ PrintInv' /\ CodeInv' /\ CrashInv'
    BY <1>1, <2>1, <2>4
       DEF StageInv, FailInv, ReadInv, PrintInv, CodeInv, CrashInv
  <2> QED BY <2>2, <2>3, <2>5 DEF TInv
<1> QED BY <1>2, <1>3

(* The generator goes on: it ends, or it has one line more to print.       *)
LEMMA GeneratorSteps ==
  ASSUME IInv, Generator
  PROVE  /\ UNCHANGED <<paced, suppress, file>>
         /\ \/ /\ phase = "reading" /\ phase' = "looping"
               /\ Read' /\ emitted' = emitted /\ error' = error
            \/ /\ phase = "reading" /\ phase' = "failed"
               /\ \/ error' = "missing" /\ file = Absent
                  \/ error' = "reader" /\ file # Absent /\ Unreadable(file)
               /\ UNCHANGED <<lines, emitted>>
            \/ /\ phase \in {"looping", "sleeping"}
               /\ phase' \in {"looping", "sleeping", "ended"} /\ error' = "none"
               /\ UNCHANGED <<lines, emitted>>
            \/ /\ phase = "looping"
               /\ phase' = "failed" /\ error' \in {"ordering", "schema", "empty"}
               /\ UNCHANGED <<lines, emitted>>
            \/ /\ phase \in {"looping", "sleeping"}
               /\ phase' = "yielded" /\ error' = error
               /\ lines' = lines /\ emitted' = Append(emitted, at)
<1> USE DEF fileVars, stampVars
<1>1. phase # "failed" => error = "none"
  BY DEF IInv, PhaseInv
<1>2. CASE ReadLines
  BY <1>2 DEF ReadLines, Read
<1>3. CASE ReadFails
  BY <1>3 DEF ReadFails
<1>4. CASE OutOfOrder \/ MissingRaw
  BY <1>4 DEF OutOfOrder, MissingRaw, AtLine
<1>5. CASE SkipLine \/ SuppressTimeSync
  BY <1>1, <1>5 DEF SkipLine, SuppressTimeSync, AtLine
<1>6. CASE Sleep
  BY <1>1, <1>6 DEF Sleep, AtLine
<1>7. CASE EmitAtOnce \/ Wake
  BY <1>7 DEF EmitAtOnce, Wake, AtLine, YieldLine
<1>8. CASE Finish
  BY <1>8 DEF Finish
<1> QED BY <1>2, <1>3, <1>4, <1>5, <1>6, <1>7, <1>8 DEF Generator

LEMMA RunningKeeps ==
  ASSUME TInv, stage = "done", Running, UNCHANGED recordVars
  PROVE  TInv'
<1>1. /\ IInv /\ StageInv /\ FailInv /\ ReadInv /\ PrintInv /\ stage' = "done"
      /\ suppress = TRUE /\ opts \in Options
  BY DEF TInv, StageInv, recordVars, Running
<1>2. /\ tool = "running" /\ Generator
      /\ tool' = "running" /\ opts' = opts /\ code' = code /\ printed' = printed
  BY DEF Running, toolVars
<1>3. IInv'
  BY <1>1, <1>2, NextIInv DEF Next
<1>4. /\ UNCHANGED <<paced, suppress, file>>
      /\ \/ /\ phase = "reading" /\ phase' = "looping"
            /\ Read' /\ emitted' = emitted /\ error' = error
         \/ /\ phase = "reading" /\ phase' = "failed"
            /\ \/ error' = "missing" /\ file = Absent
               \/ error' = "reader" /\ file # Absent /\ Unreadable(file)
            /\ UNCHANGED <<lines, emitted>>
         \/ /\ phase \in {"looping", "sleeping"}
            /\ phase' \in {"looping", "sleeping", "ended"} /\ error' = "none"
            /\ UNCHANGED <<lines, emitted>>
         \/ /\ phase = "looping"
            /\ phase' = "failed" /\ error' \in {"ordering", "schema", "empty"}
            /\ UNCHANGED <<lines, emitted>>
         \/ /\ phase \in {"looping", "sleeping"}
            /\ phase' = "yielded" /\ error' = error
            /\ lines' = lines /\ emitted' = Append(emitted, at)
  BY <1>1, <1>2, GeneratorSteps
<1>5. CaptureInv'
  BY <1>4, RecorderGone
<1>6. phase # "failed" => error = "none"
  BY <1>1 DEF IInv, PhaseInv
<1>7. StageInv'
  BY <1>1, <1>2, <1>4 DEF StageInv
<1>8. FailInv'
  BY <1>1, <1>2, <1>4, <1>6 DEF FailInv, Unreadable
<1>9. ReadInv'
  <2>1. CASE phase = "reading"
    BY <1>2, <1>4, <1>6, <2>1 DEF ReadInv
  <2>2. CASE phase # "reading"
    <3>1. Read
      BY <1>1, <1>2, <1>4, <2>2 DEF ReadInv
    <3>2. Read'
      BY <1>4, <2>2, <3>1 DEF Read, Item
    <3> QED BY <3>2 DEF ReadInv
  <2> QED BY <2>1, <2>2
<1>10. PrintInv'
  <2>1. /\ printed \in 0 .. Len(emitted)
        /\ \A k \in 1 .. printed : Fine(lines[emitted[k]])
        /\ printed = Len(emitted) /\ phase # "yielded"
        /\ Within(printed)
    BY <1>2, <1>4, <1>1 DEF PrintInv, PrintedFine
  <2>2. Within(printed)'
    BY <1>2, <2>1 DEF Within
  <2>3. emitted \in Seq(1 .. Len(lines)) /\ Len(emitted) \in Nat
    BY <1>1 DEF IInv, TypeOK
  <2>4. CASE emitted' = emitted /\ lines' = lines
    BY <1>2, <1>4, <2>1, <2>2, <2>3, <2>4
       DEF PrintInv, PrintedFine, Fine, Printable
  <2>5. CASE phase = "reading" /\ emitted' = emitted
    <3>1. emitted = <<>> /\ printed = 0 /\ phase' # "yielded"
      BY <1>1, <1>4, <2>1, <2>5 DEF IInv, PhaseInv
    <3> QED BY <1>2, <2>2, <2>5, <3>1 DEF PrintInv, PrintedFine
  <2>6. CASE /\ phase' = "yielded" /\ lines' = lines
             /\ emitted' = Append(emitted, at)
    <3>1. /\ Len(emitted') = Len(emitted) + 1
          /\ \A k \in 1 .. Len(emitted) : emitted'[k] = emitted[k]
      <4>1. at \in 1 .. Len(lines)
        <5>1. at \in Nat /\ Append(emitted, at)[Len(emitted) + 1] = at
          BY <1>1, <2>3 DEF IInv, TypeOK
        <5>2. emitted' \in Seq(1 .. Len(lines))
          BY <1>3, <2>6 DEF IInv, TypeOK
        <5>3. Len(emitted) + 1 \in DOMAIN emitted'
          BY <2>3, <2>6
        <5> QED BY <2>6, <5>1, <5>2, <5>3
      <4> QED BY <2>3, <2>6, <4>1
    <3>2. \A k \in 1 .. printed : emitted'[k] = emitted[k]
      BY <2>1, <3>1
    <3>3. \A k \in 1 .. printed : Fine(lines[emitted[k]])'
      BY <1>2, <2>1, <2>6, <3>2 DEF Fine, Printable
    <3>4. printed \in 0 .. Len(emitted') /\ printed = Len(emitted') - 1
      BY <2>1, <2>3, <3>1
    <3>5. \A k \in 1 .. printed' : Fine(lines[emitted[k]])'
      BY <1>2, <3>3
    <3> QED BY <1>2, <2>2, <2>6, <3>4, <3>5 DEF PrintInv, PrintedFine
  <2> QED BY <1>4, <2>4, <2>5, <2>6
<1>11. CodeInv' /\ CrashInv'
  BY <1>2 DEF CodeInv, CrashInv
<1> QED BY <1>3, <1>5, <1>7, <1>8, <1>9, <1>10, <1>11 DEF TInv

(* The iteration is given up with a code.                                  *)
LEMMA LeavingKeeps ==
  ASSUME TInv, stage = "done", tool = "running", UNCHANGED recordVars,
         UNCHANGED <<paced, suppress, file, offset, error, lines, at, prevTs,
                     prevSleep, emitted, slept, opts>>,
         tool' = "done", connected' = FALSE,
         phase' = phase \/ (phase' = "abandoned" /\ phase # "failed"),
         code' \in {"0", "1", "crash", "interrupted"},
         code' \in {"0", "1"} => Read,
         CodeInv', CrashInv'
  PROVE  TInv'
<1>1. IInv /\ StageInv /\ FailInv /\ stage' = "done"
  BY DEF TInv, recordVars
<1>2. IInv'
  BY <1>1, ParkedKeeps
<1>3. CaptureInv'
  BY RecorderGone
<1>4. StageInv' /\ FailInv' /\ PrintInv'
  BY <1>1 DEF StageInv, FailInv, PrintInv, Unreadable
<1>5. ReadInv'
  BY DEF ReadInv, Read, Item
<1> QED BY <1>2, <1>3, <1>4, <1>5 DEF TInv

(* What is held when a message is.                                         *)
LEMMA HeldIsLast ==
  ASSUME TInv, tool = "running", phase = "yielded"
  PROVE  /\ Read
         /\ emitted \in Seq(1 .. Len(lines)) /\ Len(emitted) \in Nat
         /\ Len(emitted) \in DOMAIN emitted
         /\ emitted[Len(emitted)] \in DOMAIN lines
         /\ printed = Len(emitted) - 1 /\ printed \in Nat
         /\ Within(printed)
         /\ \A k \in 1 .. printed : Fine(lines[emitted[k]])
         /\ Held \in MessageContents
<1>1. Read
  BY DEF TInv, ReadInv
<1>2. /\ emitted \in Seq(1 .. Len(lines)) /\ Len(emitted) \in Nat
      /\ lines \in Seq(Items)
  BY DEF TInv, IInv, TypeOK
<1>3. /\ printed \in 0 .. Len(emitted) /\ printed = Len(emitted) - 1
      /\ Within(printed)
      /\ \A k \in 1 .. printed : Fine(lines[emitted[k]])
  BY DEF TInv, PrintInv, PrintedFine
<1>4. Len(emitted) \in DOMAIN emitted
  BY <1>2, <1>3
<1>5. emitted[Len(emitted)] \in DOMAIN lines
  BY <1>2, <1>4
<1>6. Held \in MessageContents
  BY <1>4 DEF Held, TInv, IInv, EmittedInv, StageInv, Yields
<1> QED BY <1>1, <1>2, <1>3, <1>4, <1>5, <1>6

LEMMA RefusesKeeps ==
  ASSUME TInv, stage = "done", Refuses, UNCHANGED recordVars
  PROVE  TInv'
<1>1. /\ tool = "running" /\ phase = "yielded" /\ phase' = "abandoned"
      /\ tool' = "done" /\ connected' = FALSE
      /\ \/ Held = "poison" /\ code' = "crash"
         \/ Held = "unknown" /\ opts.strict /\ code' = "1"
      /\ UNCHANGED <<paced, suppress, file, offset, error, lines, at, prevTs,
                     prevSleep, emitted, slept, opts, printed>>
  BY DEF Refuses, Returns, fileVars, stampVars
<1>2. /\ Read
      /\ emitted \in Seq(1 .. Len(lines)) /\ Len(emitted) \in Nat
      /\ Len(emitted) \in DOMAIN emitted
      /\ emitted[Len(emitted)] \in DOMAIN lines
      /\ printed = Len(emitted) - 1 /\ printed \in Nat
      /\ Within(printed)
      /\ \A k \in 1 .. printed : Fine(lines[emitted[k]])
  BY <1>1, HeldIsLast
<1>3. code' = "crash" => CrashInv'
  <2> HAVE code' = "crash"
  <2>1. lines[emitted[Len(emitted)]].content = "poison"
    BY <1>1 DEF Held
  <2>2. Read'
    BY <1>1, <1>2 DEF Read, Item
  <2> QED BY <1>1, <1>2, <2>1, <2>2 DEF CrashInv
<1>4. code' # "crash" => CodeInv'
  <2> HAVE code' # "crash"
  <2>1. code' = "1" /\ opts.strict
          /\ lines[emitted[Len(emitted)]].content = "unknown"
    BY <1>1 DEF Held
  <2>2. PrintedFine'
    BY <1>1, <1>2 DEF PrintedFine, Fine, Printable
  <2>3. RefusedInv'
    BY <1>1, <1>2, <2>1 DEF RefusedInv, Within
  <2> QED BY <2>2, <2>3 DEF CodeInv
<1>5. CrashInv' /\ CodeInv'
  BY <1>1, <1>3, <1>4 DEF CrashInv, CodeInv
<1> QED BY <1>1, <1>2, <1>5, LeavingKeeps

LEMMA PrintsKeeps ==
  ASSUME TInv, stage = "done", Prints, UNCHANGED recordVars
  PROVE  TInv'
<1>1. /\ tool = "running" /\ phase = "yielded"
      /\ Held # "poison" /\ ~(Held = "unknown" /\ opts.strict)
      /\ printed' = printed + 1
      /\ UNCHANGED <<paced, suppress, file, offset, error, lines, at, prevTs,
                     prevSleep, emitted, slept, opts>>
  BY DEF Prints, fileVars, stampVars
<1>2. /\ Read
      /\ emitted \in Seq(1 .. Len(lines)) /\ Len(emitted) \in Nat
      /\ Len(emitted) \in DOMAIN emitted
      /\ emitted[Len(emitted)] \in DOMAIN lines
      /\ printed = Len(emitted) - 1 /\ printed \in Nat
      /\ Within(printed)
      /\ \A k \in 1 .. printed : Fine(lines[emitted[k]])
      /\ Held \in MessageContents
  BY <1>1, HeldIsLast
<1>3. printed' = Len(emitted) /\ printed' \in Nat /\ printed' >= 1
  BY <1>1, <1>2
<1>4. Fine(lines[emitted[Len(emitted)]])
  BY <1>1, <1>2 DEF Fine, Printable, Held, MessageContents
<1>5. PrintedFine'
  <2>1. \A k \in 1 .. printed' : Fine(lines[emitted[k]])
    <3> TAKE k \in 1 .. printed'
    <3>1. k = Len(emitted) \/ k \in 1 .. printed
      BY <1>1, <1>2, <1>3
    <3> QED BY <1>2, <1>4, <3>1
  <2>2. \A k \in 1 .. printed' : Fine(lines[emitted[k]])'
    BY <1>1, <2>1 DEF Fine, Printable
  <2>3. printed' \in 0 .. Len(emitted')
    BY <1>1, <1>2, <1>3
  <2> QED BY <2>2, <2>3 DEF PrintedFine
<1>6. CASE LimitReached
  <2>1. /\ tool' = "done" /\ code' = "0" /\ connected' = FALSE
        /\ phase' = "abandoned"
    BY <1>6 DEF Prints, Returns
  <2>2. opts.limit # None /\ printed' >= opts.limit
    BY <1>6 DEF LimitReached
  <2>3. printed' - 1 = printed
    BY <1>1, <1>2
  <2>4. LimitInv'
    BY <1>1, <1>2, <1>3, <2>1, <2>2, <2>3 DEF LimitInv, Within
  <2>5. CodeInv' /\ CrashInv'
    BY <1>5, <2>1, <2>4 DEF CodeInv, CrashInv
  <2> QED BY <1>1, <1>2, <2>1, <2>5, LeavingKeeps
<1>7. CASE ~LimitReached
  <2>1. /\ phase' = "looping"
        /\ UNCHANGED <<tool, code, connected>>
    BY <1>7 DEF Prints
  <2>2. IInv /\ StageInv /\ FailInv /\ stage' = "done"
    BY DEF TInv, recordVars
  <2>3. Resume
    BY <1>1, <2>1 DEF Resume, fileVars, stampVars
  <2>4. IInv'
    BY <2>2, <2>3, NextIInv DEF Next
  <2>5. CaptureInv'
    BY <1>1, RecorderGone
  <2>6. error = "none"
    BY <1>1, <2>2 DEF IInv, PhaseInv
  <2>7. StageInv' /\ FailInv' /\ CodeInv' /\ CrashInv'
    BY <1>1, <2>1, <2>2, <2>6 DEF StageInv, FailInv, CodeInv, CrashInv
  <2>8. ReadInv'
    BY <1>1, <1>2 DEF ReadInv, Read, Item
  <2>9. Within(printed)'
    <3>1. opts \in Options
      BY <1>1, <2>2 DEF StageInv
    <3>2. opts.limit \in Nat \cup {None}
      BY <3>1, OptionsAssumption
    <3> QED BY <1>1, <1>3, <1>7, <3>2 DEF Within, LimitReached
  <2>10. PrintInv'
    BY <1>1, <1>3, <1>5, <2>1, <2>9 DEF PrintInv
  <2> QED BY <2>4, <2>5, <2>7, <2>8, <2>10 DEF TInv
<1> QED BY <1>6, <1>7

LEMMA EndsKeeps ==
  ASSUME TInv, stage = "done", Ends, UNCHANGED recordVars
  PROVE  TInv'
<1>1. /\ tool = "running" /\ phase \in {"ended", "failed"}
      /\ tool' = "done" /\ connected' = FALSE
      /\ code' = IF error \in {"missing", "reader"} THEN "crash"
                 ELSE IF error # "none" /\ opts.strict THEN "1" ELSE "0"
      /\ UNCHANGED <<paced, suppress, file, offset, phase, error, lines, at, prevTs,
                     prevSleep, emitted, slept, opts, printed>>
  BY DEF Ends, Returns, fileVars, stampVars
<1>2. /\ IInv /\ FailInv /\ ReadInv
      /\ PrintedFine /\ printed = Len(emitted) /\ Within(printed)
  BY <1>1 DEF TInv, PrintInv
<1>3. error \in {"none", "missing", "reader", "ordering", "schema", "empty"}
  BY <1>2 DEF IInv, TypeOK
<1>4. CASE error \in {"missing", "reader"}
  <2>1. code' = "crash"
    BY <1>1, <1>4
  <2>2. CrashInv'
    BY <1>1, <1>2, <1>4 DEF FailInv, CrashInv, Unreadable
  <2>3. CodeInv'
    BY <2>1 DEF CodeInv
  <2> QED BY <1>1, <2>1, <2>2, <2>3, LeavingKeeps
<1>5. CASE error \notin {"missing", "reader"}
  <2>1. code' \in {"0", "1"}
    BY <1>1, <1>5
  <2>2. phase = "ended" => error = "none"
    BY <1>2 DEF IInv, PhaseInv
  <2>3. error \in {"ordering", "schema", "empty"} \/ phase = "ended"
    BY <1>1, <1>2, <1>3, <1>5 DEF FailInv
  <2>4. Read
    BY <1>1, <1>2, <2>3 DEF ReadInv
  <2>5. PrintedFine'
    BY <1>1, <1>2 DEF PrintedFine, Fine, Printable
  <2>6. EndedInv'
    BY <1>1, <1>2, <1>3, <1>5, <2>2, <2>3 DEF EndedInv, Within
  <2>7. CodeInv' /\ CrashInv'
    BY <2>1, <2>5, <2>6 DEF CodeInv, CrashInv
  <2> QED BY <1>1, <2>1, <2>4, <2>7, LeavingKeeps
<1> QED BY <1>4, <1>5

LEMMA InterruptKeeps ==
  ASSUME TInv, stage = "done", ToolInterrupt, UNCHANGED recordVars
  PROVE  TInv'
<1>1. /\ tool = "running" /\ phase \in {"reading", "sleeping"}
      /\ phase' = "abandoned"
      /\ tool' = "done" /\ code' = "interrupted" /\ connected' = FALSE
      /\ UNCHANGED <<paced, suppress, file, offset, error, lines, at, prevTs,
                     prevSleep, emitted, slept, opts, printed>>
  BY DEF ToolInterrupt, Returns, fileVars, stampVars
<1>2. CodeInv' /\ CrashInv'
  BY <1>1 DEF CodeInv, CrashInv
<1> QED BY <1>1, <1>2, LeavingKeeps

LEMMA ToolsNextHolds == TInv /\ [ToolsNext]_toolsVars => TInv'
<1> SUFFICES ASSUME TInv, [ToolsNext]_toolsVars PROVE TInv'
  OBVIOUS
<1>1. CASE Records
  BY <1>1, RecordsKeep
<1>2. CASE Replays
  BY <1>2, ScanKeeps, EnterKeeps, RunningKeeps, RefusesKeeps, PrintsKeeps,
     EndsKeeps, InterruptKeeps DEF Replays, ToolNext
<1>3. CASE UNCHANGED toolsVars
  <2>1. /\ UNCHANGED recordVars
        /\ UNCHANGED <<paced, suppress, file, connected, offset, phase, error, lines,
                       at, prevTs, prevSleep, emitted, slept>>
        /\ UNCHANGED <<opts, tool, code, printed>>
    BY <1>3 DEF toolsVars, allVars, vars, fileVars, stampVars, toolVars
  <2>2. IInv' /\ CaptureInv'
    BY <2>1, ParkedKeeps, RecorderGone DEF TInv, IInv, TypeOK
  <2>3. stage' = stage
    BY <2>1 DEF recordVars
  <2>4. StageInv' /\ FailInv' /\ ReadInv' /\ PrintInv'
    BY <2>1, <2>3 DEF TInv, StageInv, FailInv, ReadInv, PrintInv, Unreadable, Read,
                      Item, PrintedFine, Fine, Printable, Within
  <2>5. CodeInv' /\ CrashInv'
    BY <2>1 DEF TInv, CodeInv, CrashInv, Unreadable, Read, Item, PrintedFine, Fine,
                Printable, Within, RefusedInv, LimitInv, EndedInv
  <2> QED BY <2>2, <2>4, <2>5 DEF TInv
<1> QED BY <1>1, <1>2, <1>3 DEF ToolsNext

LEMMA ToolsInvariant == ToolsSpec => []TInv
BY ToolsInitHolds, ToolsNextHolds, PTL DEF ToolsSpec

-----------------------------------------------------------------------------
(* What the tool has printed, from the file alone. *)

(* A line that has been yielded is one line.                               *)
LEMMA YieldedOnce ==
  ASSUME IInv, NEW n \in 0 .. Len(emitted)
  PROVE  LET E == {emitted[k] : k \in 1 .. n}
         IN  IsFiniteSet(E) /\ Cardinality(E) = n
<1> DEFINE E == {emitted[k] : k \in 1 .. n}
           f == [k \in 1 .. n |-> emitted[k]]
<1>1. Len(emitted) \in Nat /\ 1 .. n \subseteq DOMAIN emitted /\ n \in Nat
  BY DEF IInv, TypeOK
<1>2. \A j, k \in 1 .. n : emitted[j] = emitted[k] => j = k
  <2> SUFFICES ASSUME NEW j \in 1 .. n, NEW k \in 1 .. n, emitted[j] = emitted[k]
               PROVE  j = k
    OBVIOUS
  <2>1. emitted[j] \in Nat /\ emitted[k] \in Nat
    BY <1>1, EmittedIsLine DEF IInv, TypeOK
  <2>2. ~(j < k) /\ ~(k < j)
    BY <1>1, <2>1 DEF IInv, EmittedInv
  <2> QED BY <1>1, <2>2
<1>3. f \in Bijection(1 .. n, E)
  <2>1. f \in Surjection(1 .. n, E)
    BY DEF Surjection
  <2>2. f \in Injection(1 .. n, E)
    <3>1. IsInjective(f)
      BY <1>2 DEF IsInjective
    <3>2. f \in [1 .. n -> E]
      OBVIOUS
    <3> QED BY <3>1, <3>2 DEF Injection
  <2> QED BY <2>1, <2>2 DEF Bijection
<1>4. IsFiniteSet(1 .. n) /\ Cardinality(1 .. n) = n
  BY <1>1, FS_Interval
<1>5. ExistsBijection(1 .. n, E)
  BY <1>3 DEF ExistsBijection
<1> QED BY <1>4, <1>5, FS_Bijection

(* Whatever way the tool came to an exit code, the lines it printed are    *)
(* ones to print; and unless it was the limit that ended it, they are all. *)
LEMMA PrintedAreToPrint ==
  ASSUME TInv, tool = "done", code \in {"0", "1"}
  PROVE  LET E == {emitted[k] : k \in 1 .. printed}
         IN  /\ E \subseteq ToPrint
             /\ RefusedInv \/ EndedInv => ToPrint = E
<1> DEFINE E == {emitted[k] : k \in 1 .. printed}
<1>1. IInv /\ StageInv /\ PrintedFine
  BY DEF TInv, CodeInv
<1>2. /\ Len(emitted) \in Nat /\ Len(lines) \in Nat
      /\ DOMAIN lines = 1 .. Len(lines) /\ DOMAIN emitted = 1 .. Len(emitted)
      /\ printed \in 0 .. Len(emitted) /\ suppress = TRUE
      /\ at \in 1 .. Len(lines) + 1
  BY <1>1 DEF IInv, TypeOK, PrintedFine, StageInv
<1>3. \A k \in 1 .. Len(emitted) :
        /\ emitted[k] \in 1 .. Len(lines) /\ emitted[k] < at
        /\ lines[emitted[k]].content \in MessageContents
  BY <1>1, <1>2, EmittedIsLine DEF IInv, EmittedInv, Yields
<1>4. \A i \in 1 .. at - 1 : lines[i].content \in MessageContents
                               => \E k \in 1 .. Len(emitted) : emitted[k] = i
  BY <1>1, <1>2 DEF IInv, EmittedInv, Yields
<1>5. \A k \in 1 .. printed : Fine(lines[emitted[k]])
  BY <1>1 DEF PrintedFine
<1>6. E \subseteq ToPrint
  <2> SUFFICES ASSUME NEW k \in 1 .. printed
               PROVE  emitted[k] \in ToPrint
    OBVIOUS
  <2>1. k \in 1 .. Len(emitted) /\ emitted[k] \in DOMAIN lines
          /\ Printable(lines[emitted[k]]) /\ emitted[k] < at /\ emitted[k] \in Nat
    BY <1>2, <1>3, <1>5 DEF Fine
  <2>2. \A j \in 1 .. emitted[k] : ~Stops(j)
    <3> SUFFICES ASSUME NEW j \in 1 .. emitted[k], Stops(j) PROVE FALSE
      OBVIOUS
    <3>1. j \in 1 .. at - 1 /\ j <= emitted[k]
      BY <1>2, <2>1
    <3>2. ~StopsAt(j)
      BY <1>1, <3>1 DEF IInv, StopInv
    <3>3. \/ lines[j].content = "poison"
          \/ lines[j].content = "unknown" /\ opts.strict
      BY <3>2 DEF Stops
    <3>4. PICK m \in 1 .. Len(emitted) : emitted[m] = j
      BY <1>4, <3>1, <3>3 DEF MessageContents
    <3>5. m \in 1 .. printed
      <4>1. ~(k < m)
        <5>1. k < m => emitted[k] < emitted[m]
          BY <1>1, <1>2, <2>1 DEF IInv, EmittedInv
        <5> QED BY <2>1, <3>1, <3>4, <5>1
      <4> QED BY <1>2, <4>1
    <3> QED BY <1>5, <3>3, <3>4, <3>5 DEF Fine, Printable
  <2> QED BY <2>1, <2>2 DEF ToPrint
<1>7. ASSUME RefusedInv \/ EndedInv, NEW i \in ToPrint
      PROVE  i \in E
  <2>1. /\ i \in 1 .. Len(lines) /\ lines[i].content \in MessageContents
        /\ \A j \in 1 .. i : ~Stops(j)
    BY <1>2 DEF ToPrint, Printable, MessageContents
  <2>2. CASE RefusedInv
    <3>1. /\ emitted # <<>> /\ opts.strict /\ printed = Len(emitted) - 1
          /\ lines[emitted[Len(emitted)]].content = "unknown"
      BY <2>2 DEF RefusedInv
    <3>2. Len(emitted) \in 1 .. Len(emitted)
      BY <1>1, <1>2, <3>1 DEF IInv, TypeOK
    <3>3. emitted[Len(emitted)] \in 1 .. Len(lines) /\ emitted[Len(emitted)] < at
      BY <1>3, <3>2
    <3>4. Stops(emitted[Len(emitted)])
      BY <3>1 DEF Stops
    <3>5. i < emitted[Len(emitted)]
      BY <2>1, <3>3, <3>4
    <3>6. PICK k \in 1 .. Len(emitted) : emitted[k] = i
      BY <1>2, <1>4, <2>1, <3>3, <3>5
    <3>7. k # Len(emitted)
      BY <2>1, <3>3, <3>5, <3>6
    <3>8. k \in 1 .. printed
      <4>1. \A l \in Nat : \A n \in 1 .. l : n # l => n \in 1 .. l - 1
        OBVIOUS
      <4> QED BY <1>2, <3>1, <3>6, <3>7, <4>1
    <3> QED BY <3>6, <3>8
  <2>3. CASE EndedInv
    <3>1. /\ printed = Len(emitted)
          /\ phase = "ended" \/ error \in {"ordering", "schema", "empty"}
      BY <2>3 DEF EndedInv
    <3>2. CASE phase = "ended" \/ error = "empty"
      <4>1. at = Len(lines) + 1
        BY <1>1, <3>2 DEF IInv, PhaseInv
      <4> QED BY <1>2, <1>4, <2>1, <3>1, <4>1
    <3>3. CASE error \in {"ordering", "schema"}
      <4>1. at <= Len(lines) /\ StopsAt(at)
        BY <1>1, <3>3 DEF IInv, PhaseInv, StopsAt
      <4>2. i < at
        BY <1>2, <2>1, <4>1 DEF Stops
      <4> QED BY <1>2, <1>4, <2>1, <3>1, <4>2
    <3> QED BY <3>1, <3>2, <3>3
  <2> QED BY <1>7, <2>2, <2>3
<1> QED BY <1>6, <1>7

LEMMA CountedUp ==
  ASSUME TInv, tool = "done", code \in {"0", "1"}
  PROVE  /\ printed \in Nat
         /\ opts \in Options /\ opts.limit \in Nat \cup {None}
         /\ RefusedInv \/ LimitInv \/ EndedInv
         /\ RefusedInv \/ EndedInv => Cardinality(ToPrint) = printed
         /\ Cardinality(ToPrint) \in Nat /\ printed <= Cardinality(ToPrint)
         /\ ToPrint = {} <=> Cardinality(ToPrint) = 0
<1> DEFINE E == {emitted[k] : k \in 1 .. printed}
<1>1. IInv /\ StageInv /\ PrintedFine /\ (RefusedInv \/ LimitInv \/ EndedInv)
  BY DEF TInv, CodeInv
<1>2. Len(emitted) \in Nat /\ Len(lines) \in Nat /\ DOMAIN lines = 1 .. Len(lines)
  BY <1>1 DEF IInv, TypeOK
<1>3. printed \in 0 .. Len(emitted)
  BY <1>1 DEF PrintedFine
<1>4. IsFiniteSet(E) /\ Cardinality(E) = printed
  BY <1>1, <1>3, YieldedOnce
<1>5. /\ E \subseteq ToPrint
      /\ RefusedInv \/ EndedInv => ToPrint = E
  BY PrintedAreToPrint
<1>6. IsFiniteSet(ToPrint)
  <2>1. IsFiniteSet(1 .. Len(lines))
    BY <1>2, FS_Interval
  <2>2. ToPrint \in SUBSET (1 .. Len(lines))
    BY <1>2 DEF ToPrint
  <2> QED BY <2>1, <2>2, FS_Subset
<1>7. Cardinality(ToPrint) \in Nat /\ printed <= Cardinality(ToPrint)
  BY <1>4, <1>5, <1>6, FS_Subset, FS_CardinalityType
<1>8. ToPrint = {} <=> Cardinality(ToPrint) = 0
  BY <1>6, FS_EmptySet
<1>9. opts \in Options /\ opts.limit \in Nat \cup {None}
  BY <1>1, OptionsAssumption DEF StageInv
<1>10. RefusedInv \/ EndedInv => Cardinality(ToPrint) = printed
  BY <1>4, <1>5
<1> QED BY <1>1, <1>2, <1>3, <1>7, <1>8, <1>9, <1>10

LEMMA CountIsRight == TInv => PrintsTheBeginning
<1> SUFFICES ASSUME TInv, tool = "done", code \in {"0", "1"}
             PROVE  IF opts.limit # None /\ Cardinality(ToPrint) >= opts.limit
                       /\ ToPrint # {}
                    THEN printed = (IF opts.limit = 0 THEN 1 ELSE opts.limit)
                    ELSE printed = Cardinality(ToPrint)
  BY DEF PrintsTheBeginning
<1> DEFINE n == Cardinality(ToPrint)
<1>1. /\ printed \in Nat
      /\ opts.limit \in Nat \cup {None} /\ None \notin Nat
      /\ RefusedInv \/ LimitInv \/ EndedInv
      /\ RefusedInv \/ EndedInv => n = printed
      /\ n \in Nat /\ printed <= n
      /\ ToPrint = {} <=> n = 0
  BY CountedUp, ConstantsAssumption
<1>2. CASE RefusedInv \/ EndedInv
  <2>1. Within(printed)
    BY <1>2 DEF RefusedInv, EndedInv
  <2>2. opts.limit # None => printed = 0 \/ printed < opts.limit
    BY <2>1 DEF Within
  <2> QED BY <1>1, <1>2, <2>2
<1>3. CASE LimitInv
  <2>1. /\ opts.limit # None /\ printed >= 1 /\ printed >= opts.limit
        /\ printed - 1 = 0 \/ printed - 1 < opts.limit
    BY <1>3 DEF LimitInv, Within
  <2>2. opts.limit \in Nat /\ n >= opts.limit /\ ToPrint # {}
    BY <1>1, <2>1
  <2>3. printed = IF opts.limit = 0 THEN 1 ELSE opts.limit
    BY <1>1, <2>1, <2>2
  <2> QED BY <2>1, <2>2, <2>3
<1> QED BY <1>1, <1>2, <1>3

LEMMA CodeIsRight == TInv => StrictIsStrict
<1> SUFFICES ASSUME TInv, tool = "done", code \in {"0", "1"}
             PROVE  /\ opts.strict /\ opts.limit = None =>
                         (code = "0" <=> /\ ToPrint # {}
                                         /\ \A i \in DOMAIN lines : ~Stops(i))
                    /\ ~opts.strict => code = "0"
  BY DEF StrictIsStrict
<1>1. /\ printed \in Nat
      /\ RefusedInv \/ LimitInv \/ EndedInv
      /\ RefusedInv \/ EndedInv => Cardinality(ToPrint) = printed
      /\ ToPrint = {} <=> Cardinality(ToPrint) = 0
  BY CountedUp
<1>2. IInv /\ StageInv /\ PrintedFine
  BY DEF TInv, CodeInv
<1>3. /\ Len(emitted) \in Nat /\ Len(lines) \in Nat
      /\ DOMAIN lines = 1 .. Len(lines) /\ DOMAIN emitted = 1 .. Len(emitted)
      /\ at \in 1 .. Len(lines) + 1 /\ emitted \in Seq(1 .. Len(lines))
  BY <1>2 DEF IInv, TypeOK
<1>4. ~opts.strict => code = "0"
  BY <1>1 DEF RefusedInv, LimitInv, EndedInv
<1>5. ASSUME opts.strict, opts.limit = None, code = "0"
      PROVE  ToPrint # {} /\ \A i \in DOMAIN lines : ~Stops(i)
  <2>1. EndedInv /\ phase = "ended" /\ printed = Len(emitted)
    BY <1>1, <1>5 DEF RefusedInv, LimitInv, EndedInv
  <2>2. at = Len(lines) + 1 /\ emitted # <<>>
    BY <1>2, <2>1 DEF IInv, PhaseInv
  <2>3. ToPrint # {}
    BY <1>1, <1>3, <2>1, <2>2
  <2>4. ASSUME NEW i \in DOMAIN lines, Stops(i) PROVE FALSE
    <3>1. i \in 1 .. at - 1
      BY <1>3, <2>2
    <3>2. ~StopsAt(i)
      BY <1>2, <3>1 DEF IInv, StopInv
    <3>3. lines[i].content \in {"poison", "unknown"}
      BY <2>4, <3>2 DEF Stops
    <3>4. PICK k \in DOMAIN emitted : emitted[k] = i
      BY <1>2, <3>1, <3>3 DEF IInv, EmittedInv, Yields, MessageContents
    <3>5. Fine(lines[i])
      BY <1>2, <1>3, <2>1, <3>4 DEF PrintedFine
    <3> QED BY <1>5, <3>3, <3>5 DEF Fine, Printable
  <2> QED BY <2>3, <2>4
<1>6. ASSUME opts.limit = None, code = "1"
      PROVE  ToPrint = {} \/ \E i \in DOMAIN lines : Stops(i)
  <2>1. CASE RefusedInv
    <3>1. /\ emitted # <<>> /\ opts.strict
          /\ lines[emitted[Len(emitted)]].content = "unknown"
      BY <2>1 DEF RefusedInv
    <3>2. emitted[Len(emitted)] \in DOMAIN lines
      BY <1>3, <3>1
    <3> QED BY <3>1, <3>2 DEF Stops
  <2>2. CASE EndedInv
    <3>1. error \in {"ordering", "schema", "empty"} /\ printed = Len(emitted)
      BY <1>6, <2>2 DEF EndedInv
    <3>2. CASE error = "empty"
      BY <1>1, <1>2, <2>2, <3>1, <3>2 DEF IInv, PhaseInv
    <3>3. CASE error \in {"ordering", "schema"}
      <4>1. at <= Len(lines) /\ StopsAt(at)
        BY <1>2, <3>3 DEF IInv, PhaseInv, StopsAt
      <4> QED BY <1>3, <4>1 DEF Stops
    <3> QED BY <3>1, <3>2, <3>3
  <2> QED BY <1>1, <1>6, <2>1, <2>2 DEF LimitInv
<1> QED BY <1>4, <1>5, <1>6

LEMMA PlaybackIsRight == TInv => CapturedIsPlayed
<1> DEFINE shown == {i \in DOMAIN captured : Printable(captured[i])}
           kinds == {captured[i].content : i \in DOMAIN captured}
<1> SUFFICES ASSUME TInv, tool = "done", code # "interrupted", opts.limit = None,
                    outcome # "killed", ~broken, shown # {}, ~SetBack,
                    "poison" \notin kinds, opts.strict => "unknown" \notin kinds
             PROVE  code = "0" /\ printed = Cardinality(shown)
  BY DEF CapturedIsPlayed
<1>1. CaptureInv /\ StageInv /\ ReadInv /\ CrashInv /\ stage = "done"
  BY DEF TInv, StageInv
<1>2. /\ captured \in Seq(Recorded) /\ captured # <<>> /\ file = captured
  BY <1>1 DEF CaptureInv
<1>3. file # Absent
  BY <1>2, RecordedAreLines, ConstantsAssumption
<1>4. \A i \in DOMAIN captured :
        /\ captured[i].content \in {"known", "unknown", "time", "refused"}
        /\ captured[i].ts \in Nat /\ captured[i].ts # Huge
        /\ captured[i] = [content |-> captured[i].content, ts |-> captured[i].ts]
        /\ opts.strict => captured[i].content # "unknown"
  <2> TAKE i \in DOMAIN captured
  <2>1. captured[i] \in Recorded /\ captured[i].content \in kinds
    BY <1>2
  <2>2. captured[i].ts \in Nat /\ captured[i].ts # Huge
    BY <2>1, CaptureAssumption, ConstantsAssumption DEF Recorded
  <2>3. captured[i].content \in {"known", "unknown", "time", "refused"}
    BY <2>1 DEF Recorded, C!Frames
  <2> QED BY <2>1, <2>2, <2>3 DEF Recorded
<1>5. [i \in DOMAIN file |-> Item(file[i])] = captured
  <2>1. \A i \in DOMAIN captured : Item(captured[i]) = captured[i]
    BY <1>4 DEF Item
  <2>2. captured = [i \in DOMAIN captured |-> captured[i]]
    BY <1>2
  <2> QED BY <1>2, <2>1, <2>2
<1>6. code \in {"0", "1"}
  <2>1. code # "crash"
    <3> SUFFICES ASSUME code = "crash" PROVE FALSE
      OBVIOUS
    <3>1. ~Unreadable(file)
      BY <1>2, <1>4 DEF Unreadable
    <3>2. ~\E i \in DOMAIN file : file[i].content \in {"bytes", "garbage"}
      BY <1>2, <1>4
    <3>3. Read => ~\E i \in DOMAIN lines : lines[i].content = "poison"
      BY <1>4, <1>5 DEF Read
    <3> QED BY <1>1, <1>3, <3>1, <3>2, <3>3 DEF CrashInv
  <2> QED BY <1>1, <2>1 DEF StageInv
<1>7. lines = captured
  BY <1>1, <1>5, <1>6 DEF ReadInv, Read
<1>8. \A i \in DOMAIN lines : ~Stops(i)
  <2> SUFFICES ASSUME NEW i \in DOMAIN captured, Stops(i) PROVE FALSE
    BY <1>7
  <2>1. OutOfOrderAt(i)
    BY <1>4, <1>7 DEF Stops, StopsAt
  <2>2. PICK j \in 1 .. i - 1 : lines[i].ts < lines[j].ts
    BY <2>1 DEF OutOfOrderAt
  <2>3. j \in DOMAIN captured /\ j < i
    BY <1>2, <2>2
  <2> QED BY <1>7, <2>2, <2>3 DEF SetBack
<1>9. ToPrint = shown
  <2>1. \A i \in DOMAIN lines : \A j \in 1 .. i : j \in DOMAIN lines
    BY <1>2, <1>7
  <2> QED BY <1>7, <1>8, <2>1 DEF ToPrint
<1>10. code = "0"
  BY <1>6, <1>8, <1>9, CodeIsRight DEF StrictIsStrict
<1>11. printed = Cardinality(shown)
  BY <1>6, <1>9, CountIsRight DEF PrintsTheBeginning
<1> QED BY <1>10, <1>11

(* run() of nls-replay, --limit and --strict: whatever is in the file,     *)
(* the number of lines printed when the tool answers is the number of      *)
(* messages before the first line that stops a replay, up to the limit.    *)
THEOREM PrintsUpToTheStop == ToolsSpec => []PrintsTheBeginning
BY ToolsInvariant, CountIsRight, PTL

(* D-25: with --strict and without a limit the tool answers 0 exactly for  *)
(* a file that has something to print and nothing to stop at; and without  *)
(* --strict it never answers 1.                                            *)
THEOREM StrictTellsTheTruth == ToolsSpec => []StrictIsStrict
BY ToolsInvariant, CodeIsRight, PTL

(* nls-record and nls-replay, one after the other: whatever the server     *)
(* sent, and whichever way but a kill the capture ended, what was captured *)
(* is played to its end, unless a write or the flush at close failed, the  *)
(* clock went back or a message is one the state or --strict refuses. Of a *)
(* capture the disk did not take nothing is promised: cli/record.py:202    *)
(* ends it like one whose connection was closed.                           *)
THEOREM CapturesArePlayable == ToolsSpec => []CapturedIsPlayed
BY ToolsInvariant, PlaybackIsRight, PTL
=============================================================================
