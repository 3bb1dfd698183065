------------------------------- MODULE Tools -------------------------------
(* nls-record writes a file that nls-replay reads: Capture and ReplayTool,  *)
(* one after the other, on one path.                                        *)
EXTENDS ReplayTool

CONSTANTS Feeds, Befores, Deadlines, MaxTime, WallTimes

VARIABLES stage, deadline, now, feed, buffered, open, captured, broken, outcome

C == INSTANCE Capture

ASSUME CaptureAssumption ==
  /\ Feeds \subseteq Seq(C!Frames)
  /\ Befores \subseteq Seq(Lines) \cup {Absent}
  /\ Deadlines \subseteq 0 .. MaxTime \cup {None}
  /\ MaxTime \in Nat /\ WallTimes \subseteq Nat

recordVars ==
  <<stage, deadline, now, feed, buffered, open, captured, broken, outcome>>

NotReplaying ==
  /\ paced \in BOOLEAN
  /\ suppress = TRUE
  /\ connected = FALSE
  /\ offset = FALSE
  /\ phase = "idle"
  /\ error = "none"
  /\ lines = <<>>
  /\ at = 1
  /\ prevTs = None /\ prevSleep = None
  /\ emitted = <<>>
  /\ slept = 0

ToolsInit == C!CaptureInit /\ ToolInit /\ NotReplaying

replayVars == <<paced, suppress, connected, offset, phase, error, lines, at, stampVars>>

Records == C!CaptureNext /\ UNCHANGED <<replayVars, toolVars>>

(* The recording is looked at when nls-record is gone.                      *)
Replays == stage = "done" /\ ToolNext /\ UNCHANGED recordVars

ToolsNext == Records \/ Replays

toolsVars == <<allVars, recordVars>>

ToolsSpec ==
  /\ ToolsInit /\ [][ToolsNext]_toolsVars
  /\ WF_toolsVars(C!Tick /\ UNCHANGED <<replayVars, toolVars>>)
  /\ WF_toolsVars(C!CaptureRuns /\ UNCHANGED <<replayVars, toolVars>>)

-----------------------------------------------------------------------------
(* Properties. *)

CaptureEnds == C!CaptureEnds

SetBack ==
  \E i, j \in DOMAIN captured : i < j /\ captured[j].ts < captured[i].ts

(* nls-record and nls-replay together: a recording whose writes the disk   *)
(* took is played back from its first frame to its last, in every mode,    *)
(* whatever ended the capture, unless the process was killed, the clock    *)
(* was set back or there is a message the state or --strict refuses. Of a  *)
(* capture that could not be written nothing is promised, though           *)
(* nls-record exits with 0 then too (cli/record.py:202, :210).             *)
CapturedIsPlayed ==
  LET shown == {i \in DOMAIN captured : Printable(captured[i])}
      kinds == {captured[i].content : i \in DOMAIN captured}
  IN (/\ tool = "done" /\ code # "interrupted" /\ opts.limit = None
      /\ outcome # "killed" /\ ~broken /\ shown # {} /\ ~SetBack
      /\ "poison" \notin kinds /\ (opts.strict => "unknown" \notin kinds))
       => code = "0" /\ printed = Cardinality(shown)
=============================================================================
