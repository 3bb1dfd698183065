----------------------------- MODULE ReplayTool -----------------------------
(***************************************************************************)
(* nls-replay (cli/replay.py): an optional scan of the file, then a client *)
(* over the replay transport (Replay) whose messages are applied to its    *)
(* state and printed, until the end, --limit, or something raises.         *)
(***************************************************************************)
EXTENDS Replay, FiniteSets

CONSTANTS
  Options      \* bound: the command lines

(* `fallback' is not an option: orjson is not installed.                   *)
ASSUME OptionsAssumption ==
  Options \subseteq [strict: BOOLEAN, summary: BOOLEAN, fallback: BOOLEAN,
                     limit: Nat \cup {None}]

VARIABLES
  opts,        \* the command line, once it is given
  tool,        \* where run() is
  code,        \* its exit code, or what it ended with
  printed      \* the lines printed

toolVars == <<opts, tool, code, printed>>
allVars == <<vars, toolVars>>

ToolInit ==
  /\ opts = None
  /\ tool = "start"
  /\ code = "none"
  /\ printed = 0

(* async with: the transport is closed before the exception goes on. The   *)
(* replay transport's close() does not suspend.                            *)
Returns(c) ==
  /\ tool' = "done"
  /\ code' = c
  /\ connected' = FALSE

(* The scan skips what it cannot decode, but only OSError is caught around *)
(* it; and what the decoder of the standard library raises is raised in    *)
(* the handler of the ImportError, not under the last except.              *)
ScanCrashes ==
  /\ file # Absent
  /\ \E i \in DOMAIN file :
       \/ file[i].content = "bytes"
       \/ file[i].content = "garbage" /\ opts'.fallback

Scan ==
  /\ tool = "start"
  /\ opts' \in Options
  /\ IF opts'.summary /\ ScanCrashes
     THEN Returns("crash")
     ELSE tool' = "entering" /\ UNCHANGED <<code, connected>>
  /\ UNCHANGED <<fileVars, offset, phase, error, lines, at, stampVars, printed>>

(* __aenter__ connects, messages() iterates. FileNotFoundError is no       *)
(* ReplayError.                                                            *)
Enter ==
  /\ tool = "entering"
  /\ file # Absent
  /\ Iterate
  /\ tool' = "running"
  /\ UNCHANGED <<opts, code, printed>>

EnterFails ==
  /\ tool = "entering"
  /\ file = Absent
  /\ Returns("crash")
  /\ UNCHANGED <<fileVars, offset, phase, error, lines, at, stampVars, opts, printed>>

Running ==
  /\ tool = "running"
  /\ Generator
  /\ UNCHANGED toolVars

(* A message is held. *)
Held == lines[emitted[Len(emitted)]].content

LimitReached == opts.limit # None /\ printed' >= opts.limit

(* The state raises while it applies the message, or --strict raises       *)
(* because nothing knows the PID.                                          *)
Refuses ==
  /\ tool = "running"
  /\ phase = "yielded"
  /\ \/ Held = "poison" /\ Returns("crash")
     \/ Held = "unknown" /\ opts.strict /\ Returns("1")
  /\ phase' = "abandoned"
  /\ UNCHANGED <<fileVars, offset, error, lines, at, stampVars, opts, printed>>

(* Mutant: --limit is compared before the message is counted.              *)
PrintsBeyondLimit ==
  /\ tool = "running"
  /\ phase = "yielded"
  /\ Held # "poison" /\ ~(Held = "unknown" /\ opts.strict)
  /\ printed' = printed + 1
  /\ IF opts.limit # None /\ printed >= opts.limit
     THEN Returns("0") /\ phase' = "abandoned"
     ELSE phase' = "looping" /\ UNCHANGED <<tool, code, connected>>
  /\ UNCHANGED <<fileVars, offset, error, lines, at, stampVars, opts>>

Prints ==
  /\ tool = "running"
  /\ phase = "yielded"
  /\ Held # "poison" /\ ~(Held = "unknown" /\ opts.strict)
  /\ printed' = printed + 1
  /\ IF LimitReached
     THEN Returns("0") /\ phase' = "abandoned"
     ELSE phase' = "looping" /\ UNCHANGED <<tool, code, connected>>
  /\ UNCHANGED <<fileVars, offset, error, lines, at, stampVars, opts>>

(* Mutant: --strict is forgotten where a replay error is caught.           *)
EndsLeniently ==
  /\ tool = "running"
  /\ phase \in {"ended", "failed"}
  /\ Returns(IF error \in {"missing", "reader"} THEN "crash" ELSE "0")
  /\ UNCHANGED <<fileVars, offset, phase, error, lines, at, stampVars, opts, printed>>

(* The iterator ends or raises: a ReplayError is an answer, what the       *)
(* reader raises is not.                                                   *)
Ends ==
  /\ tool = "running"
  /\ phase \in {"ended", "failed"}
  /\ Returns(IF error \in {"missing", "reader"} THEN "crash"
             ELSE IF error # "none" /\ opts.strict THEN "1" ELSE "0")
  /\ UNCHANGED <<fileVars, offset, phase, error, lines, at, stampVars, opts, printed>>

(* Ctrl-C cancels run() at an await.                                       *)
ToolInterrupt ==
  /\ tool = "running"
  /\ phase \in {"reading", "sleeping"}
  /\ Returns("interrupted")
  /\ phase' = "abandoned"
  /\ UNCHANGED <<fileVars, offset, error, lines, at, stampVars, opts, printed>>

ToolNext ==
  \/ Scan \/ Enter \/ EnterFails
  \/ Running \/ Refuses \/ Prints \/ Ends
  \/ ToolInterrupt

-----------------------------------------------------------------------------
(* What the file alone says the tool does. *)

Printable(l) == l.content \in {"known", "unknown"}

(* It goes no further than this line.                                      *)
Stops(i) ==
  \/ StopsAt(i)
  \/ lines[i].content = "poison"
  \/ lines[i].content = "unknown" /\ opts.strict

ToPrint ==
  {i \in DOMAIN lines : Printable(lines[i]) /\ \A j \in 1 .. i : ~Stops(j)}

(* run() with --strict, --limit and errors: the number of lines printed is *)
(* what can be printed up to the first line that stops a replay, or the    *)
(* limit, where --limit 0 prints a line too.                               *)
PrintsTheBeginning ==
  tool = "done" /\ code \in {"0", "1"} =>
    IF opts.limit # None /\ Cardinality(ToPrint) >= opts.limit /\ ToPrint # {}
    THEN printed = (IF opts.limit = 0 THEN 1 ELSE opts.limit)
    ELSE printed = Cardinality(ToPrint)

(* --strict, D-25: an exit code 0 without a limit means that there was a   *)
(* message to print, that every message the replay yields was known, and   *)
(* that no line stopped it. A line that is skipped, though with a warning, *)
(* does not count: see StrictSeesWarnings. Without --strict the tool never *)
(* says 1.                                                                 *)
StrictIsStrict ==
  tool = "done" /\ code \in {"0", "1"} =>
    /\ opts.strict /\ opts.limit = None =>
         (code = "0" <=> ToPrint # {} /\ \A i \in DOMAIN lines : ~Stops(i))
    /\ ~opts.strict => code = "0"

-----------------------------------------------------------------------------
(* What the documentation says and the code does not do. *)

(* "--strict flips this to 1 on any WARNING-level event" (cli/replay.py:   *)
(* 17): after an exit code 0 no line was skipped with a warning, as one    *)
(* that is torn is, and one the parser refuses.                            *)
StrictSeesWarnings ==
  tool = "done" /\ code = "0" /\ opts.strict /\ opts.limit = None =>
    \A i \in DOMAIN lines : lines[i].content \notin {"garbage", "refused"}
=============================================================================
