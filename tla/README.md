# Formal models of aionlslivetiming

TLA+ specifications of the core of `aionlslivetiming` (the Python package under
`src/src/aionlslivetiming/`), the TLC configurations that check them and the
TLAPS proofs of what holds for every instance. Paths below are relative to that
package unless they start with `src/`.

## 1. The system

The package is an asyncio client of the NLS live timing WebSocket. One event
loop runs everything; there are no threads, so code between two awaits that
really suspend is atomic, and every hazard of concurrency comes from tasks that
interleave at awaits and from cancellation, which is delivered at one.

| Component | State it keeps | Operations | Talks to |
|---|---|---|---|
| Live transport (`transport/websocket.py`, `_connection.py`) | life-cycle flags, reader and watchdog task, three queues, the pending exception, a `_ConnectionState` per session | `connect`, `close`, `messages`, `time_sync`, `lts_not_found`; the reader task (sessions, reconnection), the idle watchdog | server, parser, its consumers over queues |
| Transport protocol and shared types (`transport/base.py`) | the clock offset | `ReconnectPolicy`, `ClockOffset`, `LTSNotFoundEvent` | all transports |
| Recorder (`transport/recorder.py`, `recorder_wrapper.py`) | queue, writer task, closed/enabled flags, the file | `append`, `set_enabled`, `close`, the writer loop; `RecordingTransport` wraps any transport | inner transport, the file |
| Replay transport (`transport/replay.py`) | path, clock offset | iterate: classify each line, check the order, pace | a recording, the parser |
| Race state (`state/race_state.py`, `persistence.py`, `car.py`, `lap.py`, `track.py`) | cars, track, messages and their keys, laps, tables, best sectors, source, freshness | `apply`, `clear`, `set_source`, `to_json`, `from_json`, `import_json` | fed by the client, read by the filter |
| Filter (`state/filter.py`) | the criteria | builder methods, `cars()` | the race state |
| Client (`client.py`) | transport, state | `messages` (applies and yields), `time_sync`, `lts_not_found`, context manager | transport, state |
| Parser and events (`parser/`, `events/`) | none | `parse` | transports |
| Command line tools (`cli/`) | capture loop, options | `nls-record`, `nls-replay` | sockets, files, replay |
| HTTP laps data (`http/laps_data.py`) | none | one request | server |

What makes each one correct, and what makes that hard:

* **Live transport.** No consumer may wait for ever on a transport that is dead;
  `close()` must end every task and every stream whatever the reader was
  doing; nobody but the policy may stop the retries, and they stop after
  exactly `max_attempts`; errors come with the event that explains them. Hard:
  the reader is cancelled from three places (the `terminate` policy inside the
  reader itself, the watchdog, `close()`), at any await, also inside the
  socket's `__aexit__`, where a cancellation replaces the exception under way;
  a transport may be connected again while old consumers still hold items.
* **Recorder.** What was accepted is written once, in order, and completely when
  the recorder is closed; a failure is told to somebody; an interrupted write
  costs its own line and the first of the next run, or, where it was cut inside
  a character, the replay of the whole file. Hard: `append` only queues; the
  writer fails long before anybody awaits it; the consumer goes on taking
  messages that the closed inner transport still has; a run appends to the file
  of an interrupted one; orjson writes text as raw UTF-8, which may be cut
  anywhere, and a reader decodes all of a file or nothing.
* **Race state.** The state is a function of the messages heard: of race
  messages the first of each key, of a lap the row sent last (unless the message
  overflowed on the way), of a sector the least value. Hard: the server repeats and corrects; a snapshot is restored
  and then a recording that overlaps it is replayed, so every reducer has to be
  idempotent not only for a repeated message but for a repeated stretch of
  the log.
* **Replay.** What is yielded, what it is paced by, and whether and where the
  replay stops depend on the lines and on nothing else. Hard: four lines that
  are no message are skipped, suppressed, or end it, each with its own effect on
  the order check, the pacing and on what counts as an empty file; one line that
  cannot be read ends the reading of all of them.
* **Client.** The three copies of what was heard (the state, the recording, what
  the consumer got) agree, over crashes and restarts; leaving the block tells of
  a loss. Hard: the recording is written behind the consumer's back, `__aexit__`
  swallows cancellations, and the wall clock that stamps the lines may be set
  back, which replay takes for corruption.
* **Parser and filter.** The cars are what the last frame that sets them says,
  under either name of a field; the answer of a query depends on the calls and
  the state alone. Hard: zeros that are values, values that are missing, frames
  that raise, calls that add up next to calls that replace.
* **Tools.** A capture that was not killed, and that the disk took, can be
  replayed from its first frame to its last; exit codes and counts mean what the
  options say. Hard: the ways a capture ends, of which a disk that is full is one
  that looks like any other, and the ways an error takes through `nls-replay`.

`PROJECT.json` lists the hazards with the line where each bites and the
properties that would catch it.

## 2. Modules

| Module | What it is |
|---|---|
| `MessageStream` | Abstract: what a live transport promises its consumers |
| `LiveTransport` | The live transport, one action per stretch between suspensions |
| `LiveTransportHistory` | `LiveTransport` with counters of its own beside the code's |
| `MCLiveTransport`, `MCLiveTransportHistory` | Instances for TLC |
| `LiveTransportProofs` | Proofs about both, and that `LiveTransport` implements `MessageStream` |
| `Recording` | Recorder and `RecordingTransport` over crashes and restarts |
| `MCRecording`, `RecordingProofs` | Instance, proofs |
| `RaceState`, `RaceStateProofs` | The reducers and the snapshot as operators on one state; lemmas about them |
| `RaceCache` | A state machine that feeds, clears, saves, restores, replays, imports |
| `MCRaceCache`, `RaceCacheProofs` | Instance, proofs |
| `Replay` | The replay transport on every file |
| `MCReplay`, `ReplayProofs` | Instance, proofs |
| `Session` | A recording client, run after run, and what a replay of its recording gives |
| `MCSession`, `SessionProofs` | Instance, proofs |
| `Capture` | `nls-record` |
| `ReplayTool` | `nls-replay` around `Replay` |
| `Tools` | The two, one after the other, on one path |
| `MCTools`, `ToolsProofs` | Instance, proofs |
| `Parser` | `parse()` as operators on JSON values |
| `Filter` | The query builder and `cars()` as operators on a race state |
| `Query` | A state machine that hears frames, imports and asks |
| `MCQuery`, `QueryProofs` | Instance, proofs |

`RaceCache` composes with `RaceState` by EXTENDS, and so does `Query` with
`Parser` and `Filter`, `ReplayTool` with `Replay`, and `Tools` with `ReplayTool`;
`Tools` takes `Capture` by INSTANCE. `Session` is a composition of three: it
extends `Recording` and `RaceState` and instantiates `Replay` on the file that was
recorded. `LiveTransport` implements `MessageStream` by INSTANCE with a refinement
mapping. A few operators in the
modules describe defective variants of an action and say so in their comment;
they show that each property depends on the code it is about.

### LiveTransport

`reader` is where the reader task is suspended: the initial random `offset`,
`connecting`, receiving `frames`, `exiting` the socket, in `backoff`, or `done`.
`outcome` says how the session or the task ended. A cancellation is `sent`
(delivered at the pending await) or `latent`: the reader that cancels itself
under the `terminate` policy keeps the loop until it next suspends, and still
handles frames that are buffered. While it is latent no other task runs
(`LoopFree`).

| Actions | Code |
|---|---|
| `Connect`, `Iterate` | `connect` 279-295, also called by `messages` 320-324 |
| `StartSession`, `OpenSocket`, `ConnectFails`, `SessionEnds`, `CloseSocket`, `DeliverCancel`, `ReachSuspension` | `_reader_loop` 366-412, `_session_loop` 414-441 |
| `FrameUndecodable`, `FrameSkipped`, `FrameTimeSync`, `FrameMessage`, `Lts...` | `_handle_frame` 443-484, `_handle_lts_not_found` 486-521, `_classify` 523-533 |
| `GoIdle`, `GrowOld`, `RunLong` | time, as the comparisons the code makes with it |
| `Watchdog...` | `_idle_watchdog` 535-550 |
| `Close`, `CloseGotReader`, `CloseFinishes` | `close` 297-314, split at its two awaits |
| `NextItem`, `TakeData`, `TakeSentinel`, `Resume`, `Abandon` | the three async generators 320-362 |

An `asyncio.Queue` is everything ever put on it and the number taken; a frame
is its kind, which is what the handler branches on, and a serial number. The
exception of an LTS_NOT_FOUND carries the reason the code writes into it and the
classification it was raised for.

### Recording

Messages are numbers. The file is a sequence of pieces that end in a newline
(`line`), just before it (`text`), earlier (`torn`) or earlier and inside a
character (`split`). `Parses` says which of them replay (`transport/replay.py`
180-208) can make a message of and `Decodes` whether it can read the file at
all; `Readable` is both. The writer drains its
queue without suspending, so nothing else runs while it is `draining`; it is
`waiting` otherwise. `Crash` ends the process at any point and begins the next
run on the same file. `CloseCancelled` is what asyncio does to a task that
awaits another: cancelling `close()` cancels the writer.

### RaceState and RaceCache

A state is a record with the fields of the class; what the reducers only store
is an opaque value. `Apply`, `Clear`, `ToJson` and `FromJson` are the functions
of the code; `RaceCache` has one action for each call, a log of the messages
heard, and a second state that is restored from the snapshot and replays the
log from any message up to the one the snapshot was taken after. Conversions
are kept where they matter: a number the server leaves out becomes zero, an
`int()` that overflows raises in the middle of a message, and `sort_keys`
orders the cars of a snapshot by the text of their numbers.

### Replay

A line is what the reader and the parser make of it (`content`) and its stamp. A
line with a stamp that `int()` overflows on, and one that is not UTF-8, make the
reading of the whole file raise (`Unreadable`).

| Actions | Code |
|---|---|
| `Connect`, `Close`, `Vanish` | `connect`, `close` 97-105; somebody removes the file |
| `Iterate`, `ReadLines`, `ReadFails` | `__aiter__` 112-121, the reader thread 175-208 |
| `OutOfOrder`, `MissingRaw`, `SkipLine`, `SuppressTimeSync` | 123-153, in that order of precedence |
| `Sleep`, `Wake`, `EmitAtOnce` | 157-170 |
| `Finish`, `Resume`, `Abandon` | 172-173; the consumer |

`phase` is where the generator is suspended; between two suspensions nothing else
runs (`LoopFree`). `slept` counts the sleeps in the recording's own time, before
the division by `speed_factor`, so that pacing is exact or wrong, never rounded.

### Session

`Hear` is `messages()` of the client over `RecordingTransport`: the recorder's
`append` and `state.apply` without a suspension between them. `Leave` and `Exit`
are `__aexit__` around the `close()` of `Recording`, which suppresses
CancelledError. `Stamp` adds to each piece of the file the reading of a clock
that may be set back. `Restart` is the next run, with an empty state or with one
that a replay of the recording has given: `LineOf` says what line the reader of
`Replay` finds where a piece is, bytes it cannot decode included, `Yielded` takes
what `Replay` would yield of them, which is nothing when the reader raises, and
`Replayed` applies it until a message raises.

### Capture, ReplayTool and Tools

`Capture` follows `run()` of `cli/record.py` from the connection to the closed
file, with `stage` for the await it is at; `now` is the monotonic clock, which
cannot pass a deadline the program waits for. `file` differs from `captured` until
the `with` statement is left: `Kill` leaves what the buffer of a file object may
leave (`Remains`), a character cut in two included. So does a write that fails, in
the loop (`Receive`) or when the file is closed (`StopsWith`): the program takes
its OSError for a closed connection and answers 0, and `broken` remembers it.
`ReplayTool` adds to `Replay` the scan of
`--summary`, the loop that prints, `--strict`, `--limit` and the exit code. `Tools`
runs the second when the first is gone, on the file it left.

### Parser, Filter and Query

A JSON value is a record of its form (`null`, `number`, `digits`, `word`, `huge`,
`nan`, `list`, `map`), the number `int()` reads in it and the text `str()` makes of
it: the parsers branch on nothing else. There is one operator for each parser
and helper; `Raised` is a frame on which `parse()` raises and which its caller
drops. `Filter` keeps the fields of the class as a record; `Query` has one action
for a frame (parsed and applied), an import, a call of the builder, and a new
builder.

## 3. Runs

Runs that must pass:

| Run | Question and result | Bounds |
|---|---|---|
| `live_safety` | Is anything unreported, left behind or retried wrongly, and does the transport implement `MessageStream`? (`ErrorIsReported`, `CloseLeavesNothing`, `CancelledNeverReconnects`, `ImplementsStream`) | a consumer of `messages()` and one of `time_sync()`, 2 frames of 5 kinds, 2 lives, unlimited attempts, overflow at 1 |
| `live_progress` | Is a consumer forgotten, does the loop give up in time, does `close()` come back and wake the consumers, is a lost session retried or reported? (`NoForgottenReceiver`, `GivesUpExactly`, `CloseCompletes`, `CloseUnblocks`, `LossIsRetriedOrReported`) | a consumer of `messages()` and one of `lts_not_found()`, 2 frames of 5 kinds, 1 life, `max_attempts` 1, fairness |
| `recording` | Is what was accepted written, once, in order, and is failure told? (`RecordedInOrder`, `FinishedMeansFlushed`, `LossIsBounded`, `FileOnlyGrows`, `CloseReports`, `AcceptedIsWritten`, `CloseCompletes`) | 3 messages, 3 runs of the program |
| `replay` | Does the replay do what the lines say? (`EmittedInOrder`, `PacingIsExact`, `EndsAsTheFileSays`, `ReplayEnds`) | every file of 3 out of 14 lines, iterated any number of times |
| `session` | Do state, recording and replay agree, and is loss told? (`LeavingTellsLoss`, `OfflineIsLive`, `OnlyASuffixIsLost`) | 4 scripts of 2 messages, 2 runs, 2 readings of the clock |
| `tools` | Can a capture be replayed, and what do exit codes and counts say? (`CapturedIsPlayed`, `PrintsTheBeginning`, `StrictIsStrict`, `CaptureEnds`) | 5 feeds of 2 or 3 frames, 3 files before, deadlines none or 1, 2 readings of the clock |
| `query` | Are the cars those of the frames, and the answer that of the calls? (`CarsAreOfTheRows`, `CarsAsAsked`) | 2 of 16 frames and 2 snapshots, one of them without cars, 3 of 14 calls |
| `race_cache` | Is the state what the log says, and does a restored one catch up? (`MessagesOnce`, `LapsAreLatest`, `BestsAreMinima`, `Idempotent`, `RoundTrip`, `CatchesUp`) | logs of 3 out of 13 messages |

Why the bounds are enough. Two frames let a frame follow any other: the
classifier's memory is a pair of flags that one frame sets and the next reads.
Two lives let something survive from one to the next, and a third adds nothing:
only the current queues, `pendingExc` and what the consumers hold are shared.
With `max_attempts` 1 the loop backs off once and gives up once, and the
counter is also reset by a long session; without a limit it runs into the
overflow of the backoff, put at the first attempt instead of the 1024th. The
overflow, which stops `close()` half way, is met in `live_safety` only, where
`CloseLeavesNothing` names it as its exception; `CloseUnblocks`, which it would
break, is checked where the limit keeps it out of reach. The
two runs share the kinds of frames: each has those its properties tell apart. Three runs of the recorder let a torn
line of one run meet the next and that one be interrupted as well; three
messages let one be written, one queued and one still to come. Three messages
in a log are two that meet in one key and one between or before them; the
messages are chosen so that every kind with a history has two that meet, within
one message and over two. Three lines let one be skipped or suppressed between
two that are compared, with every order of their stamps; all properties of
`replay` but `ReplayEnds` are also proved for every file. Two messages and two
runs let a line be torn in one run and written on in the next, a message raise in
one and be met by the replay of the other, and the clock be set back between
two lines. The feeds have every kind of frame first and behind another, and a
third that shows whether the program went on; a deadline of 1 is met before,
while and after frames arrive. Three calls are two of a kind and one of another,
asked of a state that a second frame may have changed. The proofs of section 5
remove the bounds for every invariant and action property.

Runs that must find a violation, each of a sentence in the sources:

| Run | The sentence | What happens |
|---|---|---|
| `doc_watchdog` | `websocket.py:536` "force reconnect" | The watchdog cancels the reader task itself, which ends for good; the consumers of `messages()` wait for ever |
| `doc_lateappend` | `recorder_wrapper.py:99` "so no more messages flow into the recorder" | A queued message meets the closed recorder, and `append` raises into the consumer |
| `doc_sectorfilter` | `filter.py:116`, `car.py:19` | `sector_time_lt` reads a map nothing fills and finds no car |
| `doc_strict` | `cli/replay.py:17` "flips this to 1 on any WARNING-level event" (also :51, :178) | A capture that was killed ends in a torn line, which the replay logs a warning of and skips; the tool exits 0 under `--strict` |

Other divergences are visible in the models but have no run of their own.

* `connect()` does not clear the pending exception, so one that nobody took is
  raised by an iterator of the next life (`websocket.py:257` says "read+cleared by
  the iterator on EXHAUSTED").
* Every session begins with an empty `_ConnectionState`: after a reconnect a
  finished race is classified `not_yet_started` (`base.py:66` says "a previous
  TrackStateMessage had FINISHED/CHEQUERED").
* The consumer holds a message that is only queued for writing
  (`recorder_wrapper.py:109` says "only after it has been written to the recorder").
* A run that follows a torn line appends its first line to it, and replay skips
  both (`recorder.py:147` says sessions "on the same path concatenate"). This is
  why `LossIsBounded` allows one lost line a run and `OfflineIsLive` excepts it.
* A line torn inside a character makes `open(..., encoding="utf-8")` raise for the
  file as a whole (`transport/replay.py:188`): not one message of any run is
  replayed, though a line that is no JSON is only skipped. `LossIsBounded` and
  `OnlyASuffixIsLost` have it as a case of its own, in which nothing is left.
* `nls-record` answers 0, as at a remote close, when a write or the flush at the
  end has raised OSError and frames are missing in the file
  (`cli/record.py:202` and :210; :121 lists "success, normal termination, Ctrl-C
  or remote close"). `CapturedIsPlayed` leaves such a capture out.
* A row whose number `int()` overflows on ends `_apply_per_car_laps` with an
  exception, and the good rows behind it are lost (`race_state.py:331`; :12 says
  "a malformed message is dropped, not raised"). `LapsAreLatest` leaves out laps
  of such a message, and demands of them only that no time was made up.
* Skipped and suppressed lines do not count as previous lines in the ordering
  check (`exceptions.py:119` says "across consecutive lines").
* `RecordingTransport` has no `clock_offset`, `time_sync` or `lts_not_found`, so a
  recording client shows none (`client.py:223` says all three transports do).
* `parse()` raises on a number that `int()` overflows on, a `best` that is NaN, a
  `TOD` whose value is null, a `MESSAGES[0]` that is no object, and a number in
  the place of a table (`parser/__init__.py:61` says "never raises").
* `by_class` and `by_starting_no` add up (`filter.py:49` says that all dimensions
  but the driver "use the latest value").
* `--limit 0` of `nls-replay` prints a message. What `StrictIsStrict` shows of
  `--strict` is what the code does: skipped lines do not count (`doc_strict`).
* Ctrl-C ends `nls-record` with KeyboardInterrupt and not with code 0
  (`cli/record.py:121`): asyncio cancels the task, and CancelledError is no
  Exception. On the file it has no effect: it is closed all the same.
* `ended` is true after a finished race although nothing was terminated
  (`websocket.py:274`), and an LTSNotFoundError always says `unknown_event`
  (`websocket.py:510`).
* A normal closure is followed by a backoff and another session;
  `_RECONNECT_CLOSE_CODES` is never read.
* Sessions answered with `not_yet_started` use up `max_attempts`.
* With unlimited attempts the delay of attempt 1024 raises OverflowError outside
  of the try statement; the reader dies silently and `close()` then raises.
* After a `close()` of the recorder that raised or was cancelled, the next one
  returns at once, as if everything had been written.
* `from_json` reads most missing fields as empty (`persistence.py:68` says it
  never does), and nothing ever sets the source IMPORTED.
* A sector row without a value has the value 0, which no later time beats; a car
  without a position has position 0 and sorts first.
* Cars that share a position may change places over `to_json` and `from_json`.

## 4. Fairness

Safety needs none. `live_progress` and `doc_watchdog` assume weak fairness of
the reader, the watchdog, `close()` and the consumers: asyncio runs every task
that can run, and the awaits of these tasks end by themselves (`open_timeout`
and `close_timeout` in `_WS_OPEN_KWARGS`, sleeps, cancelled tasks). Nothing is
assumed of the server, of the passing of time, or of the user: frames may
never come, a session may never end, nobody has to call `close()`. That is why
a reader that waits for frames is no counterexample to
`LossIsRetriedOrReported`, and a forgotten consumer is one to `doc_watchdog`.
`recording` assumes weak fairness of the writer and of closing, the inner
`close()` included, which `CloseCompletes` of `LiveTransport` shows for the
live transport. A crash is never assumed to happen or not to.
`replay` assumes weak fairness of the generator (the reader thread and the
sleeps come back) and of the consumer that asks for the next message, but not
that it never gives up. `tools` assumes that time passes and that `nls-record`
takes the step it can take: connecting, receiving with a timeout and closing end
by themselves. Nothing is assumed of the server, which may send nothing and never
close; that is what `CaptureEnds` is about.

## 5. Proofs

All theorems are proved by TLAPS for every value of the constants that
satisfies the ASSUMEs of the modules.

`LiveTransportProofs`: `TypeCorrect`, `ReceiverNotForgotten`, `ErrorsAreReported`,
`NothingLeftByClose`, `NoReconnectAfterCancel`. The inductive invariant `IInv`
joins the type with five parts: which tasks exist (`TaskInv`), that a cancelled
reader that still runs has its CancelledError coming or is closing the socket
for it (`CancelInv`), what a closed transport looks like (`ClosedInv`), how the
stream of messages learns that the reader is gone (`EndInv`), and that
consumers wait on queues that exist (`ConsumerInv`). None of the properties is
inductive alone: that a receiver is not forgotten needs to know that a cancelled
reader was cancelled by somebody who ends the stream, and that needs the life
cycle of `close()`. That items are never removed from a log is a lemma about
every step (`StepGrows`) that the parts share.

The same module proves the refinement, `TransportImplementsStream`. A start maps
to `Open`, a frame to `Receive`, giving up to `Exhaust`, the last step of `close()` to
`Close`, a take to `Take`, and every other step changes nothing the abstract
specification sees. `IInv` is needed to know that a reader that runs belongs to a
connected life, and that a consumer takes from a queue that exists.
And it proves `GivesUpOnTime` of `LiveTransportHistory`: `LostInv` says that the
code's counter is the number of sessions lost while the reader runs; the type
invariant bounds it.

`RecordingProofs`: `TypeCorrect`, `InOrder`, `Flushed`, `GrowsOnly`, `CloseTells`,
`OneLineLostPerRun`.
The invariant adds that accepted messages are numbered upwards and newer than
all the file held when the run began (`OrderInv`), and that until it fails the
writer has written exactly what it took (`WriterInv`). `CloseTells` needs one
more, about the order of the two closes (`CloseInv`). `OneLineLostPerRun` counts:
a run breaks at most its last piece (`BrokenInv`), and in a file that decodes each
whole line that cannot be read follows a broken piece of an earlier run, no two
the same. For a file that does not decode it says only who did it: an earlier
run, or this one's writer when it failed.

`RaceStateProofs` has the lemmas about the operators that several modules use: that
`Min` and `Max` return the least and the greatest (`MinIsLeast`, `MaxIsGreatest`), that
a finite set can be sorted by a strict order (`SortingExists`: put each element where
the number of elements up to it says) and what a sorted sequence holds
(`EachOnce`, `SortedInterval`), what `CarsOf` makes of the rows (`CarsOfHoldsRows`), that
a snapshot has the same cars in another order (`SavedCars`), and that `apply()` never
looks at the label of a state (`ApplyLabelled`).

`RaceCacheProofs`: `TypesOK`, `RaceMessagesOnce`, `LapTimesLatest`,
`SectorBestsLeast`, `Idempotence`, `SavedComesBack`, `CopyCatchesUp`, for every set of
messages and labels and any length of the log. The invariant says that the state fits the log
and the snapshot fits the part of the log it was taken after: each field is the
function of the log that the properties name. `CopyCatchesUp` follows from two facts
about these functions: a second state always fits some stretch of the log that begins
at or before the snapshot (`CopyFits`), and two states that fit the same log are the
same but for the order of their cars. `LapTimesLatest` is about the rows that were
sent. The induction carries the rows the reducer stored (`HoldsStored`), which is
all a step knows, and `StoredOrCut` and `StoredIsLatest` lead from these to those:
a row that was sent and not stored is one of a message that raised, and its
lap is then exempt. All of them assume `DamageIsDetected`: a snapshot with missing fields lacks one
that `from_json` insists on, as those of the run `race_cache` do. Without it
they are false: a document that lost its laps is imported as one that has none.

`ReplayProofs`: `TypeCorrect`, `InOrder`, `EndIsRight`, `Pacing`, for every set of
files. `IInv` says what was yielded of the lines before `at` (`EmittedInv`), that
none of these ends the replay (`StopInv`), which stamp is kept and that it bounds
all that were yielded (`StampInv`), that what was slept is the distance between
the first stamp yielded and the last (`PaceInv`), and what each phase knows
(`PhaseInv`). `EndIsRight` needs `StampInv`: the code compares a line with the
last stamp yielded, the property with all of them.

`SessionProofs`: `ClientImplementsRecording`, `SessionTypeCorrect`, `LeavingTells`,
`LosesASuffix`, `OfflineEqualsLive`, for every script, clock and number of runs. A step of
the session is a step of `Recording`, so the invariant of `RecordingProofs` holds in
it; `ExitInv` adds how the block is left and that outside of it the recorder is
closed and its writer done. The other two need to know what a replay of the
whole file gives. `YieldsAll` says it of a file whose pieces but the last are whole
lines, with stamps that never go back: every piece is yielded, but for a torn last
one, and none when that is torn inside a character; and `ConsumeAppend` that one more message is one more `Apply`, unless one before
it raised. `LosesASuffix` follows from these and from `BrokenInv`. For
`OfflineEqualsLive` the invariant `StateInv` says that, but for its label, the
state is what the messages of the file when the run began and those accepted since
make of an empty one, and `DiedInv` that a message that raised was the last. Neither
is about the file as it is now: the writer may be any number of messages behind, and
only `LeavingTells` brings the two together at the end.

`ToolsProofs`: `PrintsUpToTheStop`, `StrictTellsTheTruth`, `CapturesArePlayable`, for
every feed, deadline, file that was there before and reading of the clock. `TInv`
joins the invariant of `ReplayProofs`, which holds of the iterations inside the
tool, with what each stage of the capture has written, as long as no write has
failed, and what the loop has printed of the lines yielded so far.

`QueryProofs`: `CarsAreHeard`, `AnswersAsAsked`, for every set of frames, snapshots and
calls. `CarsInv` says that the cars are those of the last item heard that sets them,
`CallsInv` that each criterion is the one its last call has set, or the union of
all of its calls. The answer is then sorted and cut: that it is in order and
complete rests on `SortingExists`. `FramesAssumption`, `SnapshotsAssumption` and
`CallsAssumption` say what the inputs are: JSON values by their form, documents
that `to_json` may have written (with fields missing), calls with arguments of the
declared types. `MCQuery` satisfies them, and TLC evaluates them.

The library's induction theorems cannot be used here: they take an operator as an
argument. Where a proof goes over a sequence (`RunsAgree`, `SortedInterval`,
`ConsumeLabelled` and others) it takes the least counterexample, which exists by
`MinIsLeast`, and refutes it. That is why the recursion in the modules is written
as functions.

Only model-checked: liveness, which needs ENABLED. These are `AcceptedIsWritten`
and `CloseCompletes` of `recording`, `CloseCompletes`, `CloseUnblocks` and
`LossIsRetriedOrReported` of `live_progress`, `ReplayEnds` of `replay` and `CaptureEnds`
of `tools`. Every invariant and every action property that a passing run checks is
also a theorem. The four runs that find a violation refute a sentence on an
instance and need no proof.

## 6. What is abstracted or left out

* Contents of messages, wording, logging, the JSON encoding itself.
* Time: only the comparisons the code makes with it; of `last_update_ms` only
  whether it is set, of the clock offset only whether it had a sample.
* Two concurrent callers of one `close()`, the cancellation of the caller of
  the transport's `close()`, and the loss of data that was flushed but not synced
  when the machine dies.
* Two consumers of one stream: `close()` puts one END on each queue, so the
  second would wait for ever; the models give each stream one consumer.
* What a program does with a snapshot of before a `clear()`: in `RaceCache` a
  new log and new snapshots begin there.
* `laps()` over several sessions, and every other read-only accessor.
* Two iterations of one replay transport at the same time; the rounding of a
  sleep; a consumer that is slow (pacing is about the sleeps the code asks for).
* Warnings, and that the parser logs each only once in a process.
* Fields of a message that no reducer reads; `top()` of a negative number.
* Argument parsing of the tools, and `--show-time-sync`, which reads a stream the
  replay transport does not have.

Not modelled: `http/laps_data.py` is one request and a straight chain of checks on
its answer, without state, retry or a caller in the package, and unit tests reach
all of it; the examples use a client as `Session` does; logging, version and
packaging have no behaviour.

## 7. Plan

Done: live transport, recorder, race state, replay, client, filter, parser and
tools, in this order. Left, by what it would add:

1. The cancellation of the caller of the transport's `close()`, and two callers.
2. A client over `LiveTransport` itself: `Session` takes the stream that
   `MessageStream` promises.
3. `RaceCacheProofs` without `DamageIsDetected`: what a state that was restored
   from a damaged snapshot still guarantees.
