----------------------------- MODULE RaceState -----------------------------
(***************************************************************************)
(* The reducer behind the client's cache: RaceState (state/race_state.py)  *)
(* and its snapshots (state/persistence.py), as operators on the value of  *)
(* one RaceState. RaceCache runs them.                                     *)
(*                                                                         *)
(* A state is a record with the fields of the class. What the reducer only *)
(* stores is one field and one opaque value: `session' stands for the four *)
(* fields PID 0 sets besides the cars, `leading' for both tables of        *)
(* PID 9002. Of last_update_ms only whether it is set is kept.             *)
(***************************************************************************)
EXTENDS Naturals, Sequences, FiniteSets, SequencesExt

CONSTANTS
  Values,      \* opaque contents: a session, a message's key or frame, a table
  Messages,    \* bound: the messages the parser hands over in the model
  None         \* Python's None, and a value the server has left out

-----------------------------------------------------------------------------
(* What the parser hands over. *)

(* A row of results and a row of best sectors, as the server sends them.   *)
Row == [no: Nat, position: Nat \cup {None}, laps: Nat,
        class: Values \cup {None}, driver: Values \cup {None}]
SectorRow == [no: Nat, sector: Nat, value: Nat \cup {None}]

(* A row of PID 7, and what int() makes of its fields: integers; None or   *)
(* text; a number too large for any integer, such as Infinity.             *)
LapRow == [lap: Nat, time: Nat, form: {"good", "malformed", "overflows"}]

MessageType ==
  [kind: {"initial"}, session: Values, results: Seq(Row)]
    \cup [kind: {"track"}, track: Values]
    \cup [kind: {"race"}, key: Values, raw: Values]
    \cup [kind: {"laps"}, session: Values, no: Nat, laps: Seq(LapRow)]
    \cup [kind: {"qualifying"}, results: Values]
    \cup [kind: {"statistics"}, leading: Values, sectors: Seq(SectorRow)]
    \cup [kind: {"other"}]     \* TimeSyncMessage, UnknownMessage

ASSUME MessagesAssumption == Messages \subseteq MessageType /\ None \notin Nat

(* _opt_int(...) or 0: what the server has left out becomes zero.          *)
OrZero(v) == IF v = None THEN 0 ELSE v

(* A finite set in a strict order of its elements, as sorted() has it.     *)
(* SetToSortSeq means the same, by way of a SortSeq that has no definition *)
(* in TLA+ for a proof to use.                                             *)
Sorted(S, Before(_, _)) ==
  CHOOSE s \in SetToSeqs(S) :
    \A k, l \in DOMAIN s : k < l => Before(s[k], s[l])

-----------------------------------------------------------------------------
(* The state. *)

Sources == {"LIVE", "REPLAY", "IMPORTED"}

Empty(source) ==
  [source |-> source, freshness |-> "RESYNCING", updated |-> FALSE,
   session |-> None, cars |-> <<>>, track |-> None,
   messages |-> <<>>, seen |-> {}, laps |-> <<>>,
   qualifying |-> None, leading |-> None, bests |-> <<>>]

(* cars is a dict in insertion order: where a number comes first decides   *)
(* the place, where it comes last the value. Nothing fills sector_bests.   *)
Car(row) ==
  [no |-> row.no, position |-> OrZero(row.position), laps |-> row.laps,
   class |-> row.class, driver |-> row.driver, sector_bests |-> <<>>]

(* Mutant: a number that is in the results twice becomes two cars.         *)
CarsOfEveryRow(results) == [i \in DOMAIN results |-> Car(results[i])]

CarsOf(results) ==
  LET firsts == {i \in DOMAIN results :
                   \A j \in 1 .. i - 1 : results[j].no # results[i].no}
      order == Sorted(firsts, <)
      Latest(no) == Max({i \in DOMAIN results : results[i].no = no})
  IN [k \in DOMAIN order |-> Car(results[Latest(results[order[k]].no)])]

-----------------------------------------------------------------------------
(* apply(), one operator per kind of message. *)

ApplyInitialState(s, m) ==
  [s EXCEPT !.session = m.session, !.cars = CarsOf(m.results)]

ApplyTrackState(s, m) == [s EXCEPT !.track = m.track]

(* Mutant: no check for duplicates.                                        *)
ApplyRaceMessageAlways(s, m) ==
  [s EXCEPT !.seen = @ \cup {m.key}, !.messages = Append(@, m)]

ApplyRaceMessage(s, m) ==
  IF m.key \in s.seen
  THEN s
  ELSE [s EXCEPT !.seen = @ \cup {m.key}, !.messages = Append(@, m)]

(* Malformed rows are skipped; the first whose int() overflows raises.     *)
StoredRows(laps) ==
  {j \in DOMAIN laps : /\ laps[j].form = "good"
                       /\ \A k \in 1 .. j : laps[k].form # "overflows"}

LapKey(m, j) == <<m.session, m.no, m.laps[j].lap>>

LapKeys(m) == {LapKey(m, j) : j \in StoredRows(m.laps)}

RowsOfLap(m, key) == {j \in StoredRows(m.laps) : LapKey(m, j) = key}

(* Mutant: the first row of a lap wins.                                    *)
ApplyPerCarLapsOnce(s, m) ==
  [s EXCEPT !.laps =
     [key \in DOMAIN s.laps \cup LapKeys(m) |->
        IF key \in DOMAIN s.laps THEN s.laps[key]
        ELSE m.laps[Min(RowsOfLap(m, key))].time]]

ApplyPerCarLaps(s, m) ==
  [s EXCEPT !.laps =
     [key \in DOMAIN s.laps \cup LapKeys(m) |->
        IF key \in LapKeys(m) THEN m.laps[Max(RowsOfLap(m, key))].time
        ELSE s.laps[key]]]

SectorKey(row) == <<row.no, row.sector>>

SectorKeys(m) == {SectorKey(m.sectors[j]) : j \in DOMAIN m.sectors}

Sent(m, key) ==
  {OrZero(m.sectors[j].value) :
     j \in {i \in DOMAIN m.sectors : SectorKey(m.sectors[i]) = key}}

Known(bests, key) == IF key \in DOMAIN bests THEN {bests[key]} ELSE {}

(* Mutant: the least of the latest message only.                           *)
ApplyStatisticsLatest(s, m) ==
  [s EXCEPT !.leading = m.leading,
            !.bests = [key \in DOMAIN s.bests \cup SectorKeys(m) |->
                         IF key \in SectorKeys(m) THEN Min(Sent(m, key))
                         ELSE s.bests[key]]]

ApplyStatistics(s, m) ==
  [s EXCEPT !.leading = m.leading,
            !.bests = [key \in DOMAIN s.bests \cup SectorKeys(m) |->
                         Min(Known(s.bests, key) \cup Sent(m, key))]]

Reduce(s, m) ==
  CASE m.kind = "initial"    -> ApplyInitialState(s, m)
    [] m.kind = "track"      -> ApplyTrackState(s, m)
    [] m.kind = "race"       -> ApplyRaceMessage(s, m)
    [] m.kind = "laps"       -> ApplyPerCarLaps(s, m)
    [] m.kind = "qualifying" -> [s EXCEPT !.qualifying = m.results]
    [] m.kind = "statistics" -> ApplyStatistics(s, m)
    [] OTHER                 -> s

Raises(m) ==
  m.kind = "laps" /\ \E j \in DOMAIN m.laps : m.laps[j].form = "overflows"

(* An exception leaves apply() before the last assignment.                 *)
Apply(s, m) ==
  LET t == Reduce([s EXCEPT !.updated = TRUE], m)
  IN IF Raises(m) THEN t ELSE [t EXCEPT !.freshness = "FRESH"]

(* Mutant: the keys of the messages survive.                               *)
ClearKeepsKeys(s) == [Empty(s.source) EXCEPT !.seen = s.seen]

Clear(s) == Empty(s.source)

-----------------------------------------------------------------------------
(* Reading. *)

HasBestBelow(car, sector, ms) ==
  sector \in DOMAIN car.sector_bests /\ car.sector_bests[sector] < ms

(* filter().sector_time_lt(sector, ms): the numbers of the cars it keeps.  *)
SectorTimeLt(s, sector, ms) ==
  {s.cars[i].no : i \in {k \in DOMAIN s.cars : HasBestBelow(s.cars[k], sector, ms)}}

-----------------------------------------------------------------------------
(* Snapshots. *)

SchemaVersion == 1

(* A dict's keys are text in JSON, and sort_keys orders them as text.      *)
(* Starting numbers have at most three digits.                             *)
TextBefore(a, b) ==
  LET Padded(n) == IF n < 10 THEN 100 * n ELSE IF n < 100 THEN 10 * n ELSE n
  IN Padded(a) < Padded(b) \/ (Padded(a) = Padded(b) /\ a < b)

ToJson(s) ==
  LET ByText(i, j) == TextBefore(s.cars[i].no, s.cars[j].no)
      order == Sorted(DOMAIN s.cars, ByText)
  IN [schema_version |-> SchemaVersion,
      source |-> s.source, freshness |-> s.freshness, updated |-> s.updated,
      session |-> s.session, track |-> s.track,
      cars |-> [k \in DOMAIN s.cars |-> s.cars[order[k]]],
      messages |-> s.messages, laps |-> s.laps, qualifying |-> s.qualifying,
      leading |-> s.leading, bests |-> s.bests]

(* A document without the fields in `lost'.                                *)
Without(doc, lost) == [field \in DOMAIN doc \ lost |-> doc[field]]

(* Indexed fields that are missing, and a wrong version, raise.            *)
Accepts(doc) ==
  /\ {"schema_version", "source", "freshness"} \subseteq DOMAIN doc
  /\ doc.schema_version = SchemaVersion

(* payload.get(field) or an empty value.                                   *)
FieldOr(doc, field, default) ==
  IF field \in DOMAIN doc THEN doc[field] ELSE default

(* Mutants: the keys of the messages are not rebuilt; the bests are lost.  *)
FromJsonForgetsKeys(doc) ==
  [source |-> doc.source, freshness |-> doc.freshness,
   updated |-> FieldOr(doc, "updated", FALSE),
   session |-> FieldOr(doc, "session", None),
   cars |-> FieldOr(doc, "cars", <<>>),
   track |-> FieldOr(doc, "track", None),
   messages |-> FieldOr(doc, "messages", <<>>),
   seen |-> {},
   laps |-> FieldOr(doc, "laps", <<>>),
   qualifying |-> FieldOr(doc, "qualifying", None),
   leading |-> FieldOr(doc, "leading", None),
   bests |-> FieldOr(doc, "bests", <<>>)]

FromJsonLosesBests(doc) ==
  [FromJsonForgetsKeys(doc) EXCEPT
     !.seen = {doc.messages[i].key : i \in DOMAIN doc.messages},
     !.bests = <<>>]

FromJson(doc) ==
  LET msgs == FieldOr(doc, "messages", <<>>)
  IN [source |-> doc.source, freshness |-> doc.freshness,
      updated |-> FieldOr(doc, "updated", FALSE),
      session |-> FieldOr(doc, "session", None),
      cars |-> FieldOr(doc, "cars", <<>>),
      track |-> FieldOr(doc, "track", None),
      messages |-> msgs,
      seen |-> {msgs[i].key : i \in DOMAIN msgs},
      laps |-> FieldOr(doc, "laps", <<>>),
      qualifying |-> FieldOr(doc, "qualifying", None),
      leading |-> FieldOr(doc, "leading", None),
      bests |-> FieldOr(doc, "bests", <<>>)]

(* Two states with the same contents: == of their fields, where a dict     *)
(* has no order and the label `source' does not count.                     *)
SameData(s, t) ==
  /\ ToSet(s.cars) = ToSet(t.cars)
  /\ \A field \in DOMAIN s \ {"cars", "source"} : s[field] = t[field]
============================================================================
