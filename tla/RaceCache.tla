----------------------------- MODULE RaceCache -----------------------------
(***************************************************************************)
(* The life of a race's data: a RaceState fed message by message, the      *)
(* recording of these messages, a snapshot of the state (to_json) and what *)
(* a later program makes of the two: a second RaceState, restored from the *)
(* snapshot (from_json), that goes through the recording from a message    *)
(* the snapshot may well contain already.                                  *)
(***************************************************************************)
EXTENDS RaceState

CONSTANTS
  MaxLog,      \* bound: messages heard between two calls of clear()
  Labels,      \* bound: what set_source is called with
  Damages      \* sets of fields a snapshot may have lost

ASSUME BoundsAssumption ==
  /\ MaxLog \in Nat
  /\ Labels \subseteq Sources

VARIABLES
  log,         \* the messages heard, as recorded
  state,       \* the RaceState of the program that hears them
  saved,       \* the snapshot on disk, or None
  savedAt,     \* how much of the log it has in it
  copy,        \* the restored RaceState, or None
  copyAt       \* how much of the log it has gone through

vars == <<log, state, saved, savedAt, copy, copyAt>>

Init ==
  /\ log = <<>>
  /\ state = Empty("LIVE")
  /\ saved = None
  /\ savedAt = 0
  /\ copy = None
  /\ copyAt = 0

(* RaceState.apply of the next message, new or one the server repeats.     *)
Hear(m) ==
  /\ Len(log) < MaxLog
  /\ log' = Append(log, m)
  /\ state' = Apply(state, m)
  /\ UNCHANGED <<saved, savedAt, copy, copyAt>>

(* RaceState.clear: a new recording and new snapshots begin here.          *)
ClearState ==
  /\ state' = Clear(state)
  /\ log' = <<>>
  /\ saved' = None
  /\ savedAt' = 0
  /\ copy' = None
  /\ copyAt' = 0

(* RaceState.set_source.                                                   *)
SetSource(source) ==
  /\ state' = [state EXCEPT !.source = source]
  /\ UNCHANGED <<log, saved, savedAt, copy, copyAt>>

(* RaceState.to_json into a file.                                          *)
Save ==
  /\ saved' = ToJson(state)
  /\ savedAt' = Len(log)
  /\ UNCHANGED <<log, state, copy, copyAt>>

(* RaceState.from_json in a program that will replay the recording from    *)
(* its message start + 1 on.                                               *)
Restore(start) ==
  /\ saved # None
  /\ copy' = FromJson(saved)
  /\ copyAt' = start
  /\ UNCHANGED <<log, state, saved, savedAt>>

CatchUp ==
  /\ copy # None
  /\ copyAt < Len(log)
  /\ copy' = Apply(copy, log[copyAt + 1])
  /\ copyAt' = copyAt + 1
  /\ UNCHANGED <<log, state, saved, savedAt>>

(* RaceState.import_json of the snapshot as it is on disk, or damaged: the *)
(* program goes back to the time of the snapshot, unless from_json raises. *)
Import(lost) ==
  LET doc == Without(saved, lost)
  IN /\ saved # None
     /\ IF Accepts(doc)
        THEN /\ state' = FromJson(doc)
             /\ log' = SubSeq(log, 1, savedAt)
             /\ copy' = None
             /\ copyAt' = 0
        ELSE UNCHANGED <<state, log, copy, copyAt>>
     /\ UNCHANGED <<saved, savedAt>>

Next ==
  \/ \E m \in Messages : Hear(m)
  \/ ClearState
  \/ \E source \in Labels : SetSource(source)
  \/ Save
  \/ \E start \in 0 .. savedAt : Restore(start)
  \/ CatchUp
  \/ \E lost \in Damages : Import(lost)

Spec == Init /\ [][Next]_vars

-----------------------------------------------------------------------------
(* What a log says the state should be. *)

Of(l, kind) == {i \in DOMAIN l : l[i].kind = kind}

(* The first message of every key.                                         *)
Firsts(l) ==
  {i \in Of(l, "race") :
     \A j \in Of(l, "race") : j < i => l[j].key # l[i].key}

RaceKeys(l) == {l[i].key : i \in Of(l, "race")}

(* A sequence holds the first messages of a log, all of them, in order.    *)
HoldsFirsts(msgs, l) ==
  /\ \A k \in DOMAIN msgs : \E i \in Firsts(l) : msgs[k] = l[i]
  /\ \A i \in Firsts(l) : \E k \in DOMAIN msgs : msgs[k] = l[i]
  /\ \A k1, k2 \in DOMAIN msgs : \A i1, i2 \in Firsts(l) :
       msgs[k1] = l[i1] /\ msgs[k2] = l[i2] /\ k1 < k2 => i1 < i2

(* The rows sent that are laps, by message and row.                        *)
LapWrites(l) ==
  UNION {{i} \X {j \in DOMAIN l[i].laps : l[i].laps[j].form = "good"} :
           i \in Of(l, "laps")}

LapKeyOf(l, w) == LapKey(l[w[1]], w[2])

LaterWrite(v, w) == v[1] > w[1] \/ (v[1] = w[1] /\ v[2] > w[2])

(* The laps of messages that apply() raises at.                            *)
Cut(l) == {LapKeyOf(l, w) : w \in {v \in LapWrites(l) : Raises(l[v[1]])}}

(* A dict holds of each lap that is not cut the time that was sent last,   *)
(* and of any lap only a time that was sent for it.                        *)
HoldsLatest(laps, l) ==
  /\ \A w \in LapWrites(l) :
       LET key == LapKeyOf(l, w)
       IN key \notin Cut(l) =>
            /\ key \in DOMAIN laps
            /\ \/ laps[key] = l[w[1]].laps[w[2]].time
               \/ \E v \in LapWrites(l) : LapKeyOf(l, v) = key /\ LaterWrite(v, w)
  /\ \A key \in DOMAIN laps : \E w \in LapWrites(l) :
       LapKeyOf(l, w) = key /\ laps[key] = l[w[1]].laps[w[2]].time

(* A dict holds the least value of each sector, and nothing else.          *)
SectorRows(l) ==
  UNION {{l[i].sectors[j] : j \in DOMAIN l[i].sectors} :
           i \in Of(l, "statistics")}

HoldsMinima(bests, l) ==
  /\ DOMAIN bests = {SectorKey(row) : row \in SectorRows(l)}
  /\ \A key \in DOMAIN bests :
       /\ \E row \in SectorRows(l) :
            SectorKey(row) = key /\ bests[key] = OrZero(row.value)
       /\ \A row \in SectorRows(l) :
            SectorKey(row) = key => bests[key] <= OrZero(row.value)

-----------------------------------------------------------------------------
(* Properties. *)

CarType ==
  [no: Nat, position: Nat, laps: Nat, class: Values \cup {None},
   driver: Values \cup {None}, sector_bests: {<<>>}]

StateOK(s) ==
  /\ s.source \in Sources
  /\ s.freshness \in {"RESYNCING", "FRESH"}
  /\ s.updated \in BOOLEAN
  /\ {s.session, s.track, s.qualifying, s.leading} \subseteq Values \cup {None}
  /\ s.cars \in Seq(CarType)
  /\ s.messages \in Seq(MessageType)
  /\ s.seen \subseteq Values
  /\ \A key \in DOMAIN s.laps : key \in Values \X Nat \X Nat /\ s.laps[key] \in Nat
  /\ \A key \in DOMAIN s.bests : key \in Nat \X Nat /\ s.bests[key] \in Nat

(* The states are well formed (the fields and __init__ of RaceState), a    *)
(* number has one car, and the snapshot is of some moment of the log.      *)
TypeOK ==
  /\ log \in Seq(Messages)
  /\ StateOK(state)
  /\ \A i, j \in DOMAIN state.cars : state.cars[i].no = state.cars[j].no => i = j
  /\ copy # None => StateOK(copy)
  /\ savedAt \in 0 .. Len(log)
  /\ copyAt \in 0 .. Len(log)

(* _apply_race_message, clear and import_json: of the race messages heard, *)
(* the state holds the first with each key, in the order they came, and    *)
(* its keys are exactly theirs, so that none is ever dropped or doubled.   *)
MessagesOnce ==
  /\ HoldsFirsts(state.messages, log)
  /\ state.seen = RaceKeys(log)

(* _apply_per_car_laps: a lap has the time of the last row sent for it,    *)
(* whichever message, repeated or not, brought it. This leaves out laps of *)
(* which a message was sent that apply() raises at: the rows behind the    *)
(* one int() overflows on never arrive (race_state.py:331), although "a    *)
(* malformed message is dropped, not raised" (:12). These too have no time *)
(* but one that was sent.                                                  *)
LapsAreLatest == HoldsLatest(state.laps, log)

(* _apply_statistics: a sector's best is the least value ever sent for it. *)
BestsAreMinima == HoldsMinima(state.bests, log)

(* apply() is idempotent (race_state.py:11): a message the server repeats  *)
(* at once changes nothing, the whole state considered.                    *)
Idempotent ==
  \A m \in Messages : Apply(Apply(state, m), m) = Apply(state, m)

(* to_json and from_json: what is saved comes back.                        *)
RoundTrip == SameData(FromJson(ToJson(state)), state)

(* D-PERSIST-3, import_json and apply together: a RaceState restored from  *)
(* a snapshot that has gone through the recording to its end, from where   *)
(* the snapshot was taken or from any message before, has caught up with   *)
(* the one that heard everything: nothing doubled, lost or set back.       *)
CatchesUp == copy # None /\ copyAt = Len(log) => SameData(copy, state)

-----------------------------------------------------------------------------
(* What the documentation says and the code does not do. *)

(* "Narrow to cars whose best sector time is strictly less than value_ms"  *)
(* (filter.py:116): a car with such a best is found.                       *)
SectorFilterFinds ==
  \A key \in DOMAIN state.bests : \A i \in DOMAIN state.cars :
    state.cars[i].no = key[1]
      => key[1] \in SectorTimeLt(state, key[2], state.bests[key] + 1)
============================================================================
