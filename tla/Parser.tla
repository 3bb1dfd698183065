------------------------------- MODULE Parser -------------------------------
(***************************************************************************)
(* parse() (parser/): what a server frame becomes, as operators on JSON    *)
(* values. It hands the messages of RaceState over, without the fields the *)
(* reducer leaves alone, or raises, and then its caller drops the frame.   *)
(* The warnings it logs are left out.                                      *)
(*                                                                         *)
(* A JSON value has a form and the text that str() makes of it:            *)
(*   null; number and digits, which int() reads as n; word, which it does  *)
(*   not read; huge and nan, floats it fails on; list, with items; map,    *)
(*   with fields. A key that is not there is not in DOMAIN fields.         *)
(***************************************************************************)
EXTENDS RaceState

Null == [form |-> "null", text |-> "None"]

(* dict.get.                                                               *)
Get(fields, key) == IF key \in DOMAIN fields THEN fields[key] ELSE Null

IsNull(v) == v.form = "null"
IsMap(v) == v.form = "map"

Falsy(v) ==
  \/ IsNull(v)
  \/ v.form = "number" /\ v.n = 0
  \/ v.form = "word" /\ v.text = ""
  \/ v.form = "list" /\ v.items = <<>>
  \/ IsMap(v) /\ DOMAIN v.fields = {}

Or(v, w) == IF Falsy(v) THEN w ELSE v

(* int(), where TypeError and ValueError are caught. OverflowError is not. *)
OptInt(v) == IF v.form \in {"number", "digits"} THEN v.n ELSE None
Overflows(v) == v.form = "huge"

OptStr(v) == IF IsNull(v) THEN None ELSE v.text
StrOr(fields, key, default) ==
  IF key \in DOMAIN fields THEN fields[key].text ELSE default

(* Mutant: `or' between the two names of a field.                          *)
PickTruthy(row, name, old) == Or(Get(row, name), Get(row, old))

(* _pick: a zero is a value.                                               *)
Pick(row, name, old) ==
  IF IsNull(Get(row, name)) THEN Get(row, old) ELSE Get(row, name)

-----------------------------------------------------------------------------
(* Rows. *)

CarResult(row) ==
  LET r == IF IsMap(row) THEN row.fields ELSE <<>>
  IN [no |-> OrZero(OptInt(Pick(r, "startingNo", "STNR"))),
      position |-> OptInt(Pick(r, "position", "POSITION")),
      class |-> OptStr(Pick(r, "class", "CLASSNAME")),
      driver |-> OptStr(Pick(r, "driver", "NAME")),
      laps |-> OrZero(OptInt(Pick(r, "laps", "LAPS")))]

(* _parse_lap_time_ms calls int() on a float unguarded.                    *)
CarResultRaises(row) ==
  /\ IsMap(row)
  /\ \/ \E names \in {<<"startingNo", "STNR">>, <<"position", "POSITION">>,
                      <<"laps", "LAPS">>, <<"totalTime", "INT">>,
                      <<"gap", "GAP">>} :
          Overflows(Pick(row.fields, names[1], names[2]))
     \/ Pick(row.fields, "best", "FASTESTLAP").form \in {"huge", "nan"}

BestSector(row) ==
  LET r == IF IsMap(row) THEN row.fields ELSE <<>>
  IN [no |-> OrZero(OptInt(Get(r, "startingNo"))),
      sector |-> OrZero(OptInt(Get(r, "sector"))),
      value |-> OptInt(Get(r, "value"))]

BestSectorRaises(row) ==
  /\ IsMap(row)
  /\ \E key \in {"startingNo", "sector", "value"} :
       Overflows(Get(row.fields, key))

(* A table: `raw.get(key) or ()'. What the keys of an object or the         *)
(* characters of a text become are rows of the car with number 0; one      *)
(* stands for all of them. A number cannot be iterated.                    *)
EmptyList == [form |-> "list", text |-> "[]", items |-> <<>>]
Table(raw, key) == Or(Get(raw, key), EmptyList)
Items(table) == IF table.form = "list" THEN table.items ELSE <<Null>>
Iterable(table) == table.form \in {"list", "map", "word", "digits"}

CarRows(raw, key) ==
  LET items == Items(Table(raw, key))
  IN [i \in DOMAIN items |-> CarResult(items[i])]

SectorRows(raw, key) ==
  LET items == Items(Table(raw, key))
  IN [i \in DOMAIN items |-> BestSector(items[i])]

CarTableRaises(raw, key) ==
  LET table == Table(raw, key)
  IN ~Iterable(table) \/ \E i \in DOMAIN Items(table) : CarResultRaises(Items(table)[i])

SectorTableRaises(raw, key) ==
  LET table == Table(raw, key)
  IN ~Iterable(table) \/ \E i \in DOMAIN Items(table) : BestSectorRaises(Items(table)[i])

-----------------------------------------------------------------------------
(* One operator per kind of frame. *)

Raised == [kind |-> "raised"]
MessageUnless(raises, message) == IF raises THEN Raised ELSE message

ParsePid0(raw) ==
  MessageUnless(
    \/ Overflows(Get(raw, "PID"))
    \/ Overflows(Get(raw, "startingNo"))
    \/ CarTableRaises(raw, "RESULT")
    \/ SectorTableRaises(raw, "BEST"),
    [kind |-> "initial",
     session |-> <<StrOr(raw, "VER", ""), StrOr(raw, "EXPORTID", ""),
                   StrOr(raw, "TRACKNAME", ""), StrOr(raw, "SESSION", "")>>,
     results |-> CarRows(raw, "RESULT")])

(* MESSAGES[0], or what older servers send at the top level.               *)
ParsePid3(raw) ==
  LET messages == Or(Get(raw, "MESSAGES"), EmptyList)
      wrapped == /\ messages.form = "list"
                 /\ messages.items # <<>>
                 /\ ~IsNull(messages.items[1])
      first == IF wrapped /\ IsMap(messages.items[1])
               THEN messages.items[1].fields ELSE <<>>
      group == Get(first, "MESSAGEGROUP")
      no == IF wrapped THEN Or(Get(first, "STARTING_NO"), Get(first, "startingNo"))
            ELSE Get(raw, "startingNo")
      session == IF wrapped THEN Or(Get(first, "SESSION"), Get(first, "session"))
                 ELSE Get(raw, "session")
  IN MessageUnless(
       (wrapped /\ ~IsMap(messages.items[1])) \/ Overflows(no),
       [kind |-> "race",
        key |-> <<IF wrapped THEN StrOr(first, "MESSAGE", "")
                  ELSE StrOr(raw, "text", ""),
                  IF wrapped THEN IF Falsy(group) THEN "INFO" ELSE group.text
                  ELSE StrOr(raw, "type", "INFO"),
                  OptInt(no), OptStr(session)>>,
        raw |-> raw])

(* _time_of_day converts without a guard; a missing value is zero.         *)
TimeOfDay(v) ==
  IF ~IsMap(v) THEN None
  ELSE IF "value" \in DOMAIN v.fields THEN OptInt(v.fields.value) ELSE 0

ParsePid4(raw) ==
  LET times == {Get(raw, "TOD"), Get(raw, "ENDTIME")}
  IN MessageUnless(
       \E v \in times : IsMap(v) /\ TimeOfDay(v) = None,
       [kind |-> "track",
        track |-> <<StrOr(raw, "TRACKSTATE", ""), StrOr(raw, "TIMESTATE", ""),
                    TimeOfDay(Get(raw, "TOD")), TimeOfDay(Get(raw, "ENDTIME"))>>])

(* A row of laps and what _apply_per_car_laps makes of its fields, one     *)
(* after the other: the first it cannot use decides.                       *)
LapFields == <<"lap", "time", "s1", "s2", "s3">>

LapRowOf(item) ==
  LET f == item.fields
      Missing(i) == i <= 2 /\ IsNull(Get(f, LapFields[i]))
      Fails(i) == /\ ~IsNull(Get(f, LapFields[i]))
                  /\ OptInt(Get(f, LapFields[i])) = None
      failing == {i \in DOMAIN LapFields : Fails(i)}
  IN [lap |-> OrZero(OptInt(Get(f, "lap"))),
      time |-> OrZero(OptInt(Get(f, "time"))),
      form |-> IF Missing(1) \/ Missing(2) THEN "malformed"
               ELSE IF failing = {} THEN "good"
               ELSE IF Overflows(Get(f, LapFields[Min(failing)]))
                    THEN "overflows" ELSE "malformed"]

ParsePid7(raw) ==
  LET no == Or(Get(raw, "startingNo"), Get(raw, "STNR"))
      session == Or(Get(raw, "session"), Get(raw, "SESSION"))
      laps == Table(raw, "laps")
  IN MessageUnless(
       Overflows(no) \/ ~Iterable(laps),
       [kind |-> "laps",
        session |-> IF IsNull(session) THEN "" ELSE session.text,
        no |-> OrZero(OptInt(no)),
        laps |-> LET maps == SelectSeq(Items(laps), IsMap)
                 IN [i \in DOMAIN maps |-> LapRowOf(maps[i])]])

ParsePid501(raw) ==
  MessageUnless(
    CarTableRaises(raw, "RESULT"),
    [kind |-> "qualifying", results |-> CarRows(raw, "RESULT")])

ParsePid9002(raw) ==
  MessageUnless(
    \/ CarTableRaises(raw, "LEADING")
    \/ CarTableRaises(raw, "BEST_LAPS")
    \/ SectorTableRaises(raw, "BEST_SECTORS"),
    [kind |-> "statistics",
     leading |-> <<CarRows(raw, "LEADING"), CarRows(raw, "BEST_LAPS")>>,
     sectors |-> SectorRows(raw, "BEST_SECTORS")])

(* TimeSyncMessage and UnknownMessage.                                     *)
Other == [kind |-> "other"]

ParseTimeSync(raw) == MessageUnless(Overflows(Get(raw, "value")), Other)

IsTimeSync(raw) ==
  Get(raw, "type").form = "word" /\ Get(raw, "type").text = "time"

EventPid(raw) ==
  IF IsNull(Get(raw, "eventPid")) THEN Get(raw, "PID") ELSE Get(raw, "eventPid")

(* parse().                                                                *)
Parse(v) ==
  IF ~IsMap(v) THEN Other
  ELSE LET raw == v.fields
           pid == OptInt(EventPid(raw))
       IN IF IsTimeSync(raw) THEN ParseTimeSync(raw)
          ELSE IF Overflows(EventPid(raw)) THEN Raised
          ELSE CASE pid = 0    -> ParsePid0(raw)
                 [] pid = 3    -> ParsePid3(raw)
                 [] pid = 4    -> ParsePid4(raw)
                 [] pid = 7    -> ParsePid7(raw)
                 [] pid = 501  -> ParsePid501(raw)
                 [] pid = 9002 -> ParsePid9002(raw)
                 [] OTHER      -> Other
=============================================================================
