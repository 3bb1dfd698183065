---------------------------- MODULE QueryProofs ----------------------------
(***************************************************************************)
(* Proofs about Query, for every frame, every document and every query,    *)
(* however long.                                                           *)
(***************************************************************************)
EXTENDS Query, RaceStateProofs, SequenceTheorems

-----------------------------------------------------------------------------
(* What parse() and apply() make of a frame. *)

(* Only PID 0 becomes an initial state, and it has the rows of RESULT.     *)
LEMMA ParsedInitial ==
  ASSUME NEW v, Parse(v).kind = "initial"
  PROVE  /\ IsMap(v) /\ Parse(v) # Raised
         /\ Parse(v).results = CarRows(v.fields, "RESULT")
<1> DEFINE raw == v.fields
           pid == OptInt(EventPid(raw))
<1>1. IsMap(v)
  BY DEF Parse, Other
<1>2. Parse(v) =
        IF IsTimeSync(raw) THEN ParseTimeSync(raw)
        ELSE IF Overflows(EventPid(raw)) THEN Raised
        ELSE CASE pid = 0    -> ParsePid0(raw)
               [] pid = 3    -> ParsePid3(raw)
               [] pid = 4    -> ParsePid4(raw)
               [] pid = 7    -> ParsePid7(raw)
               [] pid = 501  -> ParsePid501(raw)
               [] pid = 9002 -> ParsePid9002(raw)
               [] OTHER      -> Other
  BY <1>1 DEF Parse
<1>3. ParseTimeSync(raw).kind # "initial" /\ Raised.kind # "initial"
        /\ Other.kind # "initial"
  BY DEF ParseTimeSync, MessageUnless, Raised, Other
<1>4. ParsePid3(raw).kind # "initial"
  BY DEF ParsePid3, MessageUnless, Raised
<1>5. ParsePid4(raw).kind # "initial"
  BY DEF ParsePid4, MessageUnless, Raised
<1>6. ParsePid7(raw).kind # "initial"
  BY DEF ParsePid7, MessageUnless, Raised
<1>7. ParsePid501(raw).kind # "initial"
  BY DEF ParsePid501, MessageUnless, Raised
<1>8. ParsePid9002(raw).kind # "initial"
  BY DEF ParsePid9002, MessageUnless, Raised
<1> HIDE DEF pid, raw
<1>9. Parse(v) = ParsePid0(raw)
  BY <1>2, <1>3, <1>4, <1>5, <1>6, <1>7, <1>8
<1>10. ParsePid0(raw).kind = "initial"
         => ParsePid0(raw).results = CarRows(raw, "RESULT")
  BY DEF ParsePid0, MessageUnless, Raised
<1> QED BY <1>1, <1>3, <1>9, <1>10 DEF raw

StateFields == DOMAIN Empty("LIVE")

LEMMA AppliedCars ==
  ASSUME NEW s, DOMAIN s = StateFields, NEW m
  PROVE  /\ DOMAIN Apply(s, m) = StateFields
         /\ Apply(s, m).cars =
              IF m.kind = "initial" THEN CarsOf(m.results) ELSE s.cars
<1> DEFINE u == [s EXCEPT !.updated = TRUE]
           t == Reduce(u, m)
<1>1. "cars" \in StateFields
  BY DEF StateFields, Empty
<1>2. DOMAIN u = StateFields /\ u.cars = s.cars
  BY <1>1
<1> HIDE DEF u
<1>3. DOMAIN t = StateFields
        /\ t.cars = IF m.kind = "initial" THEN CarsOf(m.results) ELSE u.cars
  <2>1. CASE m.kind = "initial"
    BY <1>1, <1>2, <2>1 DEF Reduce, ApplyInitialState
  <2>2. CASE m.kind = "track"
    BY <1>1, <1>2, <2>2 DEF Reduce, ApplyTrackState
  <2>3. CASE m.kind = "race"
    BY <1>1, <1>2, <2>3 DEF Reduce, ApplyRaceMessage
  <2>4. CASE m.kind = "laps"
    BY <1>1, <1>2, <2>4 DEF Reduce, ApplyPerCarLaps
  <2>5. CASE m.kind = "qualifying"
    BY <1>1, <1>2, <2>5 DEF Reduce
  <2>6. CASE m.kind = "statistics"
    BY <1>1, <1>2, <2>6 DEF Reduce, ApplyStatistics
  <2>7. CASE m.kind \notin {"initial", "track", "race", "laps", "qualifying", "statistics"}
    BY <1>2, <2>7 DEF Reduce
  <2> QED BY <2>1, <2>2, <2>3, <2>4, <2>5, <2>6, <2>7
<1>4. Apply(s, m) = IF Raises(m) THEN t ELSE [t EXCEPT !.freshness = "FRESH"]
  BY DEF Apply, u
<1> HIDE DEF t
<1> QED BY <1>1, <1>2, <1>3, <1>4

(* Pick and Says are the same on a row, as are the numbers they find.      *)
LEMMA PickedIsSaid ==
  ASSUME NEW row, IsObject(row), NEW name, NEW old
  PROVE  LET r == IF IsMap(row) THEN row.fields ELSE <<>>
             v == Pick(r, name, old)
             said == Says(row, name, old)
         IN  /\ v = said
             /\ OrZero(OptInt(v)) = Number(said)
             /\ OptStr(v) = TextSaid(said)
             /\ OptInt(v) \in Int \cup {None}
<1> DEFINE r == IF IsMap(row) THEN row.fields ELSE <<>>
           v == Pick(r, name, old)
           said == Says(row, name, old)
<1>1. IsValue(Null)
  BY DEF IsValue, Null, IsNull
<1>2. \A key : IsValue(Get(r, key))
  BY <1>1 DEF IsObject, Get
<1>3. \A w : IsValue(w) => (IsNull(w) <=> w = Null)
  BY DEF IsValue, IsNull, Null
<1>4. v = said
  <2>1. CASE IsMap(row)
    <3>1. \A key : Get(r, key) = Get(row.fields, key)
      BY <2>1
    <3>2. IsNull(Get(r, name)) <=> Get(r, name) = Null
      BY <1>2, <1>3
    <3> QED BY <2>1, <3>1, <3>2 DEF Pick, Says
  <2>2. CASE ~IsMap(row)
    <3>1. r = <<>>
      BY <2>2
    <3>2. \A key : Get(r, key) = Null
      BY <3>1 DEF Get
    <3> QED BY <2>2, <3>2 DEF Pick, Says, IsNull, Null
  <2> QED BY <2>1, <2>2
<1>6. v = said /\ IsValue(v)
  BY <1>2, <1>4 DEF Pick
<1> HIDE DEF v, said
<1>7. OptInt(v) \in Int \cup {None} /\ OrZero(OptInt(v)) = Number(v)
  BY <1>6, CallsAssumption DEF OptInt, OrZero, Number, IsValue
<1>8. OptStr(v) = TextSaid(v)
  BY <1>3, <1>6 DEF OptStr, TextSaid
<1> QED BY <1>6, <1>7, <1>8 DEF v, said, r

LEMMA ResultOfRow ==
  ASSUME NEW row, IsObject(row)
  PROVE  /\ CarResult(row).no = NumberOf(row)
         /\ Describes(row, Car(CarResult(row)))
         /\ Car(CarResult(row)).no = NumberOf(row)
         /\ Car(CarResult(row)).position \in Int
<1> DEFINE r == IF IsMap(row) THEN row.fields ELSE <<>>
           Picked(name, old) == Pick(r, name, old)
           car == Car(CarResult(row))
<1>1. \A name, old :
        /\ OrZero(OptInt(Picked(name, old))) = Number(Says(row, name, old))
        /\ OptStr(Picked(name, old)) = TextSaid(Says(row, name, old))
        /\ OptInt(Picked(name, old)) \in Int \cup {None}
  BY PickedIsSaid
<1>2. /\ car.no = OrZero(OptInt(Picked("startingNo", "STNR")))
      /\ car.position = OrZero(OptInt(Picked("position", "POSITION")))
      /\ car.class = OptStr(Picked("class", "CLASSNAME"))
      /\ car.driver = OptStr(Picked("driver", "NAME"))
      /\ car.laps = OrZero(OptInt(Picked("laps", "LAPS")))
      /\ car.no = CarResult(row).no
  BY DEF Car, CarResult
<1> HIDE DEF Picked, car
<1>3. car.position \in Int
  BY <1>1, <1>2 DEF OrZero
<1>4. car.no = NumberOf(row) /\ Describes(row, car)
  BY <1>1, <1>2 DEF NumberOf, Describes
<1> QED BY <1>2, <1>3, <1>4 DEF car

LEMMA RowsOfFrame ==
  ASSUME NEW frame \in Frames, IsMap(frame), NEW key
  PROVE  LET items == Items(Table(frame.fields, key))
         IN  /\ \E n \in Nat : DOMAIN items = 1 .. n
             /\ \A i \in DOMAIN items : IsObject(items[i])
<1> DEFINE table == Table(frame.fields, key)
           items == Items(table)
<1>1. IsObject(Null)
  BY DEF IsObject, IsValue, IsNull, IsMap, Null
<1>2. table = EmptyList \/ (key \in DOMAIN frame.fields /\ table = frame.fields[key])
  <2>1. Falsy(Null)
    BY DEF Falsy, IsNull, Null
  <2> QED BY <2>1 DEF Table, Or, Get
<1> HIDE DEF table
<1>3. CASE table = EmptyList
  <2>1. items = <<>>
    BY <1>3 DEF Items, EmptyList
  <2> HIDE DEF items
  <2>2. DOMAIN items = 1 .. 0
    BY <2>1
  <2> QED BY <2>2 DEF items, table
<1>4. CASE table.form # "list"
  <2>1. items = <<Null>>
    BY <1>4 DEF Items
  <2> HIDE DEF items
  <2>2. DOMAIN items = 1 .. 1 /\ items[1] = Null
    BY <2>1
  <2> QED BY <1>1, <2>2 DEF items, table
<1>5. CASE /\ key \in DOMAIN frame.fields /\ table = frame.fields[key]
           /\ table.form = "list"
  <2>1. items = table.items
    BY <1>5 DEF Items
  <2>2. IsValue(table) /\ \A i \in DOMAIN table.items : IsObject(table.items[i])
    BY <1>5, FramesAssumption DEF IsObject
  <2>3. table.items \in Seq(ToSet(table.items))
    BY <1>5, <2>2 DEF IsValue
  <2> HIDE DEF items
  <2>4. Len(items) \in Nat /\ DOMAIN items = 1 .. Len(items)
    BY <2>1, <2>3
  <2> QED BY <2>1, <2>2, <2>4 DEF items, table
<1> QED BY <1>2, <1>3, <1>4, <1>5

(* The cars of a state: a list in which a number comes once, and positions *)
(* that can be compared.                                                   *)
Standings(cars) ==
  /\ IsTable(cars)
  /\ \A k \in DOMAIN cars : cars[k].position \in Int \cup {None}
  /\ \A k, l \in DOMAIN cars : cars[k].no = cars[l].no => k = l

LEMMA CarsOfFrame ==
  ASSUME NEW frame \in Frames, Parse(frame).kind = "initial"
  PROVE  LET cars == CarsOf(Parse(frame).results)
         IN  /\ Standings(cars)
             /\ CarsOfRows(cars, Items(Table(frame.fields, "RESULT")))
<1> DEFINE rows == Items(Table(frame.fields, "RESULT"))
           results == Parse(frame).results
           cars == CarsOf(results)
<1>1. IsMap(frame) /\ results = CarRows(frame.fields, "RESULT")
  BY ParsedInitial
<1>2. results = [i \in DOMAIN rows |-> CarResult(rows[i])]
  BY <1>1 DEF CarRows
<1>3. /\ \E n \in Nat : DOMAIN rows = 1 .. n
      /\ \A i \in DOMAIN rows : IsObject(rows[i])
  BY <1>1, RowsOfFrame
<1> HIDE DEF rows, results
<1>4. DOMAIN results = DOMAIN rows /\ IsTable(results)
  BY <1>2, <1>3 DEF IsTable
<1>5. \A i \in DOMAIN rows :
        /\ results[i].no = NumberOf(rows[i])
        /\ Describes(rows[i], Car(results[i]))
        /\ Car(results[i]).no = NumberOf(rows[i])
        /\ Car(results[i]).position \in Int
  <2> TAKE i \in DOMAIN rows
  <2>1. results[i] = CarResult(rows[i])
    BY <1>2
  <2> QED BY <1>3, <2>1, ResultOfRow
<1>6. HoldsRows(cars, results)
  BY <1>4, CarsOfHoldsRows
<1> HIDE DEF cars
<1> DEFINE Of(car) == {i \in DOMAIN rows : NumberOf(rows[i]) = car.no}
<1>7. \A car : RowsOf(results, car.no) = Of(car)
  BY <1>4, <1>5 DEF RowsOf
<1>8. Standings(cars)
  <2>1. \A k \in DOMAIN cars : cars[k].position \in Int
    BY <1>4, <1>5, <1>6 DEF HoldsRows
  <2> QED BY <1>6, <2>1 DEF HoldsRows, Standings
<1>9. CarsOfRows(cars, rows)
  <2>1. \A i \in DOMAIN rows : \E k \in DOMAIN cars : NumberOf(rows[i]) = cars[k].no
    BY <1>4, <1>5, <1>6 DEF HoldsRows
  <2>2. \A k \in DOMAIN cars : \E i \in RowsOf(results, cars[k].no) :
          Describes(rows[i], cars[k]) /\ \A j \in RowsOf(results, cars[k].no) : j <= i
    BY <1>4, <1>5, <1>6 DEF HoldsRows, RowsOf
  <2> HIDE DEF Of
  <2>3. \A k \in DOMAIN cars : \E i \in Of(cars[k]) :
          Describes(rows[i], cars[k]) /\ \A j \in Of(cars[k]) : j <= i
    BY <1>7, <2>2
  <2>4. \A k, l \in DOMAIN cars : k < l =>
          \E i \in Of(cars[k]) : \A j \in Of(cars[l]) : i < j
    BY <1>6, <1>7 DEF HoldsRows
  <2> QED BY <2>1, <2>3, <2>4, Zenon DEF CarsOfRows, Of
<1> QED BY <1>8, <1>9 DEF cars, results, rows

-----------------------------------------------------------------------------
(* The cars of the state. *)

Heard == [frame : Frames] \cup [doc : Snapshots]

LastSetting(h) ==
  {i \in DOMAIN h : SetsCars(h[i]) /\ \A j \in i + 1 .. Len(h) : ~SetsCars(h[j])}

(* The cars are what the last item that sets them made of them.            *)
CarsInv ==
  /\ heard \in Seq(Heard)
  /\ DOMAIN race = StateFields
  /\ Standings(race.cars)
  /\ LastSetting(heard) = {} => race.cars = <<>>
  /\ \A i \in LastSetting(heard) :
       IF "doc" \in DOMAIN heard[i]
       THEN race.cars = FieldOr(heard[i].doc, "cars", <<>>)
       ELSE CarsOfRows(race.cars, Items(Table(heard[i].frame.fields, "RESULT")))

LEMMA NoCars == Standings(<<>>)
BY DEF Standings, IsTable

LEMMA LastOfMore ==
  ASSUME NEW S, NEW h \in Seq(S), NEW item \in S
  PROVE  LET more == Append(h, item)
         IN  /\ more \in Seq(S) /\ more[Len(h) + 1] = item
             /\ \A i \in DOMAIN h : more[i] = h[i]
             /\ Len(h) + 1 \notin DOMAIN h
             /\ LastSetting(more) =
                  IF SetsCars(item) THEN {Len(h) + 1} ELSE LastSetting(h)
<1> DEFINE more == Append(h, item)
           l == Len(h)
<1>1. /\ l \in Nat /\ DOMAIN h = 1 .. l
      /\ more \in Seq(S) /\ Len(more) = l + 1 /\ DOMAIN more = 1 .. l + 1
      /\ more[l + 1] = item
      /\ \A i \in 1 .. l : more[i] = h[i]
  OBVIOUS
<1> HIDE DEF more, l
<1>2. CASE SetsCars(item)
  <2>1. \A i \in LastSetting(more) : i = l + 1
    BY <1>1, <1>2 DEF LastSetting
  <2>2. l + 1 \in LastSetting(more)
    BY <1>1, <1>2 DEF LastSetting
  <2> QED BY <1>1, <1>2, <2>1, <2>2 DEF more, l
<1>3. CASE ~SetsCars(item)
  <2>1. ASSUME NEW i \in LastSetting(more) PROVE i \in LastSetting(h)
    <3>1. i \in 1 .. l /\ SetsCars(h[i]) /\ \A j \in i + 1 .. l + 1 : ~SetsCars(more[j])
      BY <1>1, <1>3, <2>1 DEF LastSetting
    <3>2. \A j \in i + 1 .. l : j \in i + 1 .. l + 1 /\ j \in 1 .. l
      BY <1>1, <3>1
    <3>3. \A j \in i + 1 .. l : ~SetsCars(h[j])
      BY <1>1, <3>1, <3>2
    <3> QED BY <1>1, <3>1, <3>3 DEF LastSetting, l
  <2>2. ASSUME NEW i \in LastSetting(h) PROVE i \in LastSetting(more)
    <3>1. i \in 1 .. l /\ SetsCars(more[i]) /\ \A j \in i + 1 .. l : ~SetsCars(h[j])
      BY <1>1, <2>2 DEF LastSetting, l
    <3>2. \A j \in i + 1 .. l + 1 : j = l + 1 \/ (j \in i + 1 .. l /\ j \in 1 .. l)
      BY <1>1, <3>1
    <3>3. \A j \in i + 1 .. l + 1 : ~SetsCars(more[j])
      BY <1>1, <1>3, <3>1, <3>2
    <3> QED BY <1>1, <3>1, <3>3 DEF LastSetting
  <2> QED BY <1>1, <1>3, <2>1, <2>2 DEF more, l
<1> QED BY <1>2, <1>3

LEMMA CarsInitially == QueryInit => CarsInv
<1> SUFFICES ASSUME QueryInit PROVE CarsInv
  OBVIOUS
<1>1. heard = <<>> /\ race = Empty("LIVE")
  BY DEF QueryInit
<1>2. race.cars = <<>> /\ DOMAIN race = StateFields
  BY <1>1 DEF Empty, StateFields
<1>3. LastSetting(heard) = {} /\ heard \in Seq(Heard)
  BY <1>1 DEF LastSetting
<1> QED BY <1>2, <1>3, NoCars DEF CarsInv

LEMMA HearFrameKeeps ==
  ASSUME CarsInv, NEW frame \in Frames, HearFrame(frame)
  PROVE  CarsInv'
<1> DEFINE message == Parse(frame)
           item == [frame |-> frame]
<1>1. /\ race' = IF message = Raised THEN race ELSE Apply(race, message)
      /\ heard' = Append(heard, item)
  BY DEF HearFrame
<1>2. /\ heard \in Seq(Heard) /\ item \in Heard
      /\ DOMAIN race = StateFields /\ Standings(race.cars)
  BY DEF CarsInv, Heard
<1>3. SetsCars(item) <=> message.kind = "initial"
  BY DEF SetsCars
<1>4. Raised.kind # "initial"
  BY DEF Raised
<1>5. item.frame = frame /\ "doc" \notin DOMAIN item
  OBVIOUS
<1> HIDE DEF item, message
<1>6. /\ heard' \in Seq(Heard) /\ heard'[Len(heard) + 1] = item
      /\ \A i \in DOMAIN heard : heard'[i] = heard[i]
      /\ LastSetting(heard)' =
           IF SetsCars(item) THEN {Len(heard) + 1} ELSE LastSetting(heard)
  BY <1>1, <1>2, LastOfMore DEF LastSetting
<1>7. DOMAIN race' = StateFields
        /\ race'.cars = IF message.kind = "initial"
                        THEN CarsOf(message.results) ELSE race.cars
  BY <1>1, <1>2, <1>4, AppliedCars
<1>8. CASE message.kind = "initial"
  <2>1. /\ Standings(race'.cars)
        /\ CarsOfRows(race'.cars, Items(Table(frame.fields, "RESULT")))
    BY <1>7, <1>8, CarsOfFrame DEF message
  <2> QED BY <1>3, <1>5, <1>6, <1>7, <1>8, <2>1 DEF CarsInv
<1>9. CASE message.kind # "initial"
  <2>1. LastSetting(heard)' = LastSetting(heard) /\ race'.cars = race.cars
    BY <1>3, <1>6, <1>7, <1>9
  <2>2. \A i \in LastSetting(heard) : heard'[i] = heard[i]
    BY <1>6 DEF LastSetting
  <2> QED BY <1>2, <1>6, <1>7, <2>1, <2>2 DEF CarsInv
<1> QED BY <1>8, <1>9

LEMMA ImportKeeps ==
  ASSUME CarsInv, NEW doc \in Snapshots, ImportSnapshot(doc)
  PROVE  CarsInv'
<1> DEFINE item == [doc |-> doc]
<1>1. race' = FromJson(doc) /\ heard' = Append(heard, item)
  BY DEF ImportSnapshot
<1>2. heard \in Seq(Heard) /\ item \in Heard
  BY DEF CarsInv, Heard
<1>3. SetsCars(item) /\ "doc" \in DOMAIN item /\ item.doc = doc
  BY DEF SetsCars
<1> HIDE DEF item
<1>4. /\ heard' \in Seq(Heard) /\ heard'[Len(heard) + 1] = item
      /\ LastSetting(heard)' = {Len(heard) + 1}
  BY <1>1, <1>2, <1>3, LastOfMore DEF LastSetting
<1>5. DOMAIN race' = StateFields /\ race'.cars = FieldOr(doc, "cars", <<>>)
  BY <1>1 DEF FromJson, StateFields, Empty
<1>6. Standings(race'.cars)
  <2>1. CASE "cars" \in DOMAIN doc
    <3>1. /\ race'.cars = doc.cars /\ doc.cars \in Seq(ToSet(doc.cars))
          /\ \A i \in DOMAIN doc.cars : doc.cars[i].position \in Int \cup {None}
          /\ \A i, j \in DOMAIN doc.cars : doc.cars[i].no = doc.cars[j].no => i = j
      BY <1>5, <2>1, SnapshotsAssumption DEF FieldOr
    <3> DEFINE n == Len(doc.cars)
    <3>2. n \in Nat /\ doc.cars = [i \in 1 .. n |-> doc.cars[i]]
      BY <3>1
    <3> QED BY <3>1, <3>2 DEF Standings, IsTable
  <2>2. CASE "cars" \notin DOMAIN doc
    BY <1>5, <2>2, NoCars DEF FieldOr
  <2> QED BY <2>1, <2>2
<1> QED BY <1>3, <1>4, <1>5, <1>6 DEF CarsInv

LEMMA CarsInvariant == QuerySpec => []CarsInv
<1>1. CarsInv /\ [QueryNext]_queryVars => CarsInv'
  <2> SUFFICES ASSUME CarsInv, [QueryNext]_queryVars PROVE CarsInv'
    OBVIOUS
  <2>1. CASE \E frame \in Frames : HearFrame(frame)
    BY <2>1, HearFrameKeeps
  <2>2. CASE \E doc \in Snapshots : ImportSnapshot(doc)
    BY <2>2, ImportKeeps
  <2>3. CASE UNCHANGED <<race, heard>>
    BY <2>3 DEF CarsInv, LastSetting
  <2> QED BY <2>1, <2>2, <2>3 DEF QueryNext, Call, StartOver, queryVars
<1> QED BY <1>1, CarsInitially, PTL DEF QuerySpec

(* parse(), _apply_initial_state() and import_json together: whatever was  *)
(* heard and whatever could not be read, the state has exactly the cars of *)
(* the last PID 0 or import, each as its last row has it.                  *)
THEOREM CarsAreHeard == QuerySpec => []CarsAreOfTheRows
<1>1. CarsInv => CarsAreOfTheRows
  BY DEF CarsInv, CarsAreOfTheRows, LastSetting
<1> QED BY <1>1, CarsInvariant, PTL

-----------------------------------------------------------------------------
(* The query. *)

(* What the calls add up to: of those that accumulate all, of the others   *)
(* the last.                                                               *)
Accumulated ==
  /\ query.classes = {calls[i].class : i \in Asked("class")}
  /\ query.numbers =
       IF Asked("no") = {} THEN None ELSE UNION {calls[i].numbers : i \in Asked("no")}
  /\ query.drivers = {calls[i].sub : i \in Asked("driver")}
  /\ query.unknown = (Asked("unknown") # {})

Position ==
  /\ Asked("position") = {} => query.minPos = None /\ query.maxPos = None
  /\ \A i \in LastAsked("position") :
       query.minPos = calls[i].min /\ query.maxPos = calls[i].max

Lap ==
  /\ Asked("lap") = {} => query.minLap = None /\ query.maxLap = None
  /\ \A i \in LastAsked("lap") :
       query.minLap = calls[i].min /\ query.maxLap = calls[i].max

Sector ==
  /\ Asked("sector") = {} => query.sector = None
  /\ \A i \in LastAsked("sector") : query.sector = <<calls[i].sector, calls[i].ms>>

Top ==
  /\ Asked("top") = {} => query.top = None
  /\ \A i \in LastAsked("top") : query.top = calls[i].n

CallsInv ==
  /\ calls \in Seq(Calls)
  /\ DOMAIN query = DOMAIN NewFilter
  /\ Accumulated /\ Position /\ Lap /\ Sector /\ Top

(* A set of calls that is not empty has a last one.                        *)
LEMMA LastIsThere ==
  ASSUME calls \in Seq(Calls), NEW name, Asked(name) # {}
  PROVE  \E i \in Asked(name) : LastAsked(name) = {i}
<1>1. Len(calls) \in Nat /\ Asked(name) \in SUBSET (1 .. Len(calls))
  BY DEF Asked
<1>2. Max(Asked(name)) \in Asked(name) /\ \A j \in Asked(name) : j <= Max(Asked(name))
  BY <1>1, MaxIsGreatest
<1>3. \A i, j \in Asked(name) : i \in Nat /\ (i <= j /\ j <= i => i = j)
  BY <1>1
<1>4. LastAsked(name) = {Max(Asked(name))}
  BY <1>2, <1>3 DEF LastAsked
<1> QED BY <1>2, <1>4

(* One more call.                                                          *)
LEMMA AskedMore ==
  ASSUME calls \in Seq(Calls), NEW c \in Calls, calls' = Append(calls, c)
  PROVE  LET next == Len(calls) + 1
         IN  /\ calls' \in Seq(Calls) /\ calls'[next] = c
             /\ \A i \in DOMAIN calls : calls'[i] = calls[i]
             /\ Asked(c.call)' = Asked(c.call) \cup {next}
             /\ LastAsked(c.call)' = {next}
             /\ \A name : name # c.call =>
                  Asked(name)' = Asked(name) /\ LastAsked(name)' = LastAsked(name)
             /\ \A name : Asked(name) \subseteq DOMAIN calls
             /\ \A name : LastAsked(name) \subseteq DOMAIN calls
<1> DEFINE l == Len(calls)
           next == l + 1
<1>1. /\ l \in Nat /\ DOMAIN calls = 1 .. l
      /\ calls' \in Seq(Calls) /\ DOMAIN calls' = 1 .. l + 1
      /\ calls'[l + 1] = c
      /\ \A i \in 1 .. l : calls'[i] = calls[i]
  OBVIOUS
<1> HIDE DEF l
<1>2. \A name : Asked(name)' = IF name = c.call THEN Asked(name) \cup {next}
                               ELSE Asked(name)
  <2> TAKE name
  <2>1. Asked(name)' = {i \in 1 .. l + 1 : calls'[i].call = name}
    BY <1>1 DEF Asked
  <2>2. Asked(name) = {i \in 1 .. l : calls[i].call = name}
    BY <1>1 DEF Asked
  <2>3. \A i : i \in 1 .. l + 1 <=> i \in 1 .. l \/ i = l + 1
    BY <1>1
  <2> QED BY <1>1, <2>1, <2>2, <2>3
<1>3. \A name : Asked(name) \subseteq 1 .. l /\ LastAsked(name) \subseteq 1 .. l
  BY <1>1 DEF Asked, LastAsked
<1>4. LastAsked(c.call)' = {next}
  <2>1. \A j \in Asked(c.call)' : j <= next /\ j \in Nat
    BY <1>1, <1>2, <1>3
  <2>2. LastAsked(c.call)' =
          {i \in Asked(c.call)' : \A j \in Asked(c.call)' : j <= i}
    BY DEF LastAsked
  <2>3. next \in Asked(c.call)'
    BY <1>2
  <2> QED BY <1>1, <2>1, <2>2, <2>3
<1>5. \A name : name # c.call => LastAsked(name)' = LastAsked(name)
  BY <1>2 DEF LastAsked
<1> QED BY <1>1, <1>2, <1>3, <1>4, <1>5 DEF l

LEMMA CallKeeps ==
  ASSUME CallsInv, NEW c \in Calls, Call(c)
  PROVE  CallsInv'
<1> DEFINE next == Len(calls) + 1
<1>1. query' = Called(query, c) /\ calls' = Append(calls, c)
  BY DEF Call
<1>2. /\ calls \in Seq(Calls) /\ DOMAIN query = DOMAIN NewFilter
      /\ Accumulated /\ Position /\ Lap /\ Sector /\ Top
  BY DEF CallsInv
<1>3. /\ calls' \in Seq(Calls) /\ calls'[next] = c
      /\ \A i \in DOMAIN calls : calls'[i] = calls[i]
      /\ Asked(c.call)' = Asked(c.call) \cup {next}
      /\ LastAsked(c.call)' = {next}
      /\ \A name : name # c.call =>
           Asked(name)' = Asked(name) /\ LastAsked(name)' = LastAsked(name)
      /\ \A name : Asked(name) \subseteq DOMAIN calls
      /\ \A name : LastAsked(name) \subseteq DOMAIN calls
  BY <1>1, <1>2, AskedMore
<1> HIDE DEF next
<1>4. DOMAIN query = {"classes", "numbers", "drivers", "minPos", "maxPos", "unknown",
                      "minLap", "maxLap", "sector", "top"}
  BY <1>2 DEF NewFilter
<1>5. c.call \in {"class", "no", "driver", "position", "lap", "sector", "unknown", "top"}
  BY CallsAssumption
<1>6. DOMAIN query' = DOMAIN NewFilter
  BY <1>1, <1>2, <1>5
     DEF Called, ByClass, ByStartingNo, ByDriver, ByPosition, ByLap, SectorTime,
         IncludeUnknownPosition, TopN
<1>7. Accumulated'
  <2>1. query'.classes = {calls'[i].class : i \in Asked("class")'}
    <3>1. CASE c.call = "class"
      <4>1. query'.classes = query.classes \cup {c.class}
        BY <1>1, <1>4, <3>1 DEF Called, ByClass
      <4> QED BY <1>2, <1>3, <3>1, <4>1 DEF Accumulated
    <3>2. CASE c.call # "class"
      <4>1. query'.classes = query.classes
        BY <1>1, <1>4, <1>5, <3>2
           DEF Called, ByStartingNo, ByDriver, ByPosition, ByLap, SectorTime,
               IncludeUnknownPosition, TopN
      <4> QED BY <1>2, <1>3, <3>2, <4>1 DEF Accumulated
    <3> QED BY <3>1, <3>2
  <2>2. query'.numbers = IF Asked("no")' = {} THEN None
                         ELSE UNION {calls'[i].numbers : i \in Asked("no")'}
    <3>1. CASE c.call = "no"
      <4>1. query'.numbers = IF query.numbers = None THEN c.numbers
                             ELSE query.numbers \cup c.numbers
        BY <1>1, <1>4, <3>1 DEF Called, ByStartingNo
      <4>2. Asked("no") # {} => query.numbers # None
        <5> HAVE Asked("no") # {}
        <5> DEFINE some == {calls[i] : i \in Asked("no")}
        <5>1. some \in SUBSET {d \in Calls : d.call = "no"}
          BY <1>2 DEF Asked
        <5>2. UNION {d.numbers : d \in some} # None
          BY <5>1, CallsAssumption
        <5>3. query.numbers = UNION {d.numbers : d \in some}
          BY <1>2 DEF Accumulated
        <5> QED BY <5>2, <5>3
      <4>3. query'.numbers = (UNION {calls[i].numbers : i \in Asked("no")}) \cup c.numbers
        BY <1>2, <4>1, <4>2 DEF Accumulated
      <4>4. /\ \A i \in Asked("no") : calls'[i] = calls[i]
            /\ Asked("no")' = Asked("no") \cup {next} /\ calls'[next] = c
        BY <1>3, <3>1
      <4>5. UNION {calls'[i].numbers : i \in Asked("no")'}
              = (UNION {calls[i].numbers : i \in Asked("no")}) \cup c.numbers
        BY <4>4
      <4> QED BY <4>3, <4>4, <4>5
    <3>2. CASE c.call # "no"
      <4>1. query'.numbers = query.numbers
        BY <1>1, <1>4, <1>5, <3>2
           DEF Called, ByClass, ByDriver, ByPosition, ByLap, SectorTime,
               IncludeUnknownPosition, TopN
      <4>2. Asked("no")' = Asked("no") /\ \A i \in Asked("no") : calls'[i] = calls[i]
        BY <1>3, <3>2
      <4>3. {calls'[i].numbers : i \in Asked("no")'}
              = {calls[i].numbers : i \in Asked("no")}
        BY <4>2
      <4>4. query.numbers = IF Asked("no") = {} THEN None
                            ELSE UNION {calls[i].numbers : i \in Asked("no")}
        BY <1>2 DEF Accumulated
      <4> QED BY <4>1, <4>2, <4>3, <4>4
    <3> QED BY <3>1, <3>2
  <2>3. query'.drivers = {calls'[i].sub : i \in Asked("driver")'}
    <3>1. CASE c.call = "driver"
      <4>1. query'.drivers = query.drivers \cup {c.sub}
        BY <1>1, <1>4, <3>1 DEF Called, ByDriver
      <4> QED BY <1>2, <1>3, <3>1, <4>1 DEF Accumulated
    <3>2. CASE c.call # "driver"
      <4>1. query'.drivers = query.drivers
        BY <1>1, <1>4, <1>5, <3>2
           DEF Called, ByClass, ByStartingNo, ByPosition, ByLap, SectorTime,
               IncludeUnknownPosition, TopN
      <4> QED BY <1>2, <1>3, <3>2, <4>1 DEF Accumulated
    <3> QED BY <3>1, <3>2
  <2>4. query'.unknown = (Asked("unknown")' # {})
    <3>1. CASE c.call = "unknown"
      BY <1>1, <1>3, <1>4, <3>1 DEF Called, IncludeUnknownPosition
    <3>2. CASE c.call # "unknown"
      <4>1. query'.unknown = query.unknown
        BY <1>1, <1>4, <1>5, <3>2
           DEF Called, ByClass, ByStartingNo, ByDriver, ByPosition, ByLap, SectorTime,
               TopN
      <4> QED BY <1>2, <1>3, <3>2, <4>1 DEF Accumulated
    <3> QED BY <3>1, <3>2
  <2> QED BY <2>1, <2>2, <2>3, <2>4 DEF Accumulated
<1>8. Position'
  <2>1. CASE c.call = "position"
    <3>1. query'.minPos = c.min /\ query'.maxPos = c.max
      BY <1>1, <1>4, <2>1 DEF Called, ByPosition
    <3> QED BY <1>3, <2>1, <3>1 DEF Position
  <2>2. CASE c.call # "position"
    <3>1. query'.minPos = query.minPos /\ query'.maxPos = query.maxPos
      BY <1>1, <1>4, <1>5, <2>2
         DEF Called, ByClass, ByStartingNo, ByDriver, ByLap, SectorTime,
             IncludeUnknownPosition, TopN
    <3> QED BY <1>2, <1>3, <2>2, <3>1 DEF Position
  <2> QED BY <2>1, <2>2
<1>9. Lap'
  <2>1. CASE c.call = "lap"
    <3>1. query'.minLap = c.min /\ query'.maxLap = c.max
      BY <1>1, <1>4, <2>1 DEF Called, ByLap
    <3> QED BY <1>3, <2>1, <3>1 DEF Lap
  <2>2. CASE c.call # "lap"
    <3>1. query'.minLap = query.minLap /\ query'.maxLap = query.maxLap
      BY <1>1, <1>4, <1>5, <2>2
         DEF Called, ByClass, ByStartingNo, ByDriver, ByPosition, SectorTime,
             IncludeUnknownPosition, TopN
    <3> QED BY <1>2, <1>3, <2>2, <3>1 DEF Lap
  <2> QED BY <2>1, <2>2
<1>10. Sector'
  <2>1. CASE c.call = "sector"
    <3>1. query'.sector = <<c.sector, c.ms>>
      BY <1>1, <1>4, <2>1 DEF Called, SectorTime
    <3> QED BY <1>3, <2>1, <3>1 DEF Sector
  <2>2. CASE c.call # "sector"
    <3>1. query'.sector = query.sector
      BY <1>1, <1>4, <1>5, <2>2
         DEF Called, ByClass, ByStartingNo, ByDriver, ByPosition, ByLap,
             IncludeUnknownPosition, TopN
    <3> QED BY <1>2, <1>3, <2>2, <3>1 DEF Sector
  <2> QED BY <2>1, <2>2
<1>11. Top'
  <2>1. CASE c.call = "top"
    <3>1. query'.top = c.n
      BY <1>1, <1>4, <2>1 DEF Called, TopN
    <3> QED BY <1>3, <2>1, <3>1 DEF Top
  <2>2. CASE c.call # "top"
    <3>1. query'.top = query.top
      BY <1>1, <1>4, <1>5, <2>2
         DEF Called, ByClass, ByStartingNo, ByDriver, ByPosition, ByLap, SectorTime,
             IncludeUnknownPosition
    <3> QED BY <1>2, <1>3, <2>2, <3>1 DEF Top
  <2> QED BY <2>1, <2>2
<1> QED BY <1>3, <1>6, <1>7, <1>8, <1>9, <1>10, <1>11 DEF CallsInv

LEMMA NothingAsked ==
  ASSUME query = NewFilter, calls = <<>>
  PROVE  CallsInv
<1>1. \A name : Asked(name) = {} /\ LastAsked(name) = {}
  BY DEF Asked, LastAsked
<1>2. calls \in Seq(Calls) /\ DOMAIN query = DOMAIN NewFilter
  OBVIOUS
<1>3. Accumulated /\ Position /\ Lap /\ Sector /\ Top
  BY <1>1 DEF Accumulated, Position, Lap, Sector, Top, NewFilter
<1> QED BY <1>2, <1>3 DEF CallsInv

LEMMA CallsInvariant == QuerySpec => []CallsInv
<1>1. QueryInit => CallsInv
  BY NothingAsked DEF QueryInit
<1>2. CallsInv /\ [QueryNext]_queryVars => CallsInv'
  <2> SUFFICES ASSUME CallsInv, [QueryNext]_queryVars PROVE CallsInv'
    OBVIOUS
  <2>1. CASE \E c \in Calls : Call(c)
    BY <2>1, CallKeeps
  <2>2. CASE StartOver
    <3>1. (query = NewFilter)' /\ (calls = <<>>)'
      BY <2>2 DEF StartOver
    <3> QED BY <3>1, NothingAsked, PTL
  <2>3. CASE UNCHANGED <<query, calls>>
    <3>1. \A name : Asked(name)' = Asked(name)
      BY <2>3 DEF Asked
    <3>2. \A name : LastAsked(name)' = LastAsked(name)
      BY <3>1 DEF LastAsked
    <3>3. query' = query /\ calls' = calls
          /\ Accumulated /\ Position /\ Lap /\ Sector /\ Top
      BY <2>3 DEF CallsInv
    <3>4. Accumulated'
      BY <3>1, <3>3, Zenon DEF Accumulated
    <3>5. Position' /\ Lap' /\ Sector' /\ Top'
      BY <3>2, <3>1, <3>3, Zenon DEF Position, Lap, Sector, Top
    <3> QED BY <2>3, <3>4, <3>5 DEF CallsInv
  <2> QED BY <2>1, <2>2, <2>3
          DEF QueryNext, HearFrame, ImportSnapshot, queryVars
<1> QED BY <1>1, <1>2, PTL DEF QuerySpec

-----------------------------------------------------------------------------
(* The answer. *)

Wanted == {i \in DOMAIN race.cars : Matches(race.cars[i])}

(* The query keeps what the calls ask for.                                 *)
LEMMA KeepsWhatMatches ==
  ASSUME CallsInv, NEW car
  PROVE  Keeps(query, car) <=> Matches(car)
<1>1. /\ calls \in Seq(Calls)
      /\ Accumulated /\ Position /\ Lap /\ Sector /\ Top
  BY DEF CallsInv
<1>2. \A name : Asked(name) # {} => \E i \in Asked(name) : LastAsked(name) = {i}
  BY <1>1, LastIsThere
<1>3. \A name : Asked(name) = {} => LastAsked(name) = {}
  BY DEF LastAsked
<1>4. \A name : \A i \in Asked(name) : calls[i] \in Calls /\ calls[i].call = name
  BY <1>1 DEF Asked
<1>5. (query.classes # {} => car.class \in query.classes)
        <=> (Asked("class") # {} => \E i \in Asked("class") : calls[i].class = car.class)
  BY <1>1 DEF Accumulated
<1>6. (query.numbers # None => car.no \in query.numbers)
        <=> (Asked("no") # {} => \E i \in Asked("no") : car.no \in calls[i].numbers)
  <2>1. CASE Asked("no") = {}
    BY <1>1, <2>1 DEF Accumulated
  <2>2. CASE Asked("no") # {}
    <3> DEFINE some == {calls[i] : i \in Asked("no")}
    <3>1. some \in SUBSET {d \in Calls : d.call = "no"}
      BY <1>4
    <3>2. UNION {d.numbers : d \in some} # None
      BY <3>1, CallsAssumption
    <3>3. query.numbers = UNION {calls[i].numbers : i \in Asked("no")}
      BY <1>1, <2>2 DEF Accumulated
    <3>4. UNION {calls[i].numbers : i \in Asked("no")} = UNION {d.numbers : d \in some}
      OBVIOUS
    <3>5. car.no \in query.numbers <=> \E i \in Asked("no") : car.no \in calls[i].numbers
      BY <3>3
    <3> QED BY <2>2, <3>2, <3>3, <3>4, <3>5
  <2> QED BY <2>1, <2>2
<1>7. (query.drivers # {} => DriverMatch(query, car))
        <=> (Asked("driver") # {} =>
               \E i \in Asked("driver") : <<car.driver, calls[i].sub>> \in Includes)
  <2>1. query.drivers = {calls[i].sub : i \in Asked("driver")}
    BY <1>1 DEF Accumulated
  <2>2. \A sub : <<car.driver, sub>> \in Includes => car.driver # None
    BY CallsAssumption
  <2> QED BY <2>1, <2>2 DEF DriverMatch
<1>8. PosMatch(query, car)
        <=> /\ \A i \in LastAsked("position") :
                 car.position # None => Within(car.position, calls[i])
            /\ car.position = None => Asked("unknown") # {}
  <2>1. query.unknown <=> Asked("unknown") # {}
    BY <1>1 DEF Accumulated
  <2>2. CASE Asked("position") = {}
    BY <1>1, <1>3, <2>1, <2>2 DEF PosMatch, Between, Position
  <2>3. CASE Asked("position") # {}
    <3>1. PICK i : LastAsked("position") = {i}
      BY <1>2, <2>3
    <3>2. query.minPos = calls[i].min /\ query.maxPos = calls[i].max
      BY <1>1, <3>1 DEF Position
    <3> QED BY <2>1, <3>1, <3>2 DEF PosMatch, Between, Within
  <2> QED BY <2>2, <2>3
<1>9. Between(car.laps, query.minLap, query.maxLap)
        <=> \A i \in LastAsked("lap") : Within(car.laps, calls[i])
  <2>1. CASE Asked("lap") = {}
    BY <1>1, <1>3, <2>1 DEF Between, Lap
  <2>2. CASE Asked("lap") # {}
    <3>1. PICK i : LastAsked("lap") = {i}
      BY <1>2, <2>2
    <3>2. query.minLap = calls[i].min /\ query.maxLap = calls[i].max
      BY <1>1, <3>1 DEF Lap
    <3> QED BY <3>1, <3>2 DEF Between, Within
  <2> QED BY <2>1, <2>2
<1>10. (query.sector # None => HasBestBelow(car, query.sector[1], query.sector[2]))
         <=> \A i \in LastAsked("sector") :
               /\ calls[i].sector \in DOMAIN car.sector_bests
               /\ car.sector_bests[calls[i].sector] < calls[i].ms
  <2>1. CASE Asked("sector") = {}
    BY <1>1, <1>3, <2>1 DEF Sector
  <2>2. CASE Asked("sector") # {}
    <3>1. PICK i \in Asked("sector") : LastAsked("sector") = {i}
      BY <1>2, <2>2
    <3>2. query.sector = <<calls[i].sector, calls[i].ms>>
      BY <1>1, <3>1 DEF Sector
    <3>3. query.sector # None
      BY <1>4, <3>1, <3>2, CallsAssumption
    <3> QED BY <3>1, <3>2, <3>3 DEF HasBestBelow
  <2> QED BY <2>1, <2>2
<1> QED BY <1>5, <1>6, <1>7, <1>8, <1>9, <1>10 DEF Keeps, Matches

(* The key of the sort puts any two of the cars in an order.               *)
Sooner(i, j) ==
  \/ Ahead(race.cars[i].position, race.cars[j].position)
  \/ i < j /\ ~Ahead(race.cars[j].position, race.cars[i].position)

LEMMA SoonerOrders ==
  ASSUME Standings(race.cars), NEW S \in SUBSET DOMAIN race.cars
  PROVE  Orders({pair \in S \X S : Sooner(pair[1], pair[2])}, S)
<1>1. PICK n \in Nat : DOMAIN race.cars = 1 .. n
  BY DEF Standings, IsTable
<1>2. \A i \in S : i \in Nat /\ race.cars[i].position \in Int \cup {None}
  BY <1>1 DEF Standings
<1> DEFINE p(i) == race.cars[i].position
<1>3. None \notin Int
  BY CallsAssumption
<1>4. \A i, j \in S : Sooner(i, j) <=>
        \/ p(i) # None /\ (p(j) = None \/ p(i) < p(j))
        \/ i < j /\ ~(p(j) # None /\ (p(i) = None \/ p(j) < p(i)))
  BY DEF Sooner, Ahead
<1>5. \A i \in S : p(i) \in Int \cup {None}
  BY <1>2
<1> HIDE DEF p
<1>6. \A i, j \in S : Sooner(i, j) => ~Sooner(j, i)
  BY <1>2, <1>3, <1>4, <1>5
<1>7. \A i, j, k \in S : Sooner(i, j) /\ Sooner(j, k) => Sooner(i, k)
  BY <1>2, <1>3, <1>4, <1>5
<1>8. \A i, j \in S : i = j \/ Sooner(i, j) \/ Sooner(j, i)
  BY <1>2, <1>3, <1>4, <1>5
<1> QED BY <1>6, <1>7, <1>8 DEF Orders

(* What cars() returns: the cars that match, sorted, up to the limit.      *)
LEMMA AnswerIsSorted ==
  ASSUME CarsInv, CallsInv
  PROVE  \E order :
           /\ IsFiniteSet(Wanted) /\ order \in SetToSeqs(Wanted)
           /\ \A k, l \in DOMAIN order : k < l => Sooner(order[k], order[l])
           /\ Cars(race, query) =
                [k \in 1 .. IF query.top = None THEN Len(order)
                            ELSE Min({query.top, Len(order)})
                   |-> race.cars[order[k]]]
<1> DEFINE R == {pair \in Wanted \X Wanted : Sooner(pair[1], pair[2])}
           order == CHOOSE s \in SetToSeqs(Wanted) :
                      \A k, l \in DOMAIN s : k < l => Sooner(s[k], s[l])
           kept == {i \in DOMAIN race.cars : Keeps(query, race.cars[i])}
<1>1. Standings(race.cars) /\ Wanted \in SUBSET DOMAIN race.cars
  BY DEF CarsInv, Wanted
<1>2. IsFiniteSet(Wanted)
  <2>1. PICK n \in Nat : DOMAIN race.cars = 1 .. n
    BY <1>1 DEF Standings, IsTable
  <2>2. IsFiniteSet(1 .. n)
    BY FS_Interval
  <2> QED BY <1>1, <2>1, <2>2, FS_Subset
<1>3. Orders(R, Wanted)
  BY <1>1, SoonerOrders
<1>4. PICK s \in SetToSeqs(Wanted) :
        \A k, l \in DOMAIN s : k < l => <<s[k], s[l]>> \in R
  BY <1>2, <1>3, SortingExists
<1>5. /\ order \in SetToSeqs(Wanted)
      /\ \A k, l \in DOMAIN order : k < l => Sooner(order[k], order[l])
  <2>1. \A k, l \in DOMAIN s : k < l => Sooner(s[k], s[l])
    BY <1>4
  <2> QED BY <1>4, <2>1
<1>6. kept = Wanted
  BY KeepsWhatMatches DEF Wanted
<1> DEFINE sorted == CHOOSE q \in SetToSeqs(kept) :
             \A k, l \in DOMAIN q : k < l =>
               \/ Ahead(race.cars[q[k]].position, race.cars[q[l]].position)
               \/ q[k] < q[l] /\ ~Ahead(race.cars[q[l]].position, race.cars[q[k]].position)
<1>7. Cars(race, query) =
        [k \in 1 .. IF query.top = None THEN Len(sorted)
                    ELSE Min({query.top, Len(sorted)})
           |-> race.cars[sorted[k]]]
  BY Zenon DEF Cars, Sorted
<1>8. sorted = order
  BY <1>6, Zenon DEF Sooner
<1> HIDE DEF order, sorted
<1>9. Cars(race, query) =
        [k \in 1 .. IF query.top = None THEN Len(order)
                    ELSE Min({query.top, Len(order)})
           |-> race.cars[order[k]]]
  BY <1>7, <1>8, Zenon
<1> QED BY <1>2, <1>5, <1>9, Zenon

LEMMA AnswerIsRight == CarsInv /\ CallsInv => CarsAsAsked
<1> SUFFICES ASSUME CarsInv, CallsInv PROVE CarsAsAsked
  OBVIOUS
<1> DEFINE answer == Cars(race, query)
           Place(k) == CHOOSE i \in Wanted : race.cars[i] = answer[k]
           Later(i, j) ==
             LET p == race.cars[i].position  q == race.cars[j].position
             IN IF p = q THEN i > j ELSE p = None \/ (q # None /\ p > q)
           limits == {calls[i].n : i \in LastAsked("top")}
           n == Cardinality(Wanted)
<1>1. PICK order :
        /\ IsFiniteSet(Wanted) /\ order \in SetToSeqs(Wanted)
        /\ \A k, l \in DOMAIN order : k < l => Sooner(order[k], order[l])
        /\ answer = [k \in 1 .. IF query.top = None THEN Len(order)
                                ELSE Min({query.top, Len(order)})
                       |-> race.cars[order[k]]]
  BY AnswerIsSorted
<1>2. /\ n \in Nat /\ Len(order) = n /\ DOMAIN order = 1 .. n
      /\ \A k \in 1 .. n : order[k] \in Wanted
      /\ \A k, l \in 1 .. n : order[k] = order[l] => k = l
      /\ \A i \in Wanted : \E k \in 1 .. n : order[k] = i
  BY <1>1, EachOnce
<1>3. /\ Standings(race.cars) /\ \A i \in Wanted : i \in DOMAIN race.cars
      /\ calls \in Seq(Calls) /\ Top
  BY DEF CarsInv, CallsInv, Wanted
<1> DEFINE shown == IF query.top = None THEN n ELSE Min({query.top, n})
<1>4. /\ shown \in 0 .. n
      /\ IF limits = {} THEN shown = n
         ELSE \A m \in limits : shown = Min({m, n})
  <2>1. CASE Asked("top") = {}
    <3>1. query.top = None /\ limits = {}
      BY <1>3, <2>1 DEF Top, LastAsked
    <3> QED BY <1>2, <3>1
  <2>2. CASE Asked("top") # {}
    <3>1. PICK i \in Asked("top") : LastAsked("top") = {i}
      BY <1>3, <2>2, LastIsThere
    <3>2. query.top = calls[i].n /\ limits = {calls[i].n}
      BY <1>3, <3>1 DEF Top
    <3>3. calls[i].n \in Nat
      BY <1>3, <3>1, CallsAssumption DEF Asked
    <3>4. query.top # None
      BY <3>2, <3>3, CallsAssumption
    <3>5. shown = Min({query.top, n})
      BY <3>4
    <3>6. Min({query.top, n}) \in {query.top, n}
            /\ \A x \in {query.top, n} : Min({query.top, n}) <= x
      <4>1. {query.top, n} \in SUBSET Nat /\ {query.top, n} # {}
        BY <1>2, <3>2, <3>3
      <4> QED BY <4>1, MinIsLeast
    <3>7. Min({query.top, n}) \in 0 .. n
      BY <1>2, <3>2, <3>3, <3>6
    <3> QED BY <3>2, <3>5, <3>7
  <2> QED BY <2>1, <2>2
<1>5. answer = [k \in 1 .. shown |-> race.cars[order[k]]]
  BY <1>1, <1>2
<1> HIDE DEF shown, answer, n, limits
<1>6. /\ DOMAIN answer = 1 .. shown /\ Len(answer) = shown /\ 1 .. shown \subseteq 1 .. n
      /\ \A k \in 1 .. shown : answer[k] = race.cars[order[k]]
  <2>1. shown \in Nat /\ shown <= n
    BY <1>2, <1>4
  <2> QED BY <1>2, <1>5, <2>1
<1>7. \A k \in 1 .. shown : Place(k) = order[k]
  <2> TAKE k \in 1 .. shown
  <2>1. order[k] \in Wanted /\ race.cars[order[k]] = answer[k]
    BY <1>2, <1>6
  <2>2. \A i \in Wanted : race.cars[i] = answer[k] => i = order[k]
    BY <1>3, <2>1 DEF Standings
  <2> QED BY <2>1, <2>2
<1> HIDE DEF Place
<1>8. \A i, j \in Wanted : Sooner(i, j) => Later(j, i)
  <2> TAKE i, j \in Wanted
  <2>1. PICK m \in Nat : DOMAIN race.cars = 1 .. m
    BY <1>3 DEF Standings, IsTable
  <2>2. /\ race.cars[i].position \in Int \cup {None} /\ i \in Nat
        /\ race.cars[j].position \in Int \cup {None} /\ j \in Nat
    BY <1>3, <2>1 DEF Standings
  <2> DEFINE p == race.cars[i].position
             q == race.cars[j].position
  <2>3. p \in Int \cup {None} /\ q \in Int \cup {None} /\ None \notin Int
    BY <2>2, CallsAssumption
  <2>4. Sooner(i, j) <=>
          \/ p # None /\ (q = None \/ p < q)
          \/ i < j /\ ~(q # None /\ (p = None \/ q < p))
    BY DEF Sooner, Ahead
  <2>5. Later(j, i) <=> IF q = p THEN j > i ELSE q = None \/ (p # None /\ q > p)
    OBVIOUS
  <2> HIDE DEF p, q, Later
  <2> QED BY <2>2, <2>3, <2>4, <2>5
<1> HIDE DEF Later
<1>9. \A k, l \in 1 .. n : k < l => Later(order[l], order[k])
  BY <1>1, <1>2, <1>8
<1>10. \A k \in DOMAIN answer : \E i \in Wanted : answer[k] = race.cars[i]
  BY <1>2, <1>6
<1>11. \A k, l \in DOMAIN answer : k < l => Later(Place(l), Place(k))
  BY <1>6, <1>7, <1>9
<1>12. IF limits = {} THEN Len(answer) = n
       ELSE \A m \in limits : Len(answer) = Min({m, n})
  BY <1>4, <1>6
<1>13. \A i \in Wanted : \A k \in DOMAIN answer :
         (\A l \in DOMAIN answer : Place(l) # i) => Later(i, Place(k))
  <2> SUFFICES ASSUME NEW i \in Wanted, NEW k \in 1 .. shown,
                      \A l \in 1 .. shown : Place(l) # i
               PROVE  Later(i, Place(k))
    BY <1>6
  <2>1. PICK m \in 1 .. n : order[m] = i
    BY <1>2
  <2>2. m \notin 1 .. shown
    BY <1>7, <2>1
  <2>3. k < m /\ k \in 1 .. n
    BY <1>2, <1>4, <1>6, <2>1, <2>2
  <2> QED BY <1>7, <1>9, <2>1, <2>3
<1> QED BY <1>10, <1>11, <1>12, <1>13, Zenon
        DEF CarsAsAsked, Wanted, answer, Place, Later, limits, n

(* Filter.cars(): whatever the calls, their order and how often each was   *)
(* made, and whatever the state has become since, the answer has the cars  *)
(* that match, best placed first, as many as top() allows.                 *)
THEOREM AnswersAsAsked == QuerySpec => []CarsAsAsked
BY CarsInvariant, CallsInvariant, AnswerIsRight, PTL
=============================================================================
