------------------------------- MODULE Query -------------------------------
(***************************************************************************)
(* From the server's frames to a consumer's answer: parse() and apply() of *)
(* every frame (Parser, RaceState), snapshots that are imported, and a     *)
(* query that is put together call by call and asked at any time (Filter). *)
(***************************************************************************)
EXTENDS Parser, Filter, Integers

CONSTANTS
  Frames,      \* bound: the frames the server sends
  Snapshots,   \* bound: documents that are imported, of any origin
  Calls,       \* bound: the calls of a query
  MaxHeard,    \* bound: frames and imports
  MaxCalls     \* bound: calls of one query

ASSUME QueryAssumption == MaxHeard \in Nat /\ MaxCalls \in Nat

(* JSON: there is one null, a number is one, and a list is a list.         *)
IsValue(v) ==
  /\ IsNull(v) => v = Null
  /\ v.form \in {"number", "digits"} => v.n \in Int
  /\ v.form = "list" => v.items \in Seq(ToSet(v.items))

(* A value, and what it holds, if that can be asked for by a key.          *)
IsObject(v) ==
  IsValue(v) /\ (IsMap(v) => \A key \in DOMAIN v.fields : IsValue(v.fields[key]))

ASSUME FramesAssumption ==
  \A frame \in Frames :
    /\ IsObject(frame)
    /\ IsMap(frame) => \A key \in DOMAIN frame.fields :
         frame.fields[key].form = "list" =>
           \A i \in DOMAIN frame.fields[key].items : IsObject(frame.fields[key].items[i])

(* A document has a car under its number: a number once.                   *)
ASSUME SnapshotsAssumption ==
  \A doc \in Snapshots : "cars" \in DOMAIN doc =>
    /\ doc.cars \in Seq(ToSet(doc.cars))
    /\ \A i \in DOMAIN doc.cars : doc.cars[i].position \in Int \cup {None}
    /\ \A i, j \in DOMAIN doc.cars : doc.cars[i].no = doc.cars[j].no => i = j

(* None is no argument of a call, but for a bound, and includes nothing.   *)
ASSUME CallsAssumption ==
  /\ \A c \in Calls :
       /\ c.call \in {"class", "no", "driver", "position", "lap", "sector",
                     "unknown", "top"}
       /\ c.call = "sector" => <<c.sector, c.ms>> # None
       /\ c.call = "top" => c.n \in Nat
  /\ \A some \in SUBSET {c \in Calls : c.call = "no"} :
       UNION {c.numbers : c \in some} # None
  /\ None \notin Int
  /\ \A pair \in Includes : pair[1] # None

VARIABLES
  race,        \* the RaceState
  query,       \* the Filter over it
  heard,       \* what it was given, in order
  calls        \* the calls of the query, in order

queryVars == <<race, query, heard, calls>>

QueryInit ==
  /\ race = Empty("LIVE")
  /\ query = NewFilter
  /\ heard = <<>>
  /\ calls = <<>>

(* A frame of any transport; one that parse() raises on is dropped.        *)
HearFrame(frame) ==
  LET message == Parse(frame)
  IN /\ Len(heard) < MaxHeard
     /\ race' = IF message = Raised THEN race ELSE Apply(race, message)
     /\ heard' = Append(heard, [frame |-> frame])
     /\ UNCHANGED <<query, calls>>

ImportSnapshot(doc) ==
  /\ Len(heard) < MaxHeard
  /\ Accepts(doc)
  /\ race' = FromJson(doc)
  /\ heard' = Append(heard, [doc |-> doc])
  /\ UNCHANGED <<query, calls>>

Call(c) ==
  /\ Len(calls) < MaxCalls
  /\ query' = Called(query, c)
  /\ calls' = Append(calls, c)
  /\ UNCHANGED <<race, heard>>

(* state.filter() again.                                                   *)
StartOver ==
  /\ query' = NewFilter
  /\ calls' = <<>>
  /\ UNCHANGED <<race, heard>>

QueryNext ==
  \/ \E frame \in Frames : HearFrame(frame)
  \/ \E doc \in Snapshots : ImportSnapshot(doc)
  \/ \E c \in Calls : Call(c)
  \/ StartOver

QuerySpec == QueryInit /\ [][QueryNext]_queryVars

-----------------------------------------------------------------------------
(* What a row of a frame says of a car. *)

(* A field has a new name and an old one, which counts where the new one   *)
(* is missing or null. What is no object says nothing.                     *)
Says(row, name, old) ==
  IF ~IsMap(row) THEN Null
  ELSE LET v == Get(row.fields, name)
       IN IF v # Null THEN v ELSE Get(row.fields, old)

TextSaid(v) == IF v = Null THEN None ELSE v.text

Number(v) == IF v.form \in {"number", "digits"} THEN v.n ELSE 0

NumberOf(row) == Number(Says(row, "startingNo", "STNR"))

Describes(row, car) ==
  /\ car.no = NumberOf(row)
  /\ car.position = Number(Says(row, "position", "POSITION"))
  /\ car.laps = Number(Says(row, "laps", "LAPS"))
  /\ car.class = TextSaid(Says(row, "class", "CLASSNAME"))
  /\ car.driver = TextSaid(Says(row, "driver", "NAME"))

(* The cars are those of the rows, each as its last row has it, in the     *)
(* order in which their first rows come.                                   *)
CarsOfRows(cars, rows) ==
  LET Of(car) == {i \in DOMAIN rows : NumberOf(rows[i]) = car.no}
  IN /\ \A i \in DOMAIN rows : \E k \in DOMAIN cars : NumberOf(rows[i]) = cars[k].no
     /\ \A k \in DOMAIN cars : \E i \in Of(cars[k]) :
          Describes(rows[i], cars[k]) /\ \A j \in Of(cars[k]) : j <= i
     /\ \A k, l \in DOMAIN cars : k < l =>
          \E i \in Of(cars[k]) : \A j \in Of(cars[l]) : i < j

(* What sets the cars: an import, and PID 0 if it can be read.             *)
SetsCars(item) ==
  "doc" \in DOMAIN item \/ Parse(item.frame).kind = "initial"

-----------------------------------------------------------------------------
(* Properties. *)

(* parse(), apply() and import_json together: whatever else was heard, and *)
(* whatever frame could not be read, the cars are those of the last PID 0  *)
(* frame or import: one for each number, with the values of its last row   *)
(* under either name of a field, a zero being a value, and what is missing *)
(* or malformed a zero.                                                    *)
CarsAreOfTheRows ==
  LET last == {i \in DOMAIN heard :
                 /\ SetsCars(heard[i])
                 /\ \A j \in i + 1 .. Len(heard) : ~SetsCars(heard[j])}
  IN /\ last = {} => race.cars = <<>>
     /\ \A i \in last :
          IF "doc" \in DOMAIN heard[i]
          THEN race.cars = FieldOr(heard[i].doc, "cars", <<>>)
          ELSE CarsOfRows(race.cars, Items(Table(heard[i].frame.fields, "RESULT")))

Asked(call) == {i \in DOMAIN calls : calls[i].call = call}

LastAsked(call) == {i \in Asked(call) : \A j \in Asked(call) : j <= i}

Within(x, c) == (c.min # None => x >= c.min) /\ (c.max # None => x <= c.max)

(* The class, number and driver calls add up, of the others the last one   *)
(* counts; a car without a position is asked for by a call of its own.     *)
Matches(car) ==
  /\ Asked("class") # {} => \E i \in Asked("class") : calls[i].class = car.class
  /\ Asked("no") # {} => \E i \in Asked("no") : car.no \in calls[i].numbers
  /\ Asked("driver") # {} =>
       \E i \in Asked("driver") : <<car.driver, calls[i].sub>> \in Includes
  /\ \A i \in LastAsked("position") :
       car.position # None => Within(car.position, calls[i])
  /\ car.position = None => Asked("unknown") # {}
  /\ \A i \in LastAsked("lap") : Within(car.laps, calls[i])
  /\ \A i \in LastAsked("sector") :
       /\ calls[i].sector \in DOMAIN car.sector_bests
       /\ car.sector_bests[calls[i].sector] < calls[i].ms

(* Filter: whatever the calls and their order, and whatever was heard      *)
(* since, cars() has of the cars that match the best placed ones, as many  *)
(* as there are or as top() allows, those without a position last and      *)
(* those that share one as they stand in the state.                        *)
CarsAsAsked ==
  LET answer == Cars(race, query)
      wanted == {i \in DOMAIN race.cars : Matches(race.cars[i])}
      Place(k) == CHOOSE i \in wanted : race.cars[i] = answer[k]
      Later(i, j) ==
        LET p == race.cars[i].position  q == race.cars[j].position
        IN IF p = q THEN i > j ELSE p = None \/ (q # None /\ p > q)
      limits == {calls[i].n : i \in LastAsked("top")}
  IN /\ \A k \in DOMAIN answer : \E i \in wanted : answer[k] = race.cars[i]
     /\ \A k, l \in DOMAIN answer : k < l => Later(Place(l), Place(k))
     /\ IF limits = {} THEN Len(answer) = Cardinality(wanted)
        ELSE \A n \in limits : Len(answer) = Min({n, Cardinality(wanted)})
     /\ \A i \in wanted : \A k \in DOMAIN answer :
          (\A l \in DOMAIN answer : Place(l) # i) => Later(i, Place(k))
=============================================================================
