------------------------------- MODULE Filter -------------------------------
(***************************************************************************)
(* The queries (state/filter.py): a builder that each call narrows, and    *)
(* cars(), which reads the state as it is when it is called.               *)
(***************************************************************************)
EXTENDS RaceState

CONSTANT
  Includes     \* pairs <<text, substring>>, without regard to case

(* Filter.__init__. None is a bound that was not given.                    *)
NewFilter ==
  [classes |-> {}, numbers |-> None, drivers |-> {},
   minPos |-> None, maxPos |-> None, unknown |-> FALSE,
   minLap |-> None, maxLap |-> None, sector |-> None, top |-> None]

(* The calls. Each is a record: what is called and with what.              *)
ByClass(f, c) == [f EXCEPT !.classes = @ \cup {c.class}]

(* Mutant: the latest call is the only one, as in the other dimensions.    *)
ByStartingNoLatest(f, c) == [f EXCEPT !.numbers = c.numbers]

ByStartingNo(f, c) ==
  [f EXCEPT !.numbers = IF @ = None THEN c.numbers ELSE @ \cup c.numbers]

ByDriver(f, c) == [f EXCEPT !.drivers = @ \cup {c.sub}]

ByPosition(f, c) == [f EXCEPT !.minPos = c.min, !.maxPos = c.max]

ByLap(f, c) == [f EXCEPT !.minLap = c.min, !.maxLap = c.max]

SectorTime(f, c) == [f EXCEPT !.sector = <<c.sector, c.ms>>]

IncludeUnknownPosition(f) == [f EXCEPT !.unknown = TRUE]

TopN(f, c) == [f EXCEPT !.top = c.n]

Called(f, c) ==
  CASE c.call = "class"    -> ByClass(f, c)
    [] c.call = "no"       -> ByStartingNo(f, c)
    [] c.call = "driver"   -> ByDriver(f, c)
    [] c.call = "position" -> ByPosition(f, c)
    [] c.call = "lap"      -> ByLap(f, c)
    [] c.call = "sector"   -> SectorTime(f, c)
    [] c.call = "unknown"  -> IncludeUnknownPosition(f)
    [] c.call = "top"      -> TopN(f, c)

-----------------------------------------------------------------------------
(* cars(). *)

Between(x, min, max) == (min = None \/ x >= min) /\ (max = None \/ x <= max)

DriverMatch(f, car) ==
  car.driver # None /\ \E sub \in f.drivers : <<car.driver, sub>> \in Includes

PosMatch(f, car) ==
  IF car.position = None THEN f.unknown
  ELSE Between(car.position, f.minPos, f.maxPos)

Keeps(f, car) ==
  /\ f.classes # {} => car.class \in f.classes
  /\ f.numbers # None => car.no \in f.numbers
  /\ f.drivers # {} => DriverMatch(f, car)
  /\ PosMatch(f, car)
  /\ Between(car.laps, f.minLap, f.maxLap)
  /\ f.sector # None => HasBestBelow(car, f.sector[1], f.sector[2])

(* The key of the sort, which is stable.                                   *)
Ahead(p, q) == p # None /\ (q = None \/ p < q)

Cars(s, f) ==
  LET kept == {i \in DOMAIN s.cars : Keeps(f, s.cars[i])}
      Before(i, j) ==
        \/ Ahead(s.cars[i].position, s.cars[j].position)
        \/ i < j /\ ~Ahead(s.cars[j].position, s.cars[i].position)
      order == Sorted(kept, Before)
      shown == IF f.top = None THEN Len(order) ELSE Min({f.top, Len(order)})
  IN [k \in 1 .. shown |-> s.cars[order[k]]]
=============================================================================
