---------------------------- MODULE MCRaceCache ----------------------------
(* Instances of RaceCache for TLC.                                         *)
EXTENDS RaceCache

MCValues == {"a", "b"}
MCLabels == {"LIVE", "REPLAY"}

Table(kind, v) == [kind |-> kind, results |-> v]
Lap(lap, time, form) == [lap |-> lap, time |-> time, form |-> form]
Sector(no, sector, value) == [no |-> no, sector |-> sector, value |-> value]
Place(no, position) ==
  [no |-> no, position |-> position, laps |-> 0, class |-> "a", driver |-> None]

(* Two messages of each kind that keeps a history, with rows that meet     *)
(* within a message and between the two; one of each that only replaces.   *)
Laps(rows) == [kind |-> "laps", session |-> "a", no |-> 7, laps |-> rows]
Stats(v, rows) == [kind |-> "statistics", leading |-> v, sectors |-> rows]
Race(key, raw) == [kind |-> "race", key |-> key, raw |-> raw]
Start(v, rows) == [kind |-> "initial", session |-> v, results |-> rows]

RaceMessages == {Race("a", "a"), Race("a", "b"), Race("b", "a")}

LapMessages ==
  {Laps(<<Lap(1, 90, "good"), Lap(2, 95, "malformed"), Lap(1, 88, "good")>>),
   Laps(<<Lap(1, 91, "good"), Lap(2, 99, "good")>>)}

SectorMessages ==
  {Stats("a", <<Sector(7, 1, 30), Sector(7, 1, 32)>>),
   Stats("b", <<Sector(7, 1, 31), Sector(11, 1, None)>>)}

InitialMessages ==
  {Start("a", <<Place(7, 2), Place(11, 1), Place(7, 3)>>),
   Start("b", <<Place(7, None), Place(11, None), Place(5, 1)>>)}

OtherMessages ==
  {[kind |-> "track", track |-> "a"], Table("qualifying", "a"),
   [kind |-> "other"]}

(* The row after the one that overflows is lost with it.                   *)
Overflowing == {Laps(<<Lap(1, 90, "overflows"), Lap(2, 95, "good")>>)}

AllMessages ==
  RaceMessages \cup LapMessages \cup SectorMessages
    \cup InitialMessages \cup OtherMessages \cup Overflowing

SomeDamage == {{}, {"source"}}
============================================================================
