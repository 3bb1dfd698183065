------------------------------ MODULE MCQuery ------------------------------
(* Query on small instances.                                                *)
EXTENDS Query

Num(n) == [form |-> "number", n |-> n, text |-> ToString(n)]
Digits(n) == [form |-> "digits", n |-> n, text |-> ToString(n)]
Word(t) == [form |-> "word", text |-> t]
HugeNumber == [form |-> "huge", text |-> "inf"]
NotANumber == [form |-> "nan", text |-> "nan"]
List(items) == [form |-> "list", text |-> "[...]", items |-> items]
Map(fields) == [form |-> "map", text |-> "{...}", fields |-> fields]

(* Rows under the new names, the old ones and both; with zeros, text and   *)
(* null where a number should be, and a number of a car that comes twice.  *)
NewRow(no, position, class, driver, laps) ==
  Map([startingNo |-> Digits(no), position |-> position, class |-> Word(class),
       driver |-> Word(driver), laps |-> laps, best |-> Word("8:10.5")])

OldRow == Map([STNR |-> Num(9), POSITION |-> Digits(1), CLASSNAME |-> Word("sp9"),
               LAPS |-> Num(3)])

MixedRow == Map([startingNo |-> Num(4), STNR |-> Num(9), position |-> Num(0),
                 POSITION |-> Num(2), class |-> Null, laps |-> Word("?")])

Race0(rows) == Map([eventPid |-> Num(0), TRACKNAME |-> Word("ring"),
                    RESULT |-> List(rows), BEST |-> List(<<Word("junk")>>)])

Standing ==
  Race0(<<NewRow(7, Num(2), "sp9", "m. mueller", Num(4)), OldRow,
          NewRow(5, Digits(2), "sp7", "k. weber", Digits(3)),
          NewRow(9, Word("-"), "sp7", "m. mueller", Num(0))>>)

Changed == Race0(<<MixedRow, Num(3), OldRow, Map([laps |-> Num(1)])>>)

(* A PID 0 without cars; one whose last row cannot be read.                *)
Cleared == Map([PID |-> Digits(0), RESULT |-> Null])
Unreadable == Race0(<<OldRow, Map([startingNo |-> Num(8), best |-> NotANumber])>>)
Worse == Map([eventPid |-> Num(0), RESULT |-> List(<<OldRow>>),
              BEST |-> List(<<Map([value |-> HugeNumber])>>)])

(* One frame of every other kind, whole, and one that parse() raises on.   *)
Others ==
  {Map([eventPid |-> Num(3), MESSAGES |-> List(<<Map([MESSAGE |-> Word("flag")])>>)]),
   Map([eventPid |-> Num(3), MESSAGES |-> List(<<Word("flag")>>)]),
   Map([eventPid |-> Num(4), TRACKSTATE |-> Word("GREEN"), TOD |-> Map([value |-> Num(1)])]),
   Map([eventPid |-> Num(4), TOD |-> Map([value |-> Null])]),
   Map([eventPid |-> Num(7), STNR |-> Num(9), session |-> Word("R1"),
        laps |-> List(<<Map([lap |-> Num(1), time |-> Num(9)]), Null,
                        Map([lap |-> Num(2), time |-> HugeNumber])>>)]),
   Map([eventPid |-> Num(501), RESULT |-> Num(1)]),
   Map([eventPid |-> Num(9002), BEST_SECTORS |->
          List(<<Map([startingNo |-> Num(9), sector |-> Num(1), value |-> Num(30)])>>)]),
   Map([type |-> Word("time"), value |-> Num(1), eventPid |-> Num(0)]),
   Map([eventPid |-> HugeNumber]), Map([eventPid |-> Num(12)]), List(<<>>)}

MCFrames == Others \cup {Standing, Changed, Cleared, Unreadable, Worse}

(* A snapshot from elsewhere may have a car without a position, and sector *)
(* bests, which none of the program's own has; another has lost its cars.  *)
Elsewhere(no, position, laps, bests) ==
  [no |-> no, position |-> position, class |-> "sp9", driver |-> "k. weber",
   laps |-> laps, sector_bests |-> bests]

MCSnapshots ==
  {[schema_version |-> 1, source |-> "LIVE", freshness |-> "FRESH", cars |->
      <<Elsewhere(4, None, 3, (1 :> 30)), Elsewhere(9, 2, 4, (1 :> 31)),
        Elsewhere(7, 1, 2, (2 :> 30)), Elsewhere(5, 2, 3, <<>>)>>],
   [schema_version |-> 1, source |-> "LIVE", freshness |-> "FRESH"]}

MCIncludes == {<<"m. mueller", "m">>, <<"k. weber", "web">>}

MCCalls ==
  {[call |-> "class", class |-> "sp9"], [call |-> "class", class |-> "sp7"],
   [call |-> "no", numbers |-> {9}], [call |-> "no", numbers |-> {7, 4}],
   [call |-> "driver", sub |-> "m"], [call |-> "driver", sub |-> "web"],
   [call |-> "position", min |-> None, max |-> 2],
   [call |-> "position", min |-> 1, max |-> None],
   [call |-> "lap", min |-> 3, max |-> None], [call |-> "lap", min |-> None, max |-> 3],
   [call |-> "sector", sector |-> 1, ms |-> 31],
   [call |-> "unknown"], [call |-> "top", n |-> 1], [call |-> "top", n |-> 3]}
============================================================================
