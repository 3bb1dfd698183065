---------------------------- MODULE ReplayProofs ----------------------------
(***************************************************************************)
(* Proofs about Replay, for every file, however long, and every stamp.     *)
(***************************************************************************)
EXTENDS Replay, TLAPS

-----------------------------------------------------------------------------
(* The inductive invariant. *)

(* What has been yielded is what could be yielded of the lines gone        *)
(* through, in their order, and none of them stops a replay.               *)
EmittedInv ==
  /\ \A k \in DOMAIN emitted : emitted[k] < at /\ Yields(lines[emitted[k]])
  /\ \A i \in 1 .. at - 1 : Yields(lines[i]) => \E k \in DOMAIN emitted : emitted[k] = i
  /\ \A j, k \in DOMAIN emitted : j < k => emitted[j] < emitted[k]

StopInv == \A i \in 1 .. at - 1 : ~StopsAt(i)

IsLast(j) == j \in StampedEmitted /\ \A k \in StampedEmitted : k <= j
IsFirst(j) == j \in StampedEmitted /\ \A k \in StampedEmitted : j <= k

(* Both stamps kept are that of the last stamped line yielded, which is    *)
(* the greatest.                                                           *)
StampInv ==
  /\ prevSleep = prevTs
  /\ prevTs = None => StampedEmitted = {}
  /\ prevTs # None =>
       \E j \in DOMAIN emitted : IsLast(j) /\ lines[emitted[j]].ts = prevTs
  /\ \A j, k \in StampedEmitted : j < k => lines[emitted[j]].ts <= lines[emitted[k]].ts

(* The sleeps add up to the time between the first stamped line yielded    *)
(* and the one that is up next, or was yielded last.                       *)
Due == IF phase = "sleeping" THEN Line.ts ELSE prevSleep

PaceInv ==
  phase \in {"looping", "sleeping", "yielded"} =>
    /\ ~paced \/ prevSleep = None => slept = 0
    /\ paced /\ prevSleep # None =>
         \E j \in DOMAIN emitted : IsFirst(j) /\ slept = Due - lines[emitted[j]].ts

PhaseInv ==
  /\ phase \in {"idle", "reading"} =>
       /\ lines = <<>> /\ at = 1 /\ emitted = <<>>
       /\ prevTs = None /\ prevSleep = None /\ slept = 0
  /\ phase = "sleeping" =>
       at <= Len(lines) /\ ~Behind /\ Yields(Line) /\ MustSleep
  /\ phase # "failed" => error = "none"
  /\ error = "ordering" => at <= Len(lines) /\ OutOfOrderAt(at)
  /\ error = "schema" =>
       at <= Len(lines) /\ ~OutOfOrderAt(at) /\ lines[at].content = "noraw"
  /\ phase = "ended" => at = Len(lines) + 1 /\ emitted # <<>>
  /\ error = "empty" => at = Len(lines) + 1 /\ emitted = <<>>

IInv ==
  TypeOK /\ EmittedInv /\ StopInv /\ StampInv /\ PaceInv /\ PhaseInv

-----------------------------------------------------------------------------
(* Facts every step is proved from. *)

LEMMA LineIsItem ==
  ASSUME TypeOK, NEW i \in 1 .. Len(lines)
  PROVE  lines[i] \in Items
  BY DEF TypeOK

LEMMA EmittedIsLine ==
  ASSUME TypeOK, NEW k \in DOMAIN emitted
  PROVE  emitted[k] \in 1 .. Len(lines) /\ lines[emitted[k]] \in Items
  BY DEF TypeOK

(* What depends on the lines gone through only is kept by a step that      *)
(* goes through none.                                                      *)
LEMMA DataKept ==
  ASSUME IInv, UNCHANGED <<paced, suppress, lines, at, prevTs, prevSleep, emitted>>
  PROVE  EmittedInv' /\ StopInv' /\ StampInv'
  BY DEF IInv, EmittedInv, StopInv, StampInv, IsLast, StampedEmitted, Stamped,
         Yields, StopsAt, OutOfOrderAt

(* The stamp kept is the greatest of all stamps of lines yielded, so the   *)
(* comparison with it is the comparison with every one of them.            *)
LEMMA GreatestIsKept ==
  ASSUME IInv, NEW j \in StampedEmitted
  PROVE  /\ prevTs \in Nat
         /\ lines[emitted[j]].ts \in Nat
         /\ lines[emitted[j]].ts <= prevTs
<1>1. PICK l \in DOMAIN emitted : IsLast(l) /\ lines[emitted[l]].ts = prevTs
  BY DEF IInv, StampInv
<1>2. prevTs \in Nat /\ lines[emitted[j]].ts \in Nat
  BY <1>1, EmittedIsLine DEF IInv, IsLast, StampedEmitted, Stamped, Items
<1>3. DOMAIN emitted = 1 .. Len(emitted) /\ Len(emitted) \in Nat
  BY DEF IInv, TypeOK
<1>4. j = l \/ j < l
  BY <1>1, <1>3 DEF IsLast, StampedEmitted
<1>5. QED
  BY <1>1, <1>2, <1>4 DEF IInv, StampInv, IsLast

LEMMA BehindIsOutOfOrder ==
  ASSUME IInv, at <= Len(lines)
  PROVE  Behind <=> OutOfOrderAt(at)
<1>1. at \in 1 .. Len(lines) /\ lines[at] \in Items
  BY LineIsItem DEF IInv, TypeOK
<1>2. ASSUME Behind PROVE OutOfOrderAt(at)
  <2>1. PICK l \in DOMAIN emitted : IsLast(l) /\ lines[emitted[l]].ts = prevTs
    BY <1>2 DEF IInv, StampInv, Behind
  <2>2. emitted[l] \in 1 .. at - 1 /\ Yields(lines[emitted[l]])
    BY <1>1, EmittedIsLine DEF IInv, EmittedInv
  <2>3. QED
    BY <1>2, <2>1, <2>2 DEF Behind, OutOfOrderAt, IsLast, StampedEmitted, Stamped, Line
<1>3. ASSUME OutOfOrderAt(at) PROVE Behind
  <2>1. PICK i \in 1 .. at - 1 :
          Yields(lines[i]) /\ Stamped(i) /\ Stamped(at) /\ lines[at].ts < lines[i].ts
    BY <1>3 DEF OutOfOrderAt
  <2>2. PICK k \in DOMAIN emitted : emitted[k] = i
    BY <2>1 DEF IInv, EmittedInv
  <2>3. prevTs \in Nat /\ lines[i].ts \in Nat /\ lines[i].ts <= prevTs
    BY <2>1, <2>2, GreatestIsKept DEF StampedEmitted
  <2>4. lines[at].ts \in Nat /\ None \notin Nat
    BY <1>1, <2>1, ConstantsAssumption DEF Stamped, Items
  <2>5. QED
    BY <2>1, <2>3, <2>4 DEF Behind, Line
<1>4. QED
  BY <1>2, <1>3

-----------------------------------------------------------------------------
(* The steps. *)

(* Steps outside of the generator, and those that end it before a line.    *)
Idle ==
  \/ Connect \/ Close \/ Vanish \/ Resume \/ Abandon \/ ReadFails
  \/ OutOfOrder \/ MissingRaw \/ Finish \/ UNCHANGED vars

LEMMA IdleKeeps == IInv /\ Idle => IInv'
<1> SUFFICES ASSUME IInv, Idle PROVE IInv'
  OBVIOUS
<1> USE DEF Idle, Connect, Close, Vanish, Resume, Abandon, ReadFails, OutOfOrder,
            MissingRaw, Finish, LoopFree, fileVars, stampVars, vars
<1>1. UNCHANGED <<paced, suppress, lines, at, stampVars>>
  OBVIOUS
<1>2. TypeOK'
  BY <1>1, Zenon DEF IInv, TypeOK
<1>3. EmittedInv' /\ StopInv' /\ StampInv'
  BY <1>1, DataKept
<1>4. PaceInv'
  BY <1>1 DEF IInv, PaceInv, Due, Line, IsFirst, StampedEmitted, Stamped
<1>5. PhaseInv'
  <2>1. CASE Connect \/ Close \/ Vanish \/ Resume \/ Abandon \/ ReadFails \/ UNCHANGED vars
    BY <1>1, <2>1 DEF IInv, PhaseInv, MustSleep, Behind, Yields, Line, OutOfOrderAt,
                      Stamped
  <2>2. CASE OutOfOrder
    BY <1>1, <2>2, BehindIsOutOfOrder DEF IInv, PhaseInv, AtLine, OutOfOrderAt, Stamped,
                                          Yields
  <2>3. CASE MissingRaw
    BY <1>1, <2>3, BehindIsOutOfOrder DEF IInv, PhaseInv, AtLine, Line, OutOfOrderAt,
                                          Stamped, Yields
  <2>4. CASE Finish
    <3>1. at = Len(lines) + 1
      BY <2>4 DEF IInv, TypeOK
    <3>2. QED
      BY <1>1, <2>4, <3>1 DEF PhaseInv
  <2>5. QED
    BY <2>1, <2>2, <2>3, <2>4
<1>6. QED
  BY <1>2, <1>3, <1>4, <1>5 DEF IInv

(* A new iteration begins with nothing yielded.                            *)
LEMMA IterateKeeps == IInv /\ Iterate => IInv'
<1> SUFFICES ASSUME IInv, Iterate PROVE IInv'
  OBVIOUS
<1>1. DOMAIN emitted' = {} /\ StampedEmitted' = {} /\ Len(lines') = 0 /\ at' = 1
  BY DEF Iterate, StampedEmitted
<1>2. TypeOK'
  BY <1>1 DEF IInv, TypeOK, Iterate, fileVars
<1>3. EmittedInv' /\ StopInv' /\ StampInv'
  BY <1>1 DEF EmittedInv, StopInv, StampInv, Iterate
<1>4. PaceInv'
  BY DEF PaceInv, Iterate
<1>5. PhaseInv'
  BY DEF PhaseInv, Iterate
<1>6. QED
  BY <1>2, <1>3, <1>4, <1>5 DEF IInv

LEMMA ReadLinesKeeps == IInv /\ ReadLines => IInv'
<1> SUFFICES ASSUME IInv, ReadLines PROVE IInv'
  OBVIOUS
<1>1. /\ at' = 1 /\ emitted' = <<>> /\ prevTs' = None /\ prevSleep' = None /\ slept' = 0
      /\ phase' = "looping" /\ error' = "none"
      /\ UNCHANGED <<fileVars, connected, offset>>
  BY DEF IInv, PhaseInv, ReadLines, stampVars
<1>2. DOMAIN emitted' = {} /\ StampedEmitted' = {}
  BY <1>1 DEF StampedEmitted
<1>3. lines' \in Seq(Items)
  <2>1. file \in Seq(Lines)
    BY DEF IInv, TypeOK, ReadLines
  <2>2. \A i \in DOMAIN file : Item(file[i]) \in Items
    <3>1. TAKE i \in DOMAIN file
    <3>2. file[i].content \in Contents /\ file[i].ts \in Nat \cup {None, Huge}
      <4>1. file[i] \in Lines
        BY <2>1
      <4>2. QED
        BY <4>1 DEF Lines
    <3>3. file[i].content \in {"blank", "garbage"} \/ file[i].ts # Huge
      BY DEF ReadLines, Unreadable
    <3>4. Item(file[i]).ts \in Nat \cup {None}
      BY <3>2, <3>3 DEF Item
    <3>5. QED
      BY <3>2, <3>4 DEF Item, Items
  <2>3. QED
    BY <2>1, <2>2 DEF ReadLines
<1>4. TypeOK'
  BY <1>1, <1>3 DEF IInv, TypeOK, fileVars
<1>5. EmittedInv' /\ StopInv' /\ StampInv'
  BY <1>1, <1>2 DEF EmittedInv, StopInv, StampInv
<1>6. PaceInv'
  BY <1>1 DEF PaceInv
<1>7. PhaseInv'
  BY <1>1 DEF PhaseInv
<1>8. QED
  BY <1>4, <1>5, <1>6, <1>7 DEF IInv

(* A line that is gone past without being yielded.                         *)
LEMMA PassKeeps == IInv /\ (SkipLine \/ SuppressTimeSync) => IInv'
<1> SUFFICES ASSUME IInv, SkipLine \/ SuppressTimeSync PROVE IInv'
  OBVIOUS
<1>1. /\ UNCHANGED <<paced, suppress, file, connected, phase, error, lines, prevTs,
                     prevSleep, emitted, slept>>
      /\ at' = at + 1 /\ at \in 1 .. Len(lines) /\ phase = "looping"
      /\ ~Behind /\ ~Yields(lines[at]) /\ lines[at].content # "noraw"
      /\ offset' \in BOOLEAN
  <2>1. at \in 1 .. Len(lines)
    BY DEF IInv, TypeOK, SkipLine, SuppressTimeSync, AtLine
  <2>2. ~Yields(lines[at]) /\ lines[at].content # "noraw"
    BY DEF Yields, Line, MessageContents, SkipLine, SuppressTimeSync
  <2>3. offset' \in BOOLEAN
    BY DEF IInv, TypeOK, SkipLine, SuppressTimeSync
  <2>4. QED
    BY <2>1, <2>2, <2>3 DEF SkipLine, SuppressTimeSync, AtLine, fileVars, stampVars
<1>2. TypeOK'
  <2>1. at' \in 1 .. Len(lines') + 1
    BY <1>1 DEF IInv, TypeOK
  <2>2. QED
    BY <1>1, <2>1 DEF IInv, TypeOK
<1>3. EmittedInv'
  <2>1. \A k \in DOMAIN emitted : emitted[k] \in 1 .. at - 1
    BY <1>1, EmittedIsLine DEF IInv, EmittedInv
  <2>2. \A i \in 1 .. at' - 1 : i = at \/ i \in 1 .. at - 1
    BY <1>1
  <2>3. QED
    BY <1>1, <2>1, <2>2 DEF IInv, EmittedInv, Yields
<1>4. StopInv'
  BY <1>1, BehindIsOutOfOrder DEF IInv, StopInv, StopsAt, OutOfOrderAt, Yields, Stamped
<1>5. StampInv'
  BY <1>1 DEF IInv, StampInv, IsLast, StampedEmitted, Stamped
<1>6. PaceInv'
  BY <1>1 DEF IInv, PaceInv, Due, IsFirst, StampedEmitted, Stamped
<1>7. PhaseInv'
  BY <1>1 DEF IInv, PhaseInv
<1>8. QED
  BY <1>2, <1>3, <1>4, <1>5, <1>6, <1>7 DEF IInv

LEMMA SleepKeeps == IInv /\ Sleep => IInv'
<1> SUFFICES ASSUME IInv, Sleep PROVE IInv'
  OBVIOUS
<1>1. /\ UNCHANGED <<paced, suppress, file, connected, error, lines, at, prevTs,
                     prevSleep, emitted>>
      /\ phase = "looping" /\ phase' = "sleeping" /\ at <= Len(lines)
      /\ ~Behind /\ Yields(Line) /\ MustSleep
      /\ slept' = slept + (Line.ts - prevSleep) /\ offset' \in BOOLEAN
  BY DEF IInv, TypeOK, Sleep, AtLine, fileVars
<1>2. prevSleep \in Nat /\ Line.ts \in Nat /\ Line.ts > prevSleep /\ slept \in Nat
  BY <1>1, LineIsItem DEF IInv, TypeOK, MustSleep, Line, Items
<1>3. TypeOK'
  BY <1>1, <1>2 DEF IInv, TypeOK
<1>4. EmittedInv' /\ StopInv' /\ StampInv'
  BY <1>1, DataKept
<1>5. PaceInv'
  <2>1. PICK j \in DOMAIN emitted : IsFirst(j) /\ slept = prevSleep - lines[emitted[j]].ts
    BY <1>1 DEF IInv, PaceInv, Due, MustSleep
  <2>2. lines[emitted[j]].ts \in Nat
    BY <2>1, GreatestIsKept DEF IsFirst
  <2>3. slept' = Line.ts - lines[emitted[j]].ts
    <3> DEFINE first == lines[emitted[j]].ts
               next == Line.ts
    <3>1. slept' = slept + (next - prevSleep) /\ slept = prevSleep - first
      BY <1>1, <2>1
    <3>2. next \in Nat /\ first \in Nat /\ prevSleep \in Nat
      BY <1>2, <2>2
    <3> HIDE DEF first, next
    <3>3. slept' = next - first
      BY <3>1, <3>2
    <3>4. QED
      BY <3>3 DEF first, next
  <2>4. QED
    BY <1>1, <1>2, <2>1, <2>3
      DEF PaceInv, Due, Line, IsFirst, StampedEmitted, Stamped, MustSleep
<1>6. PhaseInv'
  BY <1>1 DEF IInv, PhaseInv, MustSleep, Behind, Yields, Line
<1>7. QED
  BY <1>3, <1>4, <1>5, <1>6 DEF IInv

(* A line is yielded, at once or after a sleep.                            *)
LEMMA YieldKeeps == IInv /\ (EmitAtOnce \/ Wake) => IInv'
<1> SUFFICES ASSUME IInv, EmitAtOnce \/ Wake PROVE IInv'
  OBVIOUS
<1> DEFINE n == Len(emitted) + 1
<1>1. /\ UNCHANGED <<paced, suppress, file, connected, error, lines, slept>>
      /\ YieldLine /\ phase' = "yielded" /\ phase \in {"looping", "sleeping"}
      /\ at \in 1 .. Len(lines) /\ at' = at + 1 /\ emitted' = Append(emitted, at)
      /\ ~Behind /\ Yields(lines[at])
      /\ offset' \in BOOLEAN
  <2>1. at \in 1 .. Len(lines)
    BY DEF IInv, TypeOK, PhaseInv, EmitAtOnce, Wake, AtLine
  <2>2. ~Behind /\ Yields(lines[at])
    BY DEF IInv, PhaseInv, EmitAtOnce, Wake, Line
  <2>3. offset' \in BOOLEAN
    BY DEF IInv, TypeOK, EmitAtOnce, Wake
  <2>4. /\ UNCHANGED <<paced, suppress, file, connected, error, lines, slept>>
        /\ YieldLine /\ phase \in {"looping", "sleeping"}
    BY DEF EmitAtOnce, Wake, AtLine, fileVars
  <2>5. QED
    BY <2>1, <2>2, <2>3, <2>4 DEF YieldLine
<1>2. lines[at].ts \in Nat \cup {None} /\ None \notin Nat /\ error = "none"
  BY <1>1, LineIsItem, ConstantsAssumption DEF IInv, PhaseInv, Items
<1>3. /\ prevTs \in Nat \cup {None} /\ prevSleep = prevTs
      /\ prevTs' = (IF Stamped(at) THEN lines[at].ts ELSE prevTs)
      /\ prevSleep' = prevTs'
  BY <1>1 DEF IInv, TypeOK, StampInv, YieldLine, Stamped, Line
<1>4. /\ emitted \in Seq(1 .. Len(lines)) /\ n \in Nat /\ n >= 1
      /\ DOMAIN emitted = 1 .. n - 1 /\ DOMAIN emitted' = 1 .. n
      /\ emitted'[n] = at
      /\ \A k \in 1 .. n - 1 : emitted'[k] = emitted[k]
  BY <1>1 DEF IInv, TypeOK
<1> HIDE DEF n
<1>5. TypeOK'
  <2>1. at' \in 1 .. Len(lines') + 1
    BY <1>1 DEF IInv, TypeOK
  <2>2. emitted' \in Seq(1 .. Len(lines'))
    BY <1>1, <1>4
  <2>3. {prevTs', prevSleep'} \subseteq Nat \cup {None}
    BY <1>2, <1>3
  <2>4. QED
    BY <1>1, <2>1, <2>2, <2>3 DEF IInv, TypeOK
<1>6. EmittedInv'
  <2>1. \A k \in 1 .. n - 1 :
          emitted[k] \in 1 .. at - 1 /\ Yields(lines[emitted[k]])
    <3>1. TAKE k \in 1 .. n - 1
    <3>2. k \in DOMAIN emitted
      BY <1>4
    <3>3. emitted[k] \in 1 .. Len(lines)
      BY <3>2, EmittedIsLine DEF IInv
    <3>4. emitted[k] < at /\ Yields(lines[emitted[k]])
      BY <3>2 DEF IInv, EmittedInv
    <3>5. QED
      BY <1>1, <3>3, <3>4
  <2>2. \A k \in DOMAIN emitted' : emitted'[k] < at' /\ Yields(lines[emitted'[k]])
    <3>1. TAKE k \in DOMAIN emitted'
      <3>2. CASE k = n
        BY <1>1, <1>4, <3>2
      <3>3. CASE k \in 1 .. n - 1
        BY <1>1, <1>4, <2>1, <3>3
      <3>4. QED
        BY <1>4, <3>2, <3>3
  <2>3. \A i \in 1 .. at' - 1 :
          Yields(lines[i]) => \E k \in DOMAIN emitted' : emitted'[k] = i
    <3>1. TAKE i \in 1 .. at' - 1
      <3>2. CASE i = at
        BY <1>4, <3>2
      <3>3. CASE i \in 1 .. at - 1
        BY <1>4, <3>3 DEF IInv, EmittedInv
      <3>4. QED
        BY <1>1, <3>2, <3>3
  <2>4. \A j, k \in DOMAIN emitted' : j < k => emitted'[j] < emitted'[k]
    <3>1. SUFFICES ASSUME NEW j \in 1 .. n, NEW k \in 1 .. n, j < k
                   PROVE  emitted'[j] < emitted'[k]
      BY <1>4
    <3>2. j \in 1 .. n - 1
      BY <1>4, <3>1
    <3>3. CASE k = n
      BY <1>1, <1>4, <2>1, <3>2, <3>3
    <3>4. CASE k \in 1 .. n - 1
      BY <1>4, <3>1, <3>2, <3>4 DEF IInv, EmittedInv
    <3>5. QED
      BY <1>4, <3>3, <3>4
  <2>5. QED
    BY <1>1, <2>2, <2>3, <2>4 DEF EmittedInv, Yields
<1>7. StopInv'
  <2>1. ~StopsAt(at)
    BY <1>1, BehindIsOutOfOrder DEF StopsAt, Yields, MessageContents
  <2>2. \A i \in 1 .. at' - 1 : i = at \/ i \in 1 .. at - 1
    BY <1>1
  <2>3. QED
    BY <1>1, <2>1, <2>2 DEF IInv, StopInv, StopsAt, OutOfOrderAt, Yields, Stamped
<1>8. StampedEmitted' = IF Stamped(at) THEN StampedEmitted \cup {n} ELSE StampedEmitted
  <2>1. \A k \in 1 .. n : k = n \/ k \in 1 .. n - 1
    BY <1>4
  <2>2. \A k \in 1 .. n - 1 : k \in 1 .. n
    BY <1>4
  <2>3. StampedEmitted' = {k \in 1 .. n : Stamped(emitted'[k])}
    BY <1>1, <1>4 DEF StampedEmitted, Stamped
  <2>4. StampedEmitted = {k \in 1 .. n - 1 : Stamped(emitted'[k])}
    BY <1>4 DEF StampedEmitted
  <2>5. n \in 1 .. n
    BY <1>4
  <2>6. QED
    BY <1>4, <2>1, <2>2, <2>3, <2>4, <2>5
<1>9. \A j \in StampedEmitted :
        /\ j \in 1 .. n - 1 /\ emitted'[j] = emitted[j]
        /\ prevTs \in Nat /\ lines[emitted[j]].ts \in Nat
        /\ lines[emitted[j]].ts <= prevTs
  BY <1>4, GreatestIsKept DEF StampedEmitted
<1>10. Stamped(at) /\ prevTs # None =>
         prevTs \in Nat /\ lines[at].ts \in Nat /\ prevTs <= lines[at].ts
  BY <1>1, <1>2, <1>3 DEF Behind, Line, Stamped
<1>11. prevTs = None => StampedEmitted = {}
  BY DEF IInv, StampInv
<1>12. StampInv'
  <2>1. prevTs' = None => StampedEmitted' = {}
    BY <1>3, <1>8, <1>11 DEF Stamped
  <2>2. prevTs' # None => \E j \in DOMAIN emitted' : IsLast(j)' /\ lines[emitted'[j]].ts = prevTs'
    <3>1. CASE Stamped(at)
      <4>1. n \in DOMAIN emitted' /\ n \in StampedEmitted'
        BY <1>4, <1>8, <3>1
      <4>2. \A k \in StampedEmitted' : k <= n
        BY <1>4, <1>8, <1>9, <3>1
      <4>3. QED
        BY <1>3, <1>4, <3>1, <4>1, <4>2 DEF IsLast
    <3>2. CASE ~Stamped(at)
      <4>1. SUFFICES ASSUME prevTs # None
                     PROVE  \E j \in DOMAIN emitted' :
                              IsLast(j)' /\ lines[emitted'[j]].ts = prevTs'
        BY <1>3, <3>2
      <4>2. PICK j \in DOMAIN emitted : IsLast(j) /\ lines[emitted[j]].ts = prevTs
        BY <4>1 DEF IInv, StampInv
      <4>3. j \in DOMAIN emitted' /\ emitted'[j] = emitted[j]
        BY <1>4
      <4>4. QED
        BY <1>3, <1>8, <3>2, <4>2, <4>3 DEF IsLast
    <3>3. QED
      BY <3>1, <3>2
  <2>3. \A j, k \in StampedEmitted' : j < k => lines[emitted'[j]].ts <= lines[emitted'[k]].ts
    <3>1. SUFFICES ASSUME NEW j \in StampedEmitted', NEW k \in StampedEmitted', j < k
                   PROVE  lines[emitted'[j]].ts <= lines[emitted'[k]].ts
      OBVIOUS
    <3>2. j \in StampedEmitted
      BY <1>4, <1>8, <1>9, <3>1
    <3>3. CASE k \in StampedEmitted
      BY <1>9, <3>1, <3>2, <3>3 DEF IInv, StampInv
    <3>4. CASE k = n /\ Stamped(at)
      <4>1. prevTs # None /\ prevTs \in Nat /\ lines[emitted[j]].ts \in Nat
            /\ lines[emitted[j]].ts <= prevTs /\ emitted'[j] = emitted[j]
        BY <1>2, <1>9, <3>2
      <4>2. prevTs <= lines[at].ts /\ lines[at].ts \in Nat /\ emitted'[k] = at
        BY <1>4, <1>10, <3>4, <4>1
      <4>3. QED
        BY <4>1, <4>2
    <3>5. QED
      BY <1>8, <3>3, <3>4
  <2>4. QED
    BY <1>1, <1>3, <2>1, <2>2, <2>3 DEF StampInv
<1>13. PaceInv'
  <2>1. slept' = slept /\ phase' = "yielded" /\ paced' = paced
    BY <1>1
  <2>2. ~paced \/ prevSleep = None => slept = 0
    BY <1>1 DEF IInv, PaceInv
  <2>3. ASSUME paced, prevSleep # None
        PROVE  \E j \in DOMAIN emitted' : IsFirst(j)' /\ slept = prevSleep' - lines[emitted'[j]].ts
    <3>1. PICK j \in DOMAIN emitted : IsFirst(j) /\ slept = Due - lines[emitted[j]].ts
      BY <1>1, <2>3 DEF IInv, PaceInv
    <3>2. j \in DOMAIN emitted' /\ emitted'[j] = emitted[j]
      BY <1>4
    <3>3. IsFirst(j)'
      BY <1>4, <1>8, <1>9, <3>1 DEF IsFirst
    <3>4. Due = prevSleep'
      <4>1. CASE Wake
        <5>1. phase = "sleeping" /\ MustSleep
          BY <4>1 DEF IInv, PhaseInv, Wake
        <5>2. QED
          BY <1>3, <5>1 DEF Due, MustSleep, Line, Stamped
      <4>2. CASE EmitAtOnce
        <5>1. phase = "looping" /\ ~MustSleep
          BY <4>2 DEF EmitAtOnce, AtLine
        <5>2. CASE Stamped(at)
          BY <1>3, <1>10, <2>3, <5>1, <5>2 DEF Due, MustSleep, Line, Stamped
        <5>3. CASE ~Stamped(at)
          BY <1>3, <5>1, <5>3 DEF Due
        <5>4. QED
          BY <5>2, <5>3
      <4>3. QED
        BY <4>1, <4>2
    <3>5. QED
      BY <3>1, <3>2, <3>3, <3>4
  <2>4. ASSUME paced, prevSleep = None, prevSleep' # None
        PROVE  \E j \in DOMAIN emitted' : IsFirst(j)' /\ slept = prevSleep' - lines[emitted'[j]].ts
    <3>1. Stamped(at) /\ prevSleep' = lines[at].ts /\ lines[at].ts \in Nat
      BY <1>2, <1>3, <2>4 DEF Stamped
    <3>2. StampedEmitted' = {n}
      BY <1>3, <1>8, <1>11, <2>4, <3>1
    <3>3. n \in DOMAIN emitted' /\ n \in StampedEmitted' /\ \A k \in StampedEmitted' : n <= k
      BY <1>4, <3>2
    <3>4. slept = prevSleep' - lines[emitted'[n]].ts
      BY <1>4, <2>2, <2>4, <3>1
    <3>5. QED
      BY <3>3, <3>4 DEF IsFirst
  <2>5. ~paced \/ prevSleep' = None => slept = 0
    BY <1>2, <1>3, <2>2 DEF Stamped
  <2>6. QED
    BY <1>1, <2>1, <2>3, <2>4, <2>5 DEF PaceInv, Due
<1>14. PhaseInv'
  BY <1>1, <1>2 DEF PhaseInv
<1>15. QED
  BY <1>5, <1>6, <1>7, <1>12, <1>13, <1>14 DEF IInv

-----------------------------------------------------------------------------

LEMMA InitIInv == Init => IInv
<1> SUFFICES ASSUME Init PROVE IInv
  OBVIOUS
<1>1. Len(lines) = 0 /\ DOMAIN emitted = {} /\ StampedEmitted = {}
  BY DEF Init, StampedEmitted
<1>2. TypeOK
  <2>1. lines \in Seq(Items) /\ emitted \in Seq(1 .. Len(lines)) /\ at \in 1 .. Len(lines) + 1
    BY <1>1 DEF Init
  <2>2. file \in Seq(Lines) \cup {Absent}
    BY ConstantsAssumption DEF Init
  <2>3. QED
    BY <2>1, <2>2 DEF TypeOK, Init
<1>3. QED
  BY <1>1, <1>2 DEF Init, IInv, EmittedInv, StopInv, StampInv, PaceInv, PhaseInv

LEMMA NextIInv == IInv /\ [Next]_vars => IInv'
  BY IdleKeeps, IterateKeeps, ReadLinesKeeps, PassKeeps, SleepKeeps, YieldKeeps
     DEF Next, Generator, Idle

LEMMA Invariant == Spec => []IInv
  BY InitIInv, NextIInv, PTL DEF Spec

(* Every variable holds a value of its type, whatever the file.            *)
THEOREM TypeCorrect == Spec => []TypeOK
<1>1. IInv => TypeOK
  BY DEF IInv
<1>2. QED
  BY <1>1, Invariant, PTL

(* __aiter__: lines are yielded in the order of the file, and the stamps   *)
(* of those that have one never go back.                                   *)
THEOREM InOrder == Spec => []EmittedInOrder
<1>1. IInv => EmittedInOrder
  BY DEF IInv, EmittedInv, StampInv, EmittedInOrder, StampedEmitted
<1>2. QED
  BY <1>1, Invariant, PTL

(* __aiter__: what is yielded, and whether and why the replay stops, is    *)
(* what the lines alone say.                                               *)
THEOREM EndIsRight == Spec => []EndsAsTheFileSays
<1>1. IInv => EndsAsTheFileSays
  <2> SUFFICES ASSUME IInv PROVE EndsAsTheFileSays
    OBVIOUS
  <2>1. {emitted[k] : k \in DOMAIN emitted} = {i \in 1 .. at - 1 : Yields(lines[i])}
    <3>1. \A k \in DOMAIN emitted : emitted[k] \in 1 .. at - 1 /\ Yields(lines[emitted[k]])
      BY EmittedIsLine DEF IInv, EmittedInv, TypeOK
    <3>2. QED
      BY <3>1 DEF IInv, EmittedInv
  <2>2. QED
    BY <2>1 DEF IInv, StopInv, PhaseInv, EndsAsTheFileSays, StopsAt
<1>2. QED
  BY <1>1, Invariant, PTL

(* D-15: a paced replay has slept, whenever it hands a message over,       *)
(* exactly the time between the first and the last stamp it handed over.   *)
THEOREM Pacing == Spec => []PacingIsExact
<1>1. IInv => PacingIsExact
  <2> SUFFICES ASSUME IInv, phase = "yielded"
               PROVE  slept = IF ~paced \/ StampedEmitted = {} THEN 0
                              ELSE LET first == CHOOSE j \in StampedEmitted :
                                                  \A k \in StampedEmitted : j <= k
                                       last == CHOOSE j \in StampedEmitted :
                                                  \A k \in StampedEmitted : k <= j
                                   IN lines[emitted[last]].ts - lines[emitted[first]].ts
    BY DEF PacingIsExact
  <2>1. prevTs = None <=> StampedEmitted = {}
    BY GreatestIsKept DEF IInv, StampInv, IsLast
  <2>2. CASE ~paced \/ StampedEmitted = {}
    BY <2>1, <2>2 DEF IInv, PaceInv, StampInv
  <2>3. CASE paced /\ StampedEmitted # {}
    <3>1. PICK f \in DOMAIN emitted : IsFirst(f) /\ slept = prevSleep - lines[emitted[f]].ts
      BY <2>1, <2>3 DEF IInv, PaceInv, StampInv, Due
    <3>2. PICK l \in DOMAIN emitted : IsLast(l) /\ lines[emitted[l]].ts = prevSleep
      BY <2>1, <2>3 DEF IInv, StampInv
    <3>3. StampedEmitted \subseteq Nat
      BY DEF IInv, TypeOK, StampedEmitted
    <3>4. f = CHOOSE j \in StampedEmitted : \A k \in StampedEmitted : j <= k
      BY <3>1, <3>3 DEF IsFirst
    <3>5. l = CHOOSE j \in StampedEmitted : \A k \in StampedEmitted : k <= j
      BY <3>2, <3>3 DEF IsLast
    <3>6. QED
      BY <2>3, <3>1, <3>2, <3>4, <3>5
  <2>4. QED
    BY <2>2, <2>3
<1>2. QED
  BY <1>1, Invariant, PTL
=============================================================================
