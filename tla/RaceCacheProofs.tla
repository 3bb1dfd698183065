--------------------------- MODULE RaceCacheProofs --------------------------
(***************************************************************************)
(* Proofs about RaceCache: what a RaceState holds is a function of what it *)
(* heard, through every repetition, clear() and import of a snapshot.      *)
(***************************************************************************)
EXTENDS RaceCache, RaceStateProofs, SequenceTheorems

-----------------------------------------------------------------------------
(* Applying a message a second time.                                       *)

(* The fields a message reduces into, and the two every message sets.      *)
LEMMA MessageKinds ==
  ASSUME NEW m \in MessageType
  PROVE  \/ /\ m.kind = "initial"
            /\ m.session \in Values /\ m.results \in Seq(Row)
         \/ m.kind = "track" /\ m.track \in Values
         \/ m.kind = "race" /\ m.key \in Values
         \/ /\ m.kind = "laps"
            /\ m.session \in Values /\ m.no \in Nat /\ m.laps \in Seq(LapRow)
         \/ m.kind = "qualifying" /\ m.results \in Values
         \/ /\ m.kind = "statistics"
            /\ m.leading \in Values /\ m.sectors \in Seq(SectorRow)
         \/ m.kind = "other"
BY DEF MessageType

(* PID 3 and PID 7 messages that come again change neither the messages    *)
(* nor the laps.                                                           *)
LEMMA RaceTwice ==
  ASSUME NEW s, DOMAIN s = Fields, NEW m, m.kind = "race"
  PROVE  Apply(Apply(s, m), m) = Apply(s, m)
<1>1. ~Raises(m)
  BY DEF Raises
<1>2. \A t : Reduce(t, m) = ApplyRaceMessage(t, m)
  BY DEF Reduce
<1> DEFINE a == Apply(s, m)
<1>3. /\ DOMAIN a = Fields
      /\ m.key \in a.seen
      /\ a.updated = TRUE
      /\ a.freshness = "FRESH"
  BY <1>1, <1>2 DEF Apply, ApplyRaceMessage, Fields
<1>4. Apply(a, m) = [[a EXCEPT !.updated = TRUE] EXCEPT !.freshness = "FRESH"]
  BY <1>1, <1>2, <1>3 DEF Apply, ApplyRaceMessage, Fields
<1>5. [[a EXCEPT !.updated = TRUE] EXCEPT !.freshness = "FRESH"] = a
  BY <1>1, <1>2, <1>3 DEF Apply, ApplyRaceMessage, Fields
<1> QED BY <1>4, <1>5

LEMMA LapsTwice ==
  ASSUME NEW s, DOMAIN s = Fields, NEW m, m.kind = "laps"
  PROVE  Apply(Apply(s, m), m) = Apply(s, m)
<1> DEFINE F(laps) ==
             [key \in DOMAIN laps \cup LapKeys(m) |->
                IF key \in LapKeys(m) THEN m.laps[Max(RowsOfLap(m, key))].time
                ELSE laps[key]]
           a == Apply(s, m)
<1>1. \A t : Reduce(t, m) = [t EXCEPT !.laps = F(t.laps)]
  BY Zenon DEF Reduce, ApplyPerCarLaps
<1> HIDE DEF F
<1>2. \A laps : F(F(laps)) = F(laps)
  BY DEF F
<1>3. \A t : DOMAIN t = Fields =>
        Apply(t, m) = [t EXCEPT !.updated = TRUE, !.laps = F(t.laps),
                         !.freshness = IF Raises(m) THEN t.freshness ELSE "FRESH"]
  <2> TAKE t
  <2> HAVE DOMAIN t = Fields
  <2> DEFINE u == [t EXCEPT !.updated = TRUE]
  <2>1. Reduce(u, m) = [u EXCEPT !.laps = F(u.laps)]
    BY <1>1
  <2>2. u.laps = t.laps
    BY DEF Fields
  <2>3. Reduce(u, m) = [t EXCEPT !.updated = TRUE, !.laps = F(t.laps)]
    BY <2>1, <2>2
  <2>4. CASE Raises(m)
    <3>1. Apply(t, m) = [t EXCEPT !.updated = TRUE, !.laps = F(t.laps)]
      BY <2>3, <2>4 DEF Apply
    <3> QED BY <2>4, <3>1 DEF Fields
  <2>5. CASE ~Raises(m)
    <3>1. Apply(t, m) = [[t EXCEPT !.updated = TRUE, !.laps = F(t.laps)]
                           EXCEPT !.freshness = "FRESH"]
      BY <2>3, <2>5 DEF Apply
    <3> QED BY <2>5, <3>1 DEF Fields
  <2> QED BY <2>4, <2>5
<1>4. a = [s EXCEPT !.updated = TRUE, !.laps = F(s.laps),
             !.freshness = IF Raises(m) THEN s.freshness ELSE "FRESH"]
  BY <1>3
<1> HIDE DEF a
<1>5. DOMAIN a = Fields /\ a.laps = F(s.laps) /\ a.updated = TRUE
  BY <1>4 DEF Fields
<1>6. (IF Raises(m) THEN a.freshness ELSE "FRESH") = a.freshness
  BY <1>4 DEF Fields
<1>7. Apply(a, m) = [a EXCEPT !.updated = TRUE, !.laps = F(a.laps),
                       !.freshness = IF Raises(m) THEN a.freshness ELSE "FRESH"]
  BY <1>3, <1>5
<1>8. Apply(a, m) = [a EXCEPT !.updated = a.updated, !.laps = a.laps,
                       !.freshness = a.freshness]
  BY <1>2, <1>5, <1>6, <1>7
<1>9. [a EXCEPT !.updated = a.updated, !.laps = a.laps,
         !.freshness = a.freshness] = a
  BY <1>4, <1>5 DEF Fields
<1> QED BY <1>8, <1>9 DEF a

(* The least of a set does not change when it is put with the rest again.  *)
LEMMA MinAgain ==
  ASSUME NEW S \in SUBSET Nat, NEW T \in SUBSET Nat, S \cup T # {}
  PROVE  Min({Min(S \cup T)} \cup T) = Min(S \cup T)
<1> DEFINE x == Min(S \cup T)
           y == Min({x} \cup T)
<1>1. x \in S \cup T /\ \A z \in S \cup T : x <= z
  BY MinIsLeast
<1>2. {x} \cup T \in SUBSET Nat /\ {x} \cup T # {}
  BY <1>1
<1>3. y \in {x} \cup T /\ \A z \in {x} \cup T : y <= z
  BY <1>2, MinIsLeast
<1> HIDE DEF x, y
<1>4. x \in Nat /\ y \in Nat /\ y <= x /\ x <= y
  BY <1>1, <1>3
<1>5. x = y
  BY <1>4
<1> QED BY <1>5 DEF x, y

LEMMA SentIsNatural ==
  ASSUME NEW m \in MessageType, m.kind = "statistics", NEW key
  PROVE  /\ Sent(m, key) \in SUBSET Nat
         /\ key \in SectorKeys(m) => Sent(m, key) # {}
<1>1. m.sectors \in Seq(SectorRow)
  BY MessageKinds
<1>2. \A j \in DOMAIN m.sectors : OrZero(m.sectors[j].value) \in Nat
  <2> TAKE j \in DOMAIN m.sectors
  <2>1. m.sectors[j] \in SectorRow
    BY <1>1
  <2>2. m.sectors[j].value \in Nat \cup {None}
    BY <2>1 DEF SectorRow
  <2> QED BY <2>2 DEF OrZero
<1>3. Sent(m, key) \in SUBSET Nat
  BY <1>2 DEF Sent
<1>4. ASSUME key \in SectorKeys(m)
      PROVE  Sent(m, key) # {}
  <2>1. PICK j \in DOMAIN m.sectors : SectorKey(m.sectors[j]) = key
    BY <1>4 DEF SectorKeys
  <2>2. OrZero(m.sectors[j].value) \in Sent(m, key)
    BY <2>1 DEF Sent
  <2> QED BY <2>2
<1> QED BY <1>3, <1>4

LEMMA StatisticsTwice ==
  ASSUME NEW s, DOMAIN s = Fields, NEW m \in MessageType,
         m.kind = "statistics",
         \A key \in DOMAIN s.bests : s.bests[key] \in Nat
  PROVE  Apply(Apply(s, m), m) = Apply(s, m)
<1> DEFINE F(bests) ==
             [key \in DOMAIN bests \cup SectorKeys(m) |->
                Min(Known(bests, key) \cup Sent(m, key))]
           a == Apply(s, m)
<1>1. \A t : Reduce(t, m) = [t EXCEPT !.leading = m.leading,
                                      !.bests = F(t.bests)]
  BY Zenon DEF Reduce, ApplyStatistics
<1>2. F(F(s.bests)) = F(s.bests)
  <2> DEFINE new == F(s.bests)
  <2>1. DOMAIN new = DOMAIN s.bests \cup SectorKeys(m)
    OBVIOUS
  <2>2. \A key \in DOMAIN new :
          Min(Known(new, key) \cup Sent(m, key)) = new[key]
    <3> TAKE key \in DOMAIN new
    <3>1. /\ Known(s.bests, key) \in SUBSET Nat
          /\ Sent(m, key) \in SUBSET Nat
          /\ Known(s.bests, key) \cup Sent(m, key) # {}
      BY <2>1, SentIsNatural DEF Known
    <3>2. new[key] = Min(Known(s.bests, key) \cup Sent(m, key))
      OBVIOUS
    <3>3. Known(new, key) = {new[key]}
      BY DEF Known
    <3> QED BY <3>1, <3>2, <3>3, MinAgain
  <2> HIDE DEF new
  <2>3. F(new) = [key \in DOMAIN new |->
                    Min(Known(new, key) \cup Sent(m, key))]
    BY <2>1
  <2>4. new = [key \in DOMAIN new |-> new[key]]
    BY DEF new
  <2>5. F(new) = new
    BY <2>2, <2>3, <2>4
  <2> QED BY <2>5 DEF new
<1> HIDE DEF F
<1>3. ~Raises(m)
  BY DEF Raises
<1>4. \A t : DOMAIN t = Fields =>
        Apply(t, m) = [t EXCEPT !.updated = TRUE, !.leading = m.leading,
                         !.bests = F(t.bests), !.freshness = "FRESH"]
  <2> TAKE t
  <2> HAVE DOMAIN t = Fields
  <2> DEFINE u == [t EXCEPT !.updated = TRUE]
  <2>1. Reduce(u, m) = [u EXCEPT !.leading = m.leading, !.bests = F(u.bests)]
    BY <1>1
  <2>2. u.bests = t.bests
    BY DEF Fields
  <2>3. Apply(t, m) = [Reduce(u, m) EXCEPT !.freshness = "FRESH"]
    BY <1>3 DEF Apply
  <2> QED BY <2>1, <2>2, <2>3
<1>5. a = [s EXCEPT !.updated = TRUE, !.leading = m.leading,
             !.bests = F(s.bests), !.freshness = "FRESH"]
  BY <1>4
<1> HIDE DEF a
<1>6. /\ DOMAIN a = Fields
      /\ a.updated = TRUE
      /\ a.leading = m.leading
      /\ a.bests = F(s.bests)
      /\ a.freshness = "FRESH"
  BY <1>5 DEF Fields
<1>7. Apply(a, m) = [a EXCEPT !.updated = a.updated, !.leading = a.leading,
                       !.bests = a.bests, !.freshness = a.freshness]
  <2>1. F(a.bests) = a.bests
    BY <1>2, <1>6
  <2>2. Apply(a, m) = [a EXCEPT !.updated = TRUE, !.leading = m.leading,
                         !.bests = F(a.bests), !.freshness = "FRESH"]
    BY <1>4, <1>6
  <2>3. Apply(a, m) = [a EXCEPT !.updated = TRUE, !.leading = m.leading,
                         !.bests = a.bests, !.freshness = "FRESH"]
    BY <2>1, <2>2
  <2> QED BY <1>6, <2>3
<1>8. a = [f \in Fields |-> a[f]]
  BY <1>5, <1>6
<1>9. [a EXCEPT !.updated = a.updated, !.leading = a.leading,
         !.bests = a.bests, !.freshness = a.freshness] = a
  BY <1>6, <1>8 DEF Fields
<1> QED BY <1>7, <1>9 DEF a

(* The other kinds replace what they set.                                  *)
LEMMA ReplacedTwice ==
  ASSUME NEW s, DOMAIN s = Fields, NEW m,
         m.kind \in {"initial", "track", "qualifying", "other"}
  PROVE  Apply(Apply(s, m), m) = Apply(s, m)
<1>1. ~Raises(m)
  BY DEF Raises
<1> DEFINE a == Apply(s, m)
<1>2. \A t : Apply(t, m) =
               [Reduce([t EXCEPT !.updated = TRUE], m)
                  EXCEPT !.freshness = "FRESH"]
  BY <1>1 DEF Apply
<1>3. CASE m.kind = "initial"
  <2> DEFINE cars == CarsOf(m.results)
  <2>1. \A t : Reduce(t, m) = [t EXCEPT !.session = m.session, !.cars = cars]
    BY <1>3 DEF Reduce, ApplyInitialState
  <2> HIDE DEF cars
  <2>2. \A t : Apply(t, m) = [t EXCEPT !.updated = TRUE,
          !.session = m.session, !.cars = cars, !.freshness = "FRESH"]
    BY <1>2, <2>1
  <2>3. a = [s EXCEPT !.updated = TRUE,
          !.session = m.session, !.cars = cars, !.freshness = "FRESH"]
    BY <2>2
  <2>4. Apply(a, m) = [a EXCEPT !.updated = TRUE,
          !.session = m.session, !.cars = cars, !.freshness = "FRESH"]
    BY <2>2
  <2> QED BY <2>3, <2>4 DEF Fields
<1>4. CASE m.kind = "track"
  <2>1. \A t : Reduce(t, m) = [t EXCEPT !.track = m.track]
    BY <1>4 DEF Reduce, ApplyTrackState
  <2>2. \A t : Apply(t, m) = [t EXCEPT !.updated = TRUE,
          !.track = m.track, !.freshness = "FRESH"]
    BY <1>2, <2>1
  <2>3. a = [s EXCEPT !.updated = TRUE,
          !.track = m.track, !.freshness = "FRESH"]
    BY <2>2
  <2>4. Apply(a, m) = [a EXCEPT !.updated = TRUE,
          !.track = m.track, !.freshness = "FRESH"]
    BY <2>2
  <2> QED BY <2>3, <2>4 DEF Fields
<1>5. CASE m.kind = "qualifying"
  <2>1. \A t : Reduce(t, m) = [t EXCEPT !.qualifying = m.results]
    BY <1>5 DEF Reduce
  <2>2. \A t : Apply(t, m) = [t EXCEPT !.updated = TRUE,
          !.qualifying = m.results, !.freshness = "FRESH"]
    BY <1>2, <2>1
  <2>3. a = [s EXCEPT !.updated = TRUE,
          !.qualifying = m.results, !.freshness = "FRESH"]
    BY <2>2
  <2>4. Apply(a, m) = [a EXCEPT !.updated = TRUE,
          !.qualifying = m.results, !.freshness = "FRESH"]
    BY <2>2
  <2> QED BY <2>3, <2>4 DEF Fields
<1>6. CASE m.kind = "other"
  <2>1. \A t : Reduce(t, m) = t
    BY <1>6 DEF Reduce
  <2>2. \A t : Apply(t, m) = [t EXCEPT !.updated = TRUE,
                                !.freshness = "FRESH"]
    BY <1>2, <2>1
  <2>3. a = [s EXCEPT !.updated = TRUE, !.freshness = "FRESH"]
    BY <2>2
  <2>4. Apply(a, m) = [a EXCEPT !.updated = TRUE, !.freshness = "FRESH"]
    BY <2>2
  <2> QED BY <2>3, <2>4 DEF Fields
<1> QED BY <1>3, <1>4, <1>5, <1>6

LEMMA AppliedTwice ==
  ASSUME NEW s, DOMAIN s = Fields, NEW m \in MessageType,
         \A key \in DOMAIN s.bests : s.bests[key] \in Nat
  PROVE  Apply(Apply(s, m), m) = Apply(s, m)
BY MessageKinds, RaceTwice, LapsTwice, StatisticsTwice, ReplacedTwice

-----------------------------------------------------------------------------
(* A message more in the log.                                              *)

LEMMA OfAppend ==
  ASSUME NEW l \in Seq(MessageType), NEW m \in MessageType
  PROVE  /\ Append(l, m) \in Seq(MessageType)
         /\ DOMAIN l = 1 .. Len(l)
         /\ DOMAIN Append(l, m) = 1 .. Len(l) + 1
         /\ \A i \in DOMAIN l : Append(l, m)[i] = l[i]
         /\ Append(l, m)[Len(l) + 1] = m
         /\ \A kind : Of(Append(l, m), kind) =
                        IF m.kind = kind THEN Of(l, kind) \cup {Len(l) + 1}
                        ELSE Of(l, kind)
<1>1. /\ Append(l, m) \in Seq(MessageType)
      /\ DOMAIN l = 1 .. Len(l)
      /\ DOMAIN Append(l, m) = 1 .. Len(l) + 1
      /\ \A i \in DOMAIN l : Append(l, m)[i] = l[i]
      /\ Append(l, m)[Len(l) + 1] = m
      /\ Len(l) \in Nat
  OBVIOUS
<1>2. \A i : i \in 1 .. Len(l) + 1 <=> i \in 1 .. Len(l) \/ i = Len(l) + 1
  BY <1>1
<1> QED BY <1>1, <1>2 DEF Of

(* A race message is the first of its key, or it is not.                   *)
LEMMA FirstsAppend ==
  ASSUME NEW l \in Seq(MessageType), NEW m \in MessageType
  PROVE  /\ RaceKeys(Append(l, m)) =
              IF m.kind = "race" THEN RaceKeys(l) \cup {m.key}
              ELSE RaceKeys(l)
         /\ Firsts(Append(l, m)) =
              IF m.kind = "race" /\ m.key \notin RaceKeys(l)
              THEN Firsts(l) \cup {Len(l) + 1} ELSE Firsts(l)
<1> DEFINE n == Len(l) + 1
           ll == Append(l, m)
<1>1. /\ DOMAIN l = 1 .. Len(l)
      /\ \A i \in DOMAIN l : ll[i] = l[i]
      /\ ll[n] = m
      /\ Of(ll, "race") = IF m.kind = "race" THEN Of(l, "race") \cup {n}
                          ELSE Of(l, "race")
  BY OfAppend
<1>2. \A i \in Of(l, "race") : i \in DOMAIN l /\ i \in Nat /\ i < n /\ i # n
  BY <1>1 DEF Of
<1> HIDE DEF n, ll
<1>3. RaceKeys(ll) = IF m.kind = "race" THEN RaceKeys(l) \cup {m.key}
                     ELSE RaceKeys(l)
  <2>1. \A i \in Of(l, "race") : ll[i].key = l[i].key
    BY <1>1, <1>2
  <2>2. CASE m.kind = "race"
    <3>1. \A i : i \in Of(ll, "race") <=> i \in Of(l, "race") \/ i = n
      BY <1>1, <2>2
    <3>2. RaceKeys(ll) = {ll[i].key : i \in Of(l, "race")} \cup {ll[n].key}
      BY <3>1 DEF RaceKeys
    <3> QED BY <1>1, <2>1, <2>2, <3>2 DEF RaceKeys
  <2>3. CASE m.kind # "race"
    <3>1. Of(ll, "race") = Of(l, "race")
      BY <1>1, <2>3
    <3> QED BY <2>1, <2>3, <3>1 DEF RaceKeys
  <2> QED BY <2>2, <2>3
<1>4. \A i \in Of(l, "race") : i \in Firsts(ll) <=> i \in Firsts(l)
  <2> TAKE i \in Of(l, "race")
  <2>1. i \in Of(ll, "race") /\ ll[i] = l[i] /\ i \in Nat /\ i < n
    BY <1>1, <1>2
  <2>2. \A j \in Of(l, "race") : ll[j] = l[j]
    BY <1>1, <1>2
  <2>3. \A j : j \in Of(ll, "race") /\ j < i <=> j \in Of(l, "race") /\ j < i
    <3> n \in Nat
      BY DEF n
    <3> QED BY <1>1, <2>1
  <2> QED BY <2>1, <2>2, <2>3 DEF Firsts
<1>5. m.kind = "race" => (n \in Firsts(ll) <=> m.key \notin RaceKeys(l))
  <2> HAVE m.kind = "race"
  <2>1. n \in Of(ll, "race") /\ ll[n] = m
    BY <1>1
  <2>2. \A j : j \in Of(ll, "race") /\ j < n <=> j \in Of(l, "race")
    <3> n \in Nat
      BY DEF n
    <3> QED BY <1>1, <1>2
  <2>3. \A j \in Of(l, "race") : ll[j].key = l[j].key
    BY <1>1, <1>2
  <2>4. n \in Firsts(ll) <=> \A j \in Of(l, "race") : l[j].key # m.key
    BY <2>1, <2>2, <2>3 DEF Firsts
  <2> QED BY <2>4 DEF RaceKeys
<1>6. Firsts(ll) \subseteq Of(ll, "race") /\ Firsts(l) \subseteq Of(l, "race")
  BY DEF Firsts
<1>7. Firsts(ll) = IF m.kind = "race" /\ m.key \notin RaceKeys(l)
                   THEN Firsts(l) \cup {n} ELSE Firsts(l)
  <2>1. CASE m.kind = "race"
    <3>1. Of(ll, "race") = Of(l, "race") \cup {n}
      BY <1>1, <2>1
    <3>2. n \in Firsts(ll) <=> m.key \notin RaceKeys(l)
      BY <1>5, <2>1
    <3>3. \A i : i \in Firsts(ll) <=>
                  i \in Firsts(l) \/ (i = n /\ m.key \notin RaceKeys(l))
      BY <1>4, <1>6, <3>1, <3>2, Zenon
    <3>4. CASE m.key \in RaceKeys(l)
      BY <3>3, <3>4
    <3>5. CASE m.key \notin RaceKeys(l)
      <4>1. Firsts(ll) = Firsts(l) \cup {n}
        BY <3>3, <3>5
      <4> QED BY <2>1, <3>5, <4>1
    <3> QED BY <3>4, <3>5
  <2>2. CASE m.kind # "race"
    <3>1. Of(ll, "race") = Of(l, "race")
      BY <1>1, <2>2
    <3> QED BY <1>4, <1>6, <2>2, <3>1
  <2> QED BY <2>1, <2>2
<1> QED BY <1>3, <1>7 DEF n, ll

LEMMA FirstsKept ==
  ASSUME NEW l \in Seq(MessageType), NEW m \in MessageType, NEW msgs,
         HoldsFirsts(msgs, l),
         ~(m.kind = "race" /\ m.key \notin RaceKeys(l))
  PROVE  HoldsFirsts(msgs, Append(l, m))
<1>1. Firsts(Append(l, m)) = Firsts(l)
  BY FirstsAppend
<1>2. \A i \in Firsts(l) : Append(l, m)[i] = l[i]
  BY OfAppend DEF Firsts, Of
<1> QED BY <1>1, <1>2 DEF HoldsFirsts

LEMMA FirstsExtended ==
  ASSUME NEW l \in Seq(MessageType), NEW m \in MessageType,
         NEW msgs \in Seq(MessageType),
         HoldsFirsts(msgs, l), m.kind = "race", m.key \notin RaceKeys(l)
  PROVE  HoldsFirsts(Append(msgs, m), Append(l, m))
<1> DEFINE n == Len(l) + 1
           ll == Append(l, m)
           k == Len(msgs) + 1
           mm == Append(msgs, m)
<1>1. /\ Firsts(ll) = Firsts(l) \cup {n}
      /\ ll[n] = m
      /\ \A i \in Firsts(l) : /\ ll[i] = l[i]
                              /\ i \in Nat /\ i < n
                              /\ l[i].key \in RaceKeys(l)
  BY FirstsAppend, OfAppend DEF Firsts, Of, RaceKeys
<1>2. /\ DOMAIN mm = DOMAIN msgs \cup {k}
      /\ mm[k] = m
      /\ \A j \in DOMAIN msgs : mm[j] = msgs[j] /\ j \in Nat /\ j < k
      /\ k \in Nat /\ n \in Nat
  OBVIOUS
<1> HIDE DEF n, ll, k, mm
<1>3. \A j \in DOMAIN msgs : \E i \in Firsts(l) : msgs[j] = l[i]
  BY DEF HoldsFirsts
<1>4. \A j \in DOMAIN mm : \E i \in Firsts(ll) : mm[j] = ll[i]
  BY <1>1, <1>2, <1>3
<1>5. \A i \in Firsts(ll) : \E j \in DOMAIN mm : mm[j] = ll[i]
  BY <1>1, <1>2 DEF HoldsFirsts
<1>6. \A j \in DOMAIN msgs : mm[j] # m
  BY <1>1, <1>2, <1>3
<1>7. \A i \in Firsts(l) : ll[i] # m
  BY <1>1
<1>8. \A k1, k2 \in DOMAIN mm : \A i1, i2 \in Firsts(ll) :
        mm[k1] = ll[i1] /\ mm[k2] = ll[i2] /\ k1 < k2 => i1 < i2
  <2> TAKE k1, k2 \in DOMAIN mm
  <2> TAKE i1, i2 \in Firsts(ll)
  <2> HAVE mm[k1] = ll[i1] /\ mm[k2] = ll[i2] /\ k1 < k2
  <2>1. k1 \in DOMAIN msgs /\ i1 \in Firsts(l)
    BY <1>1, <1>2, <1>6, <1>7
  <2>2. CASE k2 \in DOMAIN msgs
    <3>1. i2 \in Firsts(l)
      BY <1>1, <1>6, <2>2
    <3>2. msgs[k1] = l[i1] /\ msgs[k2] = l[i2]
      BY <1>1, <1>2, <2>1, <2>2, <3>1
    <3> QED BY <2>1, <2>2, <3>1, <3>2 DEF HoldsFirsts
  <2>3. CASE k2 = k
    <3>1. i2 = n
      BY <1>1, <1>2, <1>7, <2>3
    <3> QED BY <1>1, <2>1, <3>1
  <2> QED BY <1>2, <2>2, <2>3
<1>9. HoldsFirsts(mm, ll)
  BY <1>4, <1>5, <1>8 DEF HoldsFirsts
<1> QED BY <1>9 DEF mm, ll

-----------------------------------------------------------------------------
(* Lap times.                                                              *)

(* What the reducer keeps of a log, for the induction: the rows it stores, *)
(* none behind one it raises at, and of each lap the time stored last.     *)
StoredWrites(l) == UNION {{i} \X StoredRows(l[i].laps) : i \in Of(l, "laps")}

HoldsStored(laps, l) ==
  /\ DOMAIN laps = {LapKeyOf(l, w) : w \in StoredWrites(l)}
  /\ \A w \in StoredWrites(l) :
       \/ laps[LapKeyOf(l, w)] = l[w[1]].laps[w[2]].time
       \/ \E v \in StoredWrites(l) :
            LapKeyOf(l, v) = LapKeyOf(l, w) /\ LaterWrite(v, w)

LEMMA LatestKept ==
  ASSUME NEW l \in Seq(MessageType), NEW m \in MessageType, NEW laps,
         HoldsStored(laps, l), m.kind # "laps"
  PROVE  HoldsStored(laps, Append(l, m))
<1> DEFINE ll == Append(l, m)
<1>1. /\ Of(ll, "laps") = Of(l, "laps")
      /\ \A i \in Of(l, "laps") : ll[i] = l[i]
  BY OfAppend DEF Of
<1> HIDE DEF ll
<1>2. StoredWrites(ll) = StoredWrites(l)
  BY <1>1 DEF StoredWrites
<1>3. \A w \in StoredWrites(l) : ll[w[1]] = l[w[1]]
  BY <1>1 DEF StoredWrites
<1>4. \A w \in StoredWrites(l) : LapKeyOf(ll, w) = LapKeyOf(l, w)
  BY <1>3 DEF LapKeyOf
<1>5. {LapKeyOf(ll, w) : w \in StoredWrites(ll)} =
        {LapKeyOf(l, w) : w \in StoredWrites(l)}
  BY <1>2, <1>4
<1>6. \A w \in StoredWrites(ll) :
        \/ laps[LapKeyOf(ll, w)] = ll[w[1]].laps[w[2]].time
        \/ \E v \in StoredWrites(ll) :
             LapKeyOf(ll, v) = LapKeyOf(ll, w) /\ LaterWrite(v, w)
  <2> TAKE w \in StoredWrites(ll)
  <2>1. w \in StoredWrites(l)
    BY <1>2
  <2>2. \/ laps[LapKeyOf(l, w)] = l[w[1]].laps[w[2]].time
        \/ \E v \in StoredWrites(l) :
             LapKeyOf(l, v) = LapKeyOf(l, w) /\ LaterWrite(v, w)
    BY <2>1 DEF HoldsStored
  <2> QED BY <1>2, <1>3, <1>4, <2>1, <2>2
<1> QED BY <1>5, <1>6 DEF HoldsStored, ll

(* Of the rows of one message for one lap the last one counts.             *)
LEMMA LastRow ==
  ASSUME NEW m \in MessageType, m.kind = "laps", NEW key \in LapKeys(m)
  PROVE  /\ Max(RowsOfLap(m, key)) \in RowsOfLap(m, key)
         /\ \A j \in RowsOfLap(m, key) : j <= Max(RowsOfLap(m, key))
<1>1. m.laps \in Seq(LapRow)
  BY MessageKinds
<1>2. Len(m.laps) \in Nat /\ DOMAIN m.laps = 1 .. Len(m.laps)
  BY <1>1
<1>3. RowsOfLap(m, key) \in SUBSET (1 .. Len(m.laps))
  BY <1>2 DEF RowsOfLap, StoredRows
<1>4. RowsOfLap(m, key) # {}
  <2>1. PICK j \in StoredRows(m.laps) : key = LapKey(m, j)
    BY DEF LapKeys
  <2>2. j \in RowsOfLap(m, key)
    BY <2>1 DEF RowsOfLap
  <2> QED BY <2>2
<1> QED BY <1>2, <1>3, <1>4, MaxIsGreatest

LEMMA LatestExtended ==
  ASSUME NEW l \in Seq(MessageType), NEW m \in MessageType, NEW laps,
         HoldsStored(laps, l), m.kind = "laps"
  PROVE  HoldsStored([key \in DOMAIN laps \cup LapKeys(m) |->
                        IF key \in LapKeys(m)
                        THEN m.laps[Max(RowsOfLap(m, key))].time
                        ELSE laps[key]],
                     Append(l, m))
<1> DEFINE ll == Append(l, m)
           n == Len(l) + 1
           new == [key \in DOMAIN laps \cup LapKeys(m) |->
                     IF key \in LapKeys(m)
                     THEN m.laps[Max(RowsOfLap(m, key))].time
                     ELSE laps[key]]
<1>1. /\ Of(ll, "laps") = Of(l, "laps") \cup {n}
      /\ \A i \in Of(l, "laps") : ll[i] = l[i] /\ i \in Nat /\ i < n
      /\ ll[n] = m
      /\ n \in Nat
  BY OfAppend DEF Of
<1>2. /\ DOMAIN new = DOMAIN laps \cup LapKeys(m)
      /\ \A key \in LapKeys(m) :
           new[key] = m.laps[Max(RowsOfLap(m, key))].time
      /\ \A key \in DOMAIN laps \ LapKeys(m) : new[key] = laps[key]
  OBVIOUS
<1> HIDE DEF ll, n, new
<1>3. \A w : w \in StoredWrites(ll) <=>
               \/ w \in StoredWrites(l)
               \/ \E j \in StoredRows(m.laps) : w = <<n, j>>
  BY <1>1 DEF StoredWrites
<1>4. \A w \in StoredWrites(l) : /\ ll[w[1]] = l[w[1]]
                              /\ w[1] \in Nat /\ w[1] < n
                              /\ LapKeyOf(ll, w) = LapKeyOf(l, w)
  BY <1>1 DEF StoredWrites, LapKeyOf
<1>5. \A j \in StoredRows(m.laps) : /\ LapKeyOf(ll, <<n, j>>) = LapKey(m, j)
                                    /\ LapKey(m, j) \in LapKeys(m)
  BY <1>1 DEF LapKeyOf, LapKeys
<1>6. DOMAIN new = {LapKeyOf(ll, w) : w \in StoredWrites(ll)}
  <2>1. \A key : key \in DOMAIN laps <=>
                   \E w \in StoredWrites(l) : key = LapKeyOf(l, w)
    BY DEF HoldsStored
  <2>2. \A key : key \in LapKeys(m) <=>
                   \E j \in StoredRows(m.laps) : key = LapKeyOf(ll, <<n, j>>)
    BY <1>5 DEF LapKeys
  <2>3. \A key : key \in DOMAIN new <=>
                   \E w \in StoredWrites(ll) : key = LapKeyOf(ll, w)
    BY <1>2, <1>3, <1>4, <2>1, <2>2
  <2> QED BY <2>3
<1>7. \A w \in StoredWrites(ll) :
        \/ new[LapKeyOf(ll, w)] = ll[w[1]].laps[w[2]].time
        \/ \E v \in StoredWrites(ll) :
             LapKeyOf(ll, v) = LapKeyOf(ll, w) /\ LaterWrite(v, w)
  <2> TAKE w \in StoredWrites(ll)
  <2> DEFINE key == LapKeyOf(ll, w)
             r == Max(RowsOfLap(m, key))
  <2>1. ASSUME key \in LapKeys(m)
        PROVE  /\ <<n, r>> \in StoredWrites(ll)
               /\ LapKeyOf(ll, <<n, r>>) = key
               /\ new[key] = m.laps[r].time
               /\ \A j \in RowsOfLap(m, key) : j <= r
    <3>1. r \in RowsOfLap(m, key) /\ \A j \in RowsOfLap(m, key) : j <= r
      BY <2>1, LastRow
    <3>2. r \in StoredRows(m.laps) /\ LapKey(m, r) = key
      BY <3>1 DEF RowsOfLap
    <3> HIDE DEF r
    <3>3. <<n, r>> \in StoredWrites(ll) /\ LapKeyOf(ll, <<n, r>>) = key
      BY <1>3, <1>5, <3>2
    <3>4. new[key] = m.laps[r].time
      BY <1>2, <2>1 DEF r
    <3> QED BY <3>1, <3>3, <3>4
  <2> HIDE DEF r
  <2>2. CASE w \in StoredWrites(l)
    <3>1. CASE key \in LapKeys(m)
      <4>1. LaterWrite(<<n, r>>, w)
        BY <1>1, <1>4, <2>2 DEF LaterWrite
      <4> QED BY <2>1, <3>1, <4>1
    <3>2. CASE key \notin LapKeys(m)
      <4>1. key = LapKeyOf(l, w) /\ key \in DOMAIN laps
        BY <1>4, <2>2 DEF HoldsStored
      <4>2. new[key] = laps[key]
        BY <1>2, <3>2, <4>1
      <4>3. CASE laps[LapKeyOf(l, w)] = l[w[1]].laps[w[2]].time
        BY <1>4, <2>2, <4>1, <4>2, <4>3
      <4>4. CASE \E v \in StoredWrites(l) :
                   LapKeyOf(l, v) = LapKeyOf(l, w) /\ LaterWrite(v, w)
        BY <1>3, <1>4, <2>2, <4>4
      <4> QED BY <2>2, <4>3, <4>4 DEF HoldsStored
    <3> QED BY <3>1, <3>2
  <2>3. CASE \E j \in StoredRows(m.laps) : w = <<n, j>>
    <3>1. PICK j \in StoredRows(m.laps) : w = <<n, j>>
      BY <2>3
    <3>2. key = LapKey(m, j) /\ key \in LapKeys(m) /\ j \in RowsOfLap(m, key)
      BY <1>5, <3>1 DEF RowsOfLap
    <3>3. j <= r /\ ll[w[1]].laps[w[2]] = m.laps[j]
      BY <1>1, <2>1, <3>1, <3>2
    <3>4. j \in Nat /\ r \in Nat
      <4>1. RowsOfLap(m, key) \subseteq Nat
        BY MessageKinds DEF RowsOfLap, StoredRows
      <4> QED BY <3>2, <4>1, LastRow DEF r
    <3>5. CASE j = r
      BY <2>1, <3>2, <3>3, <3>5
    <3>6. CASE j < r
      <4>1. LaterWrite(<<n, r>>, w)
        BY <3>1, <3>6 DEF LaterWrite
      <4> QED BY <2>1, <3>2, <4>1
    <3> QED BY <3>3, <3>4, <3>5, <3>6
  <2> QED BY <1>3, <2>2, <2>3
<1>8. HoldsStored(new, ll)
  BY <1>6, <1>7 DEF HoldsStored
<1> QED BY <1>8 DEF new, ll

-----------------------------------------------------------------------------
(* Sector bests.                                                           *)

LEMMA SectorRowsTyped ==
  ASSUME NEW l \in Seq(MessageType), NEW row \in SectorRows(l)
  PROVE  OrZero(row.value) \in Nat
<1>1. PICK i \in Of(l, "statistics") :
        row \in {l[i].sectors[j] : j \in DOMAIN l[i].sectors}
  BY DEF SectorRows
<1>2. l[i] \in MessageType /\ l[i].kind = "statistics"
  BY DEF Of
<1>3. l[i].sectors \in Seq(SectorRow)
  BY <1>2, MessageKinds
<1>4. row \in SectorRow
  BY <1>1, <1>3
<1>5. row.value \in Nat \cup {None}
  BY <1>4 DEF SectorRow
<1> QED BY <1>5 DEF OrZero

LEMMA BestsTyped ==
  ASSUME NEW l \in Seq(MessageType), NEW bests, HoldsMinima(bests, l)
  PROVE  \A key \in DOMAIN bests : bests[key] \in Nat
BY SectorRowsTyped DEF HoldsMinima

LEMMA MinimaKept ==
  ASSUME NEW l \in Seq(MessageType), NEW m \in MessageType, NEW bests,
         HoldsMinima(bests, l), m.kind # "statistics"
  PROVE  HoldsMinima(bests, Append(l, m))
<1> DEFINE ll == Append(l, m)
<1>1. /\ Of(ll, "statistics") = Of(l, "statistics")
      /\ \A i \in Of(l, "statistics") : ll[i] = l[i]
  BY OfAppend DEF Of
<1> HIDE DEF ll
<1>2. SectorRows(ll) = SectorRows(l)
  BY <1>1 DEF SectorRows
<1>3. HoldsMinima(bests, ll)
  BY <1>2 DEF HoldsMinima
<1> QED BY <1>3 DEF ll

LEMMA MinimaExtended ==
  ASSUME NEW l \in Seq(MessageType), NEW m \in MessageType, NEW bests,
         HoldsMinima(bests, l), m.kind = "statistics"
  PROVE  HoldsMinima([key \in DOMAIN bests \cup SectorKeys(m) |->
                        Min(Known(bests, key) \cup Sent(m, key))],
                     Append(l, m))
<1> DEFINE ll == Append(l, m)
           n == Len(l) + 1
           new == [key \in DOMAIN bests \cup SectorKeys(m) |->
                     Min(Known(bests, key) \cup Sent(m, key))]
<1>1. /\ Of(ll, "statistics") = Of(l, "statistics") \cup {n}
      /\ \A i \in Of(l, "statistics") : ll[i] = l[i]
      /\ ll[n] = m
  BY OfAppend DEF Of
<1>2. /\ DOMAIN new = DOMAIN bests \cup SectorKeys(m)
      /\ \A key \in DOMAIN new :
           new[key] = Min(Known(bests, key) \cup Sent(m, key))
  OBVIOUS
<1>3. \A row \in SectorRows(l) : OrZero(row.value) \in Nat
  BY SectorRowsTyped
<1> HIDE DEF ll, n, new
<1>4. \A row : row \in SectorRows(ll) <=>
                 \/ row \in SectorRows(l)
                 \/ \E j \in DOMAIN m.sectors : row = m.sectors[j]
  BY <1>1 DEF SectorRows
<1>5. \A key : key \in DOMAIN bests <=>
                 \E row \in SectorRows(l) : key = SectorKey(row)
  BY DEF HoldsMinima
<1>6. \A key : key \in DOMAIN new <=>
                 \E row \in SectorRows(ll) : key = SectorKey(row)
  BY <1>2, <1>4, <1>5 DEF SectorKeys
<1>7. ASSUME NEW key \in DOMAIN new
      PROVE  /\ \E row \in SectorRows(ll) :
                  SectorKey(row) = key /\ new[key] = OrZero(row.value)
             /\ \A row \in SectorRows(ll) :
                  SectorKey(row) = key => new[key] <= OrZero(row.value)
  <2> DEFINE S == Known(bests, key) \cup Sent(m, key)
  <2>1. S \in SUBSET Nat /\ S # {}
    <3>1. Known(bests, key) \in SUBSET Nat
      BY BestsTyped DEF Known
    <3>2. CASE key \in DOMAIN bests
      BY <3>1, <3>2, SentIsNatural DEF Known
    <3>3. CASE key \in SectorKeys(m)
      BY <3>1, <3>3, SentIsNatural
    <3> QED BY <1>2, <3>2, <3>3
  <2>2. new[key] \in S /\ \A x \in S : new[key] <= x
    BY ZenonT(60), <1>2, <2>1, MinIsLeast
  <2>3. \A x \in Sent(m, key) : \E row \in SectorRows(ll) :
          SectorKey(row) = key /\ x = OrZero(row.value)
    BY <1>4 DEF Sent
  <2>4. \A x \in Known(bests, key) : \E row \in SectorRows(ll) :
          SectorKey(row) = key /\ x = OrZero(row.value)
    BY <1>4 DEF Known, HoldsMinima
  <2>5. ASSUME NEW row \in SectorRows(ll), SectorKey(row) = key
        PROVE  new[key] <= OrZero(row.value)
    <3>1. CASE row \in SectorRows(l)
      <4>1. key \in DOMAIN bests /\ bests[key] <= OrZero(row.value)
        BY <1>5, <2>5, <3>1 DEF HoldsMinima
      <4>2. bests[key] \in S
        BY <4>1 DEF Known
      <4>3. new[key] <= bests[key] /\ new[key] \in Nat /\ bests[key] \in Nat
        BY <2>1, <2>2, <4>2
      <4>4. OrZero(row.value) \in Nat
        BY <1>3, <3>1
      <4> HIDE DEF S
      <4> QED BY <4>1, <4>3, <4>4
    <3>2. CASE \E j \in DOMAIN m.sectors : row = m.sectors[j]
      <4>1. OrZero(row.value) \in Sent(m, key)
        BY <2>5, <3>2 DEF Sent
      <4> QED BY <2>2, <4>1
    <3> QED BY <1>4, <3>1, <3>2
  <2> QED BY <2>2, <2>3, <2>4, <2>5
<1>8. DOMAIN new = {SectorKey(row) : row \in SectorRows(ll)}
  BY <1>6
<1>9. HoldsMinima(new, ll)
  BY <1>7, <1>8 DEF HoldsMinima
<1> QED BY <1>9 DEF new, ll

-----------------------------------------------------------------------------
(* The inductive invariant: the state holds what its log says, and so does *)
(* the snapshot with the part of the log it was taken of.                  *)

MessageKeys(msgs) == {msgs[i].key : i \in DOMAIN msgs}

(* The last message of a kind, if there is one.                            *)
LastOf(l, kind) == {i \in Of(l, kind) : \A j \in Of(l, kind) : j <= i}

(* What a message only replaces is as the last of its kind had it; a dict  *)
(* of cars comes in any order.                                             *)
HoldsLast(s, l) ==
  /\ Of(l, "initial") = {} => s.session = None /\ s.cars = <<>>
  /\ \A i \in LastOf(l, "initial") :
       s.session = l[i].session /\ ToSet(s.cars) = ToSet(CarsOf(l[i].results))
  /\ Of(l, "track") = {} => s.track = None
  /\ \A i \in LastOf(l, "track") : s.track = l[i].track
  /\ Of(l, "qualifying") = {} => s.qualifying = None
  /\ \A i \in LastOf(l, "qualifying") : s.qualifying = l[i].results
  /\ Of(l, "statistics") = {} => s.leading = None
  /\ \A i \in LastOf(l, "statistics") : s.leading = l[i].leading

(* A state is fresh once a message went through apply() without raising.   *)
HoldsFreshness(s, l) ==
  /\ s.updated = IF l = <<>> THEN FALSE ELSE TRUE
  /\ s.freshness = IF \A i \in DOMAIN l : Raises(l[i])
                   THEN "RESYNCING" ELSE "FRESH"

IsDict(d) == d = [key \in DOMAIN d |-> d[key]]

Fits(s, l) ==
  /\ s.source \in Sources
  /\ IsDict(s.laps) /\ IsDict(s.bests)
  /\ HoldsFreshness(s, l)
  /\ OneCarEach(s.cars) /\ s.cars \in Seq(CarType)
  /\ HoldsLast(s, l)
  /\ s.messages \in Seq(MessageType)
  /\ MessageKeys(s.messages) = RaceKeys(l)
  /\ HoldsFirsts(s.messages, l)
  /\ HoldsStored(s.laps, l)
  /\ HoldsMinima(s.bests, l)

StateFits == DOMAIN state = Fields /\ state.seen = RaceKeys(log) /\ Fits(state, log)

(* The fields of a document.                                               *)
DocFields == (Fields \ {"seen"}) \cup {"schema_version"}

SnapshotFits ==
  saved # None => /\ DOMAIN saved = DocFields
                  /\ Fits(saved, SubSeq(log, 1, savedAt))

(* A restored state has heard what the snapshot had in it, up to `base',   *)
(* and then once more the log from `start' on.                             *)
Replayed(l, base, start, end) ==
  SubSeq(l, 1, base) \o SubSeq(l, start + 1, end)

CopyFits ==
  copy # None =>
    /\ DOMAIN copy = Fields
    /\ \E base \in 0 .. Len(log) : \E start \in 0 .. base :
         /\ start <= copyAt
         /\ copy.seen = RaceKeys(Replayed(log, base, start, copyAt))
         /\ Fits(copy, Replayed(log, base, start, copyAt))

LogTyped ==
  /\ log \in Seq(Messages)
  /\ savedAt \in 0 .. Len(log)
  /\ copyAt \in 0 .. Len(log)

IInv == LogTyped /\ StateFits /\ SnapshotFits /\ CopyFits

(* What a document loses cannot go unnoticed: either nothing, or a field   *)
(* without which from_json raises. Every other lost field is read as empty. *)
DamageIsDetected ==
  \A lost \in Damages :
    lost = {} \/ lost \cap {"schema_version", "source", "freshness"} # {}

LEMMA EmptyFits ==
  ASSUME NEW source \in Sources
  PROVE  /\ DOMAIN Empty(source) = Fields
         /\ Empty(source).seen = RaceKeys(<<>>)
         /\ Fits(Empty(source), <<>>)
<1>1. \A kind : Of(<<>>, kind) = {} /\ LastOf(<<>>, kind) = {}
  BY DEF Of, LastOf
<1>2. /\ RaceKeys(<<>>) = {} /\ Firsts(<<>>) = {}
      /\ StoredWrites(<<>>) = {} /\ SectorRows(<<>>) = {}
  BY <1>1 DEF RaceKeys, Firsts, StoredWrites, SectorRows
<1>3. DOMAIN <<>> = {} /\ <<>> \in Seq(MessageType) /\ <<>> \in Seq(CarType)
  OBVIOUS
<1>4. HoldsFirsts(<<>>, <<>>)
  BY <1>2 DEF HoldsFirsts
<1>5. HoldsStored(<<>>, <<>>)
  BY <1>2 DEF HoldsStored
<1>6. HoldsMinima(<<>>, <<>>)
  BY <1>2 DEF HoldsMinima
<1>7. MessageKeys(<<>>) = {}
  BY DEF MessageKeys
<1>8. OneCarEach(<<>>)
  <2>1. <<>> = [i \in 1 .. 0 |-> <<>>[i]]
    OBVIOUS
  <2>2. IsTable(<<>>)
    BY <2>1 DEF IsTable
  <2> QED BY <2>2 DEF OneCarEach
<1> DEFINE e == Empty(source)
<1>9. /\ DOMAIN e = Fields
      /\ e.source = source /\ e.freshness = "RESYNCING" /\ e.updated = FALSE
      /\ e.session = None /\ e.cars = <<>> /\ e.track = None
      /\ e.qualifying = None /\ e.leading = None
      /\ e.seen = {}
      /\ e.messages = <<>>
      /\ e.laps = <<>>
      /\ e.bests = <<>>
  BY DEF Empty, Fields
<1> HIDE DEF e
<1>10. HoldsLast(e, <<>>) /\ HoldsFreshness(e, <<>>)
  BY <1>1, <1>3, <1>9 DEF HoldsLast, HoldsFreshness
<1>11. IsDict(<<>>)
  BY DEF IsDict
<1>12. Fits(e, <<>>)
  BY <1>2, <1>3, <1>4, <1>5, <1>6, <1>7, <1>8, <1>9, <1>10, <1>11 DEF Fits
<1> QED BY <1>2, <1>9, <1>12 DEF e

(* The fields of a state after apply().                                    *)
LEMMA ApplyFields ==
  ASSUME NEW s, DOMAIN s = Fields, NEW m \in MessageType
  PROVE  /\ DOMAIN Apply(s, m) = Fields
         /\ Apply(s, m).seen =
              IF m.kind = "race" THEN s.seen \cup {m.key} ELSE s.seen
         /\ Apply(s, m).messages =
              IF m.kind = "race" /\ m.key \notin s.seen
              THEN Append(s.messages, m) ELSE s.messages
         /\ Apply(s, m).laps =
              IF m.kind = "laps"
              THEN [key \in DOMAIN s.laps \cup LapKeys(m) |->
                      IF key \in LapKeys(m)
                      THEN m.laps[Max(RowsOfLap(m, key))].time
                      ELSE s.laps[key]]
              ELSE s.laps
         /\ Apply(s, m).bests =
              IF m.kind = "statistics"
              THEN [key \in DOMAIN s.bests \cup SectorKeys(m) |->
                      Min(Known(s.bests, key) \cup Sent(m, key))]
              ELSE s.bests
<1> DEFINE t == [s EXCEPT !.updated = TRUE]
           u == Reduce(t, m)
           a == Apply(s, m)
           newLaps == [key \in DOMAIN s.laps \cup LapKeys(m) |->
                         IF key \in LapKeys(m)
                         THEN m.laps[Max(RowsOfLap(m, key))].time
                         ELSE s.laps[key]]
           newBests == [key \in DOMAIN s.bests \cup SectorKeys(m) |->
                          Min(Known(s.bests, key) \cup Sent(m, key))]
<1>1. /\ DOMAIN t = Fields
      /\ t.seen = s.seen /\ t.messages = s.messages
      /\ t.laps = s.laps /\ t.bests = s.bests
  BY DEF Fields
<1>2. a = u \/ a = [u EXCEPT !.freshness = "FRESH"]
  BY DEF Apply
<1> HIDE DEF t
<1>3. DOMAIN u = Fields =>
        /\ DOMAIN a = Fields
        /\ a.seen = u.seen /\ a.messages = u.messages
        /\ a.laps = u.laps /\ a.bests = u.bests
  BY <1>2 DEF Fields
<1> HIDE DEF a, u
<1>4. CASE m.kind = "race"
  <2>1. u = ApplyRaceMessage(t, m)
    BY <1>4 DEF u, Reduce
  <2>2. CASE m.key \in s.seen
    <3>1. u = t /\ s.seen = s.seen \cup {m.key}
      BY <1>1, <2>1, <2>2 DEF ApplyRaceMessage
    <3> QED BY <1>1, <1>3, <1>4, <2>2, <3>1 DEF a
  <2>3. CASE m.key \notin s.seen
    <3>1. u = [t EXCEPT !.seen = s.seen \cup {m.key},
                        !.messages = Append(s.messages, m)]
      BY <1>1, <2>1, <2>3 DEF ApplyRaceMessage
    <3>2. /\ DOMAIN u = Fields
          /\ u.seen = s.seen \cup {m.key}
          /\ u.messages = Append(s.messages, m)
          /\ u.laps = s.laps /\ u.bests = s.bests
      BY <1>1, <3>1 DEF Fields
    <3> QED BY <1>3, <1>4, <2>3, <3>2 DEF a
  <2> QED BY <2>2, <2>3
<1>5. CASE m.kind = "laps"
  <2> HIDE DEF newLaps
  <2>1. u = [t EXCEPT !.laps = newLaps]
    BY <1>1, <1>5, Zenon DEF u, Reduce, ApplyPerCarLaps, newLaps
  <2>2. /\ DOMAIN u = Fields
        /\ u.seen = s.seen /\ u.messages = s.messages
        /\ u.laps = newLaps /\ u.bests = s.bests
    BY <1>1, <2>1 DEF Fields
  <2>3. /\ DOMAIN a = Fields
        /\ a.seen = s.seen /\ a.messages = s.messages
        /\ a.laps = newLaps /\ a.bests = s.bests
    BY <1>3, <2>2
  <2> QED BY <1>5, <2>3, Zenon DEF a, newLaps
<1>6. CASE m.kind = "statistics"
  <2> HIDE DEF newBests
  <2>1. u = [t EXCEPT !.leading = m.leading, !.bests = newBests]
    BY <1>1, <1>6, Zenon DEF u, Reduce, ApplyStatistics, newBests
  <2>2. /\ DOMAIN u = Fields
        /\ u.seen = s.seen /\ u.messages = s.messages
        /\ u.laps = s.laps /\ u.bests = newBests
    BY <1>1, <2>1 DEF Fields
  <2>3. /\ DOMAIN a = Fields
        /\ a.seen = s.seen /\ a.messages = s.messages
        /\ a.laps = s.laps /\ a.bests = newBests
    BY <1>3, <2>2
  <2> QED BY <1>6, <2>3, Zenon DEF a, newBests
<1>7. CASE m.kind \in {"initial", "track", "qualifying", "other"}
  <2>1. /\ DOMAIN u = Fields
        /\ u.seen = t.seen /\ u.messages = t.messages
        /\ u.laps = t.laps /\ u.bests = t.bests
    <3> DEFINE cars == CarsOf(m.results)
    <3> HIDE DEF cars
    <3>1. CASE m.kind = "initial"
      <4>1. u = [t EXCEPT !.session = m.session, !.cars = cars]
        BY <3>1 DEF u, Reduce, ApplyInitialState, cars
      <4> QED BY <1>1, <4>1 DEF Fields
    <3>2. CASE m.kind = "track"
      <4>1. u = [t EXCEPT !.track = m.track]
        BY <3>2 DEF u, Reduce, ApplyTrackState
      <4> QED BY <1>1, <4>1 DEF Fields
    <3>3. CASE m.kind = "qualifying"
      <4>1. u = [t EXCEPT !.qualifying = m.results]
        BY <3>3 DEF u, Reduce
      <4> QED BY <1>1, <4>1 DEF Fields
    <3>4. CASE m.kind = "other"
      <4>1. u = t
        BY <3>4 DEF u, Reduce
      <4> QED BY <1>1, <4>1
    <3> QED BY <1>7, <3>1, <3>2, <3>3, <3>4
  <2>2. m.kind \notin {"race", "laps", "statistics"}
    BY <1>7
  <2> QED BY <1>1, <1>3, <2>1, <2>2 DEF a
<1> QED BY MessageKinds, <1>4, <1>5, <1>6, <1>7

(* The last message of a kind once another message has come.               *)
LEMMA LastAppend ==
  ASSUME NEW l \in Seq(MessageType), NEW m \in MessageType, NEW kind
  PROVE  LastOf(Append(l, m), kind) =
           IF m.kind = kind THEN {Len(l) + 1} ELSE LastOf(l, kind)
<1> DEFINE n == Len(l) + 1
           ll == Append(l, m)
<1>1. Of(ll, kind) = IF m.kind = kind THEN Of(l, kind) \cup {n} ELSE Of(l, kind)
  BY OfAppend
<1>2. \A i \in Of(l, kind) : i \in Nat /\ i < n
  BY OfAppend DEF Of
<1>3. n \in Nat
  OBVIOUS
<1> HIDE DEF n, ll
<1>4. CASE m.kind = kind
  <2>1. Of(ll, kind) = Of(l, kind) \cup {n}
    BY <1>1, <1>4
  <2>2. \A j \in Of(ll, kind) : j = n \/ (j \in Nat /\ j < n)
    BY <1>2, <2>1
  <2>3. n \in LastOf(ll, kind)
    BY <1>3, <2>1, <2>2 DEF LastOf
  <2>4. \A i \in LastOf(ll, kind) : i = n
    BY <1>3, <2>1, <2>2 DEF LastOf
  <2>5. LastOf(ll, kind) = {n}
    BY <2>3, <2>4
  <2> QED BY <1>4, <2>5 DEF n, ll
<1>5. CASE m.kind # kind
  <2>1. Of(ll, kind) = Of(l, kind)
    BY <1>1, <1>5
  <2> QED BY <1>5, <2>1 DEF LastOf, ll
<1> QED BY <1>4, <1>5

(* What comes of the cars of a message.                                    *)
LEMMA CarsTyped ==
  ASSUME NEW results \in Seq(Row)
  PROVE  OneCarEach(CarsOf(results)) /\ CarsOf(results) \in Seq(CarType)
<1> DEFINE cars == CarsOf(results)
<1>1. IsTable(results)
  BY DEF IsTable
<1>2. HoldsRows(cars, results)
  BY <1>1, CarsOfHoldsRows
<1> HIDE DEF cars
<1>3. \A k \in DOMAIN cars : cars[k] \in CarType
  <2> TAKE k \in DOMAIN cars
  <2>1. PICK i \in DOMAIN results : cars[k] = Car(results[i])
    BY <1>2 DEF HoldsRows
  <2>2. results[i] \in Row
    OBVIOUS
  <2>3. OrZero(results[i].position) \in Nat
    BY <2>2 DEF OrZero, Row
  <2> QED BY <2>1, <2>2, <2>3 DEF Car, CarType, Row
<1>4. cars \in Seq(CarType)
  <2>1. PICK n \in Nat : cars = [i \in 1 .. n |-> cars[i]]
    BY <1>2 DEF HoldsRows, IsTable
  <2>2. DOMAIN cars = 1 .. n
    BY <2>1
  <2>3. \A i \in 1 .. n : cars[i] \in CarType
    BY <1>3, <2>2
  <2> QED BY <2>1, <2>3
<1>5. \A k \in DOMAIN cars : cars[k].no \in Nat
  BY <1>3 DEF CarType
<1>6. OneCarEach(cars)
  BY <1>2, <1>5 DEF HoldsRows, OneCarEach
<1> QED BY <1>4, <1>6 DEF cars

(* What the reducer replaces, and that it leaves the other kinds' fields.  *)
LEMMA ReduceReplaces ==
  ASSUME NEW s, DOMAIN s = Fields, NEW m \in MessageType
  PROVE  LET u == Reduce(s, m)
         IN /\ DOMAIN u = Fields
            /\ u.source = s.source
            /\ u.updated = s.updated
            /\ u.freshness = s.freshness
            /\ u.session = IF m.kind = "initial" THEN m.session ELSE s.session
            /\ u.cars = IF m.kind = "initial" THEN CarsOf(m.results) ELSE s.cars
            /\ u.track = IF m.kind = "track" THEN m.track ELSE s.track
            /\ u.qualifying = IF m.kind = "qualifying" THEN m.results
                              ELSE s.qualifying
            /\ u.leading = IF m.kind = "statistics" THEN m.leading ELSE s.leading
<1> DEFINE u == Reduce(s, m)
<1>1. CASE m.kind = "initial"
  <2> DEFINE cars == CarsOf(m.results)
  <2> HIDE DEF cars
  <2>1. u = [s EXCEPT !.session = m.session, !.cars = cars]
    BY <1>1 DEF Reduce, ApplyInitialState, cars
  <2> HIDE DEF u
  <2>2. /\ DOMAIN u = Fields /\ u.source = s.source /\ u.updated = s.updated
        /\ u.freshness = s.freshness /\ u.session = m.session /\ u.cars = cars
        /\ u.track = s.track /\ u.qualifying = s.qualifying
        /\ u.leading = s.leading
    BY <2>1 DEF Fields
  <2> QED BY <1>1, <2>2 DEF u, cars
<1>2. CASE m.kind = "race"
  <2>1. u = s \/ u = [s EXCEPT !.seen = s.seen \cup {m.key},
                               !.messages = Append(s.messages, m)]
    BY <1>2 DEF Reduce, ApplyRaceMessage
  <2> HIDE DEF u
  <2>2. /\ DOMAIN u = Fields /\ u.source = s.source /\ u.updated = s.updated
        /\ u.freshness = s.freshness /\ u.session = s.session
        /\ u.cars = s.cars /\ u.track = s.track
        /\ u.qualifying = s.qualifying /\ u.leading = s.leading
    BY <2>1 DEF Fields
  <2> QED BY <1>2, <2>2 DEF u
<1>3. CASE m.kind = "laps"
  <2> DEFINE laps == [key \in DOMAIN s.laps \cup LapKeys(m) |->
                        IF key \in LapKeys(m)
                        THEN m.laps[Max(RowsOfLap(m, key))].time
                        ELSE s.laps[key]]
  <2> HIDE DEF laps
  <2>1. u = [s EXCEPT !.laps = laps]
    BY <1>3, Zenon DEF Reduce, ApplyPerCarLaps, laps
  <2> HIDE DEF u
  <2>2. /\ DOMAIN u = Fields /\ u.source = s.source /\ u.updated = s.updated
        /\ u.freshness = s.freshness /\ u.session = s.session
        /\ u.cars = s.cars /\ u.track = s.track
        /\ u.qualifying = s.qualifying /\ u.leading = s.leading
    BY <2>1 DEF Fields
  <2> QED BY <1>3, <2>2 DEF u
<1>4. CASE m.kind = "statistics"
  <2> DEFINE bests == [key \in DOMAIN s.bests \cup SectorKeys(m) |->
                         Min(Known(s.bests, key) \cup Sent(m, key))]
  <2> HIDE DEF bests
  <2>1. u = [s EXCEPT !.leading = m.leading, !.bests = bests]
    BY <1>4, Zenon DEF Reduce, ApplyStatistics, bests
  <2> HIDE DEF u
  <2>2. /\ DOMAIN u = Fields /\ u.source = s.source /\ u.updated = s.updated
        /\ u.freshness = s.freshness /\ u.session = s.session
        /\ u.cars = s.cars /\ u.track = s.track
        /\ u.qualifying = s.qualifying /\ u.leading = m.leading
    BY <2>1 DEF Fields
  <2> QED BY <1>4, <2>2 DEF u
<1>5. CASE m.kind = "track"
  <2>1. u = [s EXCEPT !.track = m.track]
    BY <1>5 DEF Reduce, ApplyTrackState
  <2> HIDE DEF u
  <2>2. /\ DOMAIN u = Fields /\ u.source = s.source /\ u.updated = s.updated
        /\ u.freshness = s.freshness /\ u.session = s.session
        /\ u.cars = s.cars /\ u.track = m.track
        /\ u.qualifying = s.qualifying /\ u.leading = s.leading
    BY <2>1 DEF Fields
  <2> QED BY <1>5, <2>2 DEF u
<1>6. CASE m.kind = "qualifying"
  <2>1. u = [s EXCEPT !.qualifying = m.results]
    BY <1>6 DEF Reduce
  <2> HIDE DEF u
  <2>2. /\ DOMAIN u = Fields /\ u.source = s.source /\ u.updated = s.updated
        /\ u.freshness = s.freshness /\ u.session = s.session
        /\ u.cars = s.cars /\ u.track = s.track
        /\ u.qualifying = m.results /\ u.leading = s.leading
    BY <2>1 DEF Fields
  <2> QED BY <1>6, <2>2 DEF u
<1>7. CASE m.kind = "other"
  <2>1. u = s
    BY <1>7 DEF Reduce
  <2> QED BY <1>7, <2>1
<1> QED BY MessageKinds, <1>1, <1>2, <1>3, <1>4, <1>5, <1>6, <1>7

LEMMA ApplyReplaces ==
  ASSUME NEW s, DOMAIN s = Fields, NEW m \in MessageType
  PROVE  LET a == Apply(s, m)
         IN /\ a.source = s.source
            /\ a.updated = TRUE
            /\ a.freshness = IF Raises(m) THEN s.freshness ELSE "FRESH"
            /\ a.session = IF m.kind = "initial" THEN m.session ELSE s.session
            /\ a.cars = IF m.kind = "initial" THEN CarsOf(m.results) ELSE s.cars
            /\ a.track = IF m.kind = "track" THEN m.track ELSE s.track
            /\ a.qualifying = IF m.kind = "qualifying" THEN m.results
                              ELSE s.qualifying
            /\ a.leading = IF m.kind = "statistics" THEN m.leading ELSE s.leading
<1> DEFINE t == [s EXCEPT !.updated = TRUE]
           u == Reduce(t, m)
           a == Apply(s, m)
<1>1. /\ DOMAIN t = Fields /\ t.updated = TRUE
      /\ t.source = s.source /\ t.freshness = s.freshness
      /\ t.session = s.session /\ t.cars = s.cars /\ t.track = s.track
      /\ t.qualifying = s.qualifying /\ t.leading = s.leading
  BY DEF Fields
<1>2. a = IF Raises(m) THEN u ELSE [u EXCEPT !.freshness = "FRESH"]
  BY DEF Apply
<1> HIDE DEF t
<1>3. /\ DOMAIN u = Fields
      /\ u.source = s.source
      /\ u.updated = TRUE
      /\ u.freshness = s.freshness
      /\ u.session = IF m.kind = "initial" THEN m.session ELSE s.session
      /\ u.cars = IF m.kind = "initial" THEN CarsOf(m.results) ELSE s.cars
      /\ u.track = IF m.kind = "track" THEN m.track ELSE s.track
      /\ u.qualifying = IF m.kind = "qualifying" THEN m.results ELSE s.qualifying
      /\ u.leading = IF m.kind = "statistics" THEN m.leading ELSE s.leading
  BY <1>1, ReduceReplaces
<1> HIDE DEF a, u
<1>4. /\ a.source = u.source /\ a.updated = u.updated
      /\ a.freshness = IF Raises(m) THEN u.freshness ELSE "FRESH"
      /\ a.session = u.session /\ a.cars = u.cars /\ a.track = u.track
      /\ a.qualifying = u.qualifying /\ a.leading = u.leading
  BY <1>2, <1>3 DEF Fields
<1> QED BY <1>3, <1>4 DEF a

(* What apply() does to a state that fits its log.                         *)
LEMMA ApplyFits ==
  ASSUME NEW s, NEW l \in Seq(MessageType), NEW m \in MessageType,
         DOMAIN s = Fields, s.seen = RaceKeys(l), Fits(s, l)
  PROVE  /\ DOMAIN Apply(s, m) = Fields
         /\ Apply(s, m).seen = RaceKeys(Append(l, m))
         /\ Fits(Apply(s, m), Append(l, m))
<1> DEFINE a == Apply(s, m)
           ll == Append(l, m)
<1>1. DOMAIN a = Fields
  BY ApplyFields
<1>2. a.seen = RaceKeys(ll)
  <2>1. a.seen = IF m.kind = "race" THEN s.seen \cup {m.key} ELSE s.seen
    BY ApplyFields
  <2>2. RaceKeys(ll) = IF m.kind = "race" THEN RaceKeys(l) \cup {m.key}
                       ELSE RaceKeys(l)
    BY FirstsAppend
  <2> HIDE DEF a, ll
  <2> QED BY <2>1, <2>2
<1>3. /\ a.messages \in Seq(MessageType)
      /\ MessageKeys(a.messages) = RaceKeys(ll)
      /\ HoldsFirsts(a.messages, ll)
  <2>1. CASE m.kind = "race" /\ m.key \notin RaceKeys(l)
    <3>1. a.messages = Append(s.messages, m)
      BY <2>1, ApplyFields
    <3>2. HoldsFirsts(Append(s.messages, m), ll)
      BY <2>1, FirstsExtended DEF Fits
    <3>3. MessageKeys(Append(s.messages, m)) =
            MessageKeys(s.messages) \cup {m.key}
      <4>1. s.messages \in Seq(MessageType)
        BY DEF Fits
      <4> DEFINE n == Len(s.messages) + 1
      <4>2. /\ DOMAIN Append(s.messages, m) = DOMAIN s.messages \cup {n}
            /\ Append(s.messages, m)[n] = m
            /\ \A i \in DOMAIN s.messages :
                 Append(s.messages, m)[i] = s.messages[i]
        BY <4>1
      <4> HIDE DEF n
      <4>3. \A key : key \in MessageKeys(Append(s.messages, m)) <=>
                       key \in MessageKeys(s.messages) \/ key = m.key
        BY <4>2 DEF MessageKeys
      <4> QED BY <4>3
    <3>4. RaceKeys(ll) = RaceKeys(l) \cup {m.key}
      BY <2>1, FirstsAppend
    <3>5. Append(s.messages, m) \in Seq(MessageType)
      BY DEF Fits
    <3> HIDE DEF a, ll
    <3> QED BY <3>1, <3>2, <3>3, <3>4, <3>5 DEF Fits
  <2>2. CASE ~(m.kind = "race" /\ m.key \notin RaceKeys(l))
    <3>1. a.messages = s.messages
      BY <2>2, ApplyFields
    <3>2. RaceKeys(ll) = RaceKeys(l)
      BY ZenonT(60), <2>2, FirstsAppend
    <3>3. HoldsFirsts(s.messages, ll)
      BY <2>2, FirstsKept DEF Fits
    <3> HIDE DEF a, ll
    <3> QED BY <3>1, <3>2, <3>3 DEF Fits
  <2> QED BY <2>1, <2>2
<1>4. HoldsStored(a.laps, ll)
  <2>1. CASE m.kind = "laps"
    BY ZenonT(60), <2>1, ApplyFields, LatestExtended DEF Fits
  <2>2. CASE m.kind # "laps"
    BY <2>2, ApplyFields, LatestKept DEF Fits
  <2> QED BY <2>1, <2>2
<1>5. HoldsMinima(a.bests, ll)
  <2>1. CASE m.kind = "statistics"
    <3> DEFINE new == [key \in DOMAIN s.bests \cup SectorKeys(m) |->
                         Min(Known(s.bests, key) \cup Sent(m, key))]
    <3>1. HoldsMinima(s.bests, l)
      BY DEF Fits
    <3>2. HoldsMinima(new, ll)
      BY <2>1, <3>1, MinimaExtended, Zenon
    <3>3. a.bests = new
      BY <2>1, ApplyFields, Zenon
    <3> HIDE DEF new
    <3> QED BY <3>2, <3>3
  <2>2. CASE m.kind # "statistics"
    BY <2>2, ApplyFields, MinimaKept DEF Fits
  <2> QED BY <2>1, <2>2
<1>6. a.source \in Sources /\ HoldsFreshness(a, ll)
  <2>1. s.source \in Sources /\ HoldsFreshness(s, l)
    BY DEF Fits
  <2>2. /\ a.source = s.source /\ a.updated = TRUE
        /\ a.freshness = IF Raises(m) THEN s.freshness ELSE "FRESH"
    BY ApplyReplaces
  <2>3. /\ DOMAIN ll = DOMAIN l \cup {Len(l) + 1} /\ ll # <<>>
        /\ \A i \in DOMAIN l : ll[i] = l[i]
        /\ ll[Len(l) + 1] = m
    OBVIOUS
  <2> HIDE DEF a, ll
  <2>4. (\A i \in DOMAIN ll : Raises(ll[i])) <=>
          (\A i \in DOMAIN l : Raises(l[i])) /\ Raises(m)
    BY <2>3
  <2> QED BY <2>1, <2>2, <2>3, <2>4 DEF HoldsFreshness
<1>7. OneCarEach(a.cars) /\ a.cars \in Seq(CarType)
  <2>1. a.cars = IF m.kind = "initial" THEN CarsOf(m.results) ELSE s.cars
    BY ApplyReplaces
  <2>2. m.kind = "initial" => m.results \in Seq(Row)
    BY MessageKinds
  <2> HIDE DEF a
  <2> QED BY <2>1, <2>2, CarsTyped DEF Fits
<1>8. HoldsLast(a, ll)
  <2> DEFINE n == Len(l) + 1
  <2>1. HoldsLast(s, l)
    BY DEF Fits
  <2>2. \A kind : IF m.kind = kind
                 THEN LastOf(ll, kind) = {n} /\ Of(ll, kind) # {}
                 ELSE /\ LastOf(ll, kind) = LastOf(l, kind)
                      /\ Of(ll, kind) = Of(l, kind)
    BY LastAppend, OfAppend
  <2>3. ll[n] = m /\ \A kind : \A i \in LastOf(l, kind) : ll[i] = l[i]
    BY OfAppend DEF LastOf, Of
  <2>4. /\ a.session = IF m.kind = "initial" THEN m.session ELSE s.session
        /\ a.cars = IF m.kind = "initial" THEN CarsOf(m.results) ELSE s.cars
        /\ a.track = IF m.kind = "track" THEN m.track ELSE s.track
        /\ a.qualifying = IF m.kind = "qualifying" THEN m.results
                          ELSE s.qualifying
        /\ a.leading = IF m.kind = "statistics" THEN m.leading ELSE s.leading
    BY ApplyReplaces
  <2> HIDE DEF a, ll, n
  <2>5. /\ Of(ll, "initial") = {} => a.session = None /\ a.cars = <<>>
        /\ \A i \in LastOf(ll, "initial") :
             a.session = ll[i].session
               /\ ToSet(a.cars) = ToSet(CarsOf(ll[i].results))
    BY <2>1, <2>2, <2>3, <2>4 DEF HoldsLast
  <2>6. /\ Of(ll, "track") = {} => a.track = None
        /\ \A i \in LastOf(ll, "track") : a.track = ll[i].track
    <3>1. CASE m.kind = "track"
      BY <2>2, <2>3, <2>4, <3>1
    <3>2. CASE m.kind # "track"
      BY <2>1, <2>2, <2>3, <2>4, <3>2 DEF HoldsLast
    <3> QED BY <3>1, <3>2
  <2>7. /\ Of(ll, "qualifying") = {} => a.qualifying = None
        /\ \A i \in LastOf(ll, "qualifying") : a.qualifying = ll[i].results
    <3>1. CASE m.kind = "qualifying"
      BY <2>2, <2>3, <2>4, <3>1
    <3>2. CASE m.kind # "qualifying"
      BY <2>1, <2>2, <2>3, <2>4, <3>2 DEF HoldsLast
    <3> QED BY <3>1, <3>2
  <2>8. /\ Of(ll, "statistics") = {} => a.leading = None
        /\ \A i \in LastOf(ll, "statistics") : a.leading = ll[i].leading
    <3>1. CASE m.kind = "statistics"
      BY <2>2, <2>3, <2>4, <3>1
    <3>2. CASE m.kind # "statistics"
      BY <2>1, <2>2, <2>3, <2>4, <3>2 DEF HoldsLast
    <3> QED BY <3>1, <3>2
  <2> QED BY <2>5, <2>6, <2>7, <2>8 DEF HoldsLast
<1>9. IsDict(a.laps) /\ IsDict(a.bests)
  <2> DEFINE newLaps == [key \in DOMAIN s.laps \cup LapKeys(m) |->
                           IF key \in LapKeys(m)
                           THEN m.laps[Max(RowsOfLap(m, key))].time
                           ELSE s.laps[key]]
             newBests == [key \in DOMAIN s.bests \cup SectorKeys(m) |->
                            Min(Known(s.bests, key) \cup Sent(m, key))]
  <2>1. IsDict(newLaps) /\ IsDict(newBests)
    BY DEF IsDict
  <2>2. /\ a.laps = IF m.kind = "laps" THEN newLaps ELSE s.laps
        /\ a.bests = IF m.kind = "statistics" THEN newBests ELSE s.bests
    BY ApplyFields, Zenon
  <2> HIDE DEF a, newLaps, newBests
  <2> QED BY <2>1, <2>2 DEF Fits
<1> HIDE DEF a, ll
<1>10. Fits(a, ll)
  BY <1>3, <1>4, <1>5, <1>6, <1>7, <1>8, <1>9 DEF Fits
<1> QED BY <1>1, <1>2, <1>10 DEF a, ll

LEMMA MessagesTyped == Seq(Messages) \subseteq Seq(MessageType)
BY MessagesAssumption

LEMMA InitHolds == Init => IInv
<1> SUFFICES ASSUME Init PROVE IInv
  OBVIOUS
<1>1. LogTyped /\ log = <<>>
  BY DEF Init, LogTyped
<1>2. StateFits
  BY <1>1, EmptyFits DEF Init, StateFits, Sources
<1>3. SnapshotFits /\ CopyFits
  BY DEF Init, SnapshotFits, CopyFits
<1> QED BY <1>1, <1>2, <1>3 DEF IInv

(* A state that differs in the order of the cars only fits as well.        *)
LEMMA ReorderedFits ==
  ASSUME NEW s, NEW l, Fits(s, l), NEW t,
         t.source = s.source, t.freshness = s.freshness, t.updated = s.updated,
         t.session = s.session, t.track = s.track,
         t.qualifying = s.qualifying, t.leading = s.leading,
         t.messages = s.messages, t.laps = s.laps, t.bests = s.bests,
         OneCarEach(t.cars), ToSet(t.cars) = ToSet(s.cars)
  PROVE  Fits(t, l)
<1>1. s.cars \in Seq(CarType) /\ OneCarEach(s.cars)
  BY DEF Fits
<1>2. PICK n \in Nat : t.cars = [i \in 1 .. n |-> t.cars[i]]
  BY DEF OneCarEach, IsTable
<1>3. t.cars \in Seq(CarType)
  <2>1. DOMAIN t.cars = 1 .. n
    BY <1>2
  <2>2. \A i \in 1 .. n : t.cars[i] \in ToSet(s.cars)
    BY <2>1 DEF ToSet
  <2>3. \A c \in ToSet(s.cars) : c \in CarType
    BY <1>1 DEF ToSet
  <2>4. \A i \in 1 .. n : t.cars[i] \in CarType
    BY <2>2, <2>3
  <2> QED BY <1>2, <2>4
<1>4. s.cars = <<>> => t.cars = <<>>
  <2> HAVE s.cars = <<>>
  <2>1. \A c : c \notin ToSet(s.cars)
    BY DEF ToSet
  <2>2. \A i \in DOMAIN t.cars : t.cars[i] \in ToSet(t.cars)
    BY DEF ToSet
  <2>3. DOMAIN t.cars = 1 .. n
    BY <1>2
  <2>4. 1 .. n = {}
    BY <2>1, <2>2, <2>3
  <2>5. n = 0
    BY <2>4
  <2>6. [i \in 1 .. 0 |-> t.cars[i]] = <<>>
    OBVIOUS
  <2> QED BY <1>2, <2>5, <2>6
<1>5. HoldsLast(s, l) /\ HoldsFreshness(s, l)
  BY DEF Fits
<1>6. HoldsLast(t, l)
  BY <1>4, <1>5 DEF HoldsLast
<1>7. HoldsFreshness(t, l)
  BY <1>5 DEF HoldsFreshness
<1> QED BY <1>3, <1>6, <1>7 DEF Fits

(* What is saved has what the state had.                                   *)
LEMMA SavedFits ==
  ASSUME NEW s, NEW l, DOMAIN s = Fields, Fits(s, l)
  PROVE  DOMAIN ToJson(s) = DocFields /\ Fits(ToJson(s), l)
<1> DEFINE d == ToJson(s)
<1>1. /\ DOMAIN d = DocFields
      /\ d.source = s.source /\ d.freshness = s.freshness
      /\ d.updated = s.updated /\ d.session = s.session
      /\ d.track = s.track /\ d.qualifying = s.qualifying
      /\ d.leading = s.leading /\ d.messages = s.messages
      /\ d.laps = s.laps /\ d.bests = s.bests
  BY DEF ToJson, Fields, DocFields
<1>2. OneCarEach(s.cars)
  BY DEF Fits
<1>3. OneCarEach(d.cars) /\ ToSet(d.cars) = ToSet(s.cars)
  BY <1>2, SavedCars
<1> HIDE DEF d
<1>4. Fits(d, l)
  BY <1>1, <1>3, ReorderedFits
<1> QED BY <1>1, <1>4 DEF d

(* A document that has lost nothing is whole.                              *)
LEMMA UndamagedFits ==
  ASSUME NEW l, NEW doc, DOMAIN doc = DocFields, Fits(doc, l)
  PROVE  DOMAIN Without(doc, {}) = DocFields /\ Fits(Without(doc, {}), l)
<1> DEFINE d == Without(doc, {})
<1>1. /\ DOMAIN d = DocFields
      /\ \A field \in DocFields : d[field] = doc[field]
  BY DEF Without
<1> HIDE DEF d
<1>2. /\ d.source = doc.source /\ d.freshness = doc.freshness
      /\ d.updated = doc.updated /\ d.session = doc.session
      /\ d.track = doc.track /\ d.qualifying = doc.qualifying
      /\ d.leading = doc.leading /\ d.messages = doc.messages
      /\ d.laps = doc.laps /\ d.bests = doc.bests /\ d.cars = doc.cars
  BY <1>1 DEF DocFields, Fields
<1>3. OneCarEach(doc.cars)
  BY DEF Fits
<1>4. Fits(d, l)
  BY <1>2, <1>3, ReorderedFits
<1> QED BY <1>1, <1>4 DEF d

(* What is restored from a document has what the document has.             *)
LEMMA RestoredFields ==
  ASSUME NEW d, DOMAIN d = DocFields
  PROVE  LET s == FromJson(d)
         IN /\ DOMAIN s = Fields
            /\ s.source = d.source /\ s.freshness = d.freshness
            /\ s.updated = d.updated /\ s.session = d.session
            /\ s.track = d.track /\ s.qualifying = d.qualifying
            /\ s.leading = d.leading /\ s.messages = d.messages
            /\ s.laps = d.laps /\ s.bests = d.bests /\ s.cars = d.cars
            /\ s.seen = MessageKeys(d.messages)
BY DEF FromJson, FieldOr, Fields, DocFields, MessageKeys

LEMMA RestoredFits ==
  ASSUME NEW l, NEW d, DOMAIN d = DocFields, Fits(d, l)
  PROVE  /\ DOMAIN FromJson(d) = Fields
         /\ FromJson(d).seen = RaceKeys(l)
         /\ Fits(FromJson(d), l)
<1>1. OneCarEach(d.cars) /\ MessageKeys(d.messages) = RaceKeys(l)
  BY DEF Fits
<1> QED BY <1>1, RestoredFields, ReorderedFits

(* What a restored state has heard: message by message.                    *)
LEMMA ReplayedMessages ==
  ASSUME NEW l \in Seq(MessageType), NEW base \in 0 .. Len(l),
         NEW start \in 0 .. base, NEW end \in start .. Len(l)
  PROVE  LET h == Replayed(l, base, start, end)
         IN /\ h \in Seq(MessageType)
            /\ Len(h) = base + (end - start)
            /\ DOMAIN h = 1 .. base + (end - start)
            /\ \A j \in 1 .. base : h[j] = l[j]
            /\ \A j \in base + 1 .. base + (end - start) :
                 h[j] = l[start + (j - base)]
<1> DEFINE p == SubSeq(l, 1, base)
           q == SubSeq(l, start + 1, end)
           h == Replayed(l, base, start, end)
<1>1. /\ base \in Nat /\ start \in Nat /\ end \in Nat /\ Len(l) \in Nat
      /\ start <= base /\ base <= Len(l) /\ start <= end /\ end <= Len(l)
  OBVIOUS
<1>2. /\ p \in Seq(MessageType) /\ Len(p) = base
      /\ \A j \in 1 .. base : p[j] = l[j]
  BY <1>1
<1>3. /\ q \in Seq(MessageType) /\ Len(q) = end - start
      /\ \A j \in 1 .. end - start : q[j] = l[start + j]
  BY <1>1
<1>4. h = p \o q
  BY DEF Replayed
<1> HIDE DEF p, q, h
<1>5. h \in Seq(MessageType) /\ Len(h) = base + (end - start)
  <2>1. h \in Seq(MessageType) /\ Len(h) = Len(p) + Len(q)
    BY <1>2, <1>3, <1>4, ConcatProperties
  <2> QED BY <1>1, <1>2, <1>3, <2>1
<1>6. \A j \in 1 .. base : h[j] = p[j]
  BY <1>1, <1>2, <1>3, <1>4
<1>7. \A j \in base + 1 .. base + (end - start) : h[j] = q[j - base]
  BY <1>1, <1>2, <1>3, <1>4
<1>8. \A j \in base + 1 .. base + (end - start) : j - base \in 1 .. end - start
  BY <1>1
<1> QED BY <1>2, <1>3, <1>5, <1>6, <1>7, <1>8 DEF h

(* One message more, of the log or in it.                                  *)
LEMMA ReplayedMore ==
  ASSUME NEW l \in Seq(MessageType), NEW base \in 0 .. Len(l),
         NEW start \in 0 .. base, NEW end \in start .. Len(l)
  PROVE  /\ \A m \in MessageType :
              Replayed(Append(l, m), base, start, end) =
                Replayed(l, base, start, end)
         /\ end < Len(l) =>
              Replayed(l, base, start, end + 1) =
                Append(Replayed(l, base, start, end), l[end + 1])
         /\ Replayed(l, base, start, start) = SubSeq(l, 1, base)
<1>1. /\ base \in Nat /\ start \in Nat /\ end \in Nat /\ Len(l) \in Nat
      /\ start <= base /\ base <= Len(l) /\ start <= end /\ end <= Len(l)
  OBVIOUS
<1>2. ASSUME NEW m \in MessageType
      PROVE  Replayed(Append(l, m), base, start, end) =
               Replayed(l, base, start, end)
  <2>1. SubSeq(Append(l, m), 1, base) = SubSeq(l, 1, base)
    BY <1>1
  <2>2. SubSeq(Append(l, m), start + 1, end) = SubSeq(l, start + 1, end)
    BY <1>1
  <2> QED BY <2>1, <2>2 DEF Replayed
<1>3. ASSUME end < Len(l)
      PROVE  Replayed(l, base, start, end + 1) =
               Append(Replayed(l, base, start, end), l[end + 1])
  <2> DEFINE g == Replayed(l, base, start, end + 1)
             h == Replayed(l, base, start, end)
             a == Append(h, l[end + 1])
  <2>1. /\ g \in Seq(MessageType)
        /\ Len(g) = base + (end + 1 - start)
        /\ \A j \in 1 .. base : g[j] = l[j]
        /\ \A j \in base + 1 .. base + (end + 1 - start) :
             g[j] = l[start + (j - base)]
    <3> DEFINE e == end + 1
    <3>1. e \in start .. Len(l)
      BY <1>1, <1>3
    <3> HIDE DEF e
    <3>2. /\ Replayed(l, base, start, e) \in Seq(MessageType)
          /\ Len(Replayed(l, base, start, e)) = base + (e - start)
          /\ \A j \in 1 .. base : Replayed(l, base, start, e)[j] = l[j]
          /\ \A j \in base + 1 .. base + (e - start) :
               Replayed(l, base, start, e)[j] = l[start + (j - base)]
      BY <3>1, ReplayedMessages
    <3> QED BY <3>2 DEF e
  <2>2. /\ h \in Seq(MessageType)
        /\ Len(h) = base + (end - start)
        /\ \A j \in 1 .. base : h[j] = l[j]
        /\ \A j \in base + 1 .. base + (end - start) :
             h[j] = l[start + (j - base)]
    BY ReplayedMessages
  <2> HIDE DEF g, h
  <2>3. l[end + 1] \in MessageType
    BY <1>1, <1>3
  <2>4. /\ a \in Seq(MessageType) /\ Len(a) = base + (end + 1 - start)
        /\ \A j \in 1 .. base + (end - start) : a[j] = h[j]
        /\ a[base + (end - start) + 1] = l[end + 1]
    BY <1>1, <2>2, <2>3
  <2>5. \A j \in 1 .. base + (end + 1 - start) : g[j] = a[j]
    <3> HIDE DEF a
    <3> TAKE j \in 1 .. base + (end + 1 - start)
    <3>1. CASE j <= base
      BY <1>1, <2>1, <2>2, <2>4, <3>1
    <3>2. CASE base < j /\ j <= base + (end - start)
      BY <1>1, <2>1, <2>2, <2>4, <3>2
    <3>3. CASE j = base + (end - start) + 1
      <4>1. start + (j - base) = end + 1 /\ j \in base + 1 .. base + (end + 1 - start)
        BY <1>1, <3>3
      <4> QED BY <2>1, <2>4, <3>3, <4>1
    <3> QED BY <1>1, <3>1, <3>2, <3>3
  <2> HIDE DEF a
  <2>6. g = a
    BY <2>1, <2>4, <2>5, SeqEqual
  <2> QED BY <2>6 DEF g, h, a
<1>4. Replayed(l, base, start, start) = SubSeq(l, 1, base)
  <2>1. SubSeq(l, start + 1, start) = <<>>
    BY <1>1
  <2>2. SubSeq(l, 1, base) \in Seq(MessageType)
    BY <1>1
  <2> QED BY <2>1, <2>2 DEF Replayed
<1> QED BY <1>2, <1>3, <1>4

LEMMA NextHolds ==
  ASSUME DamageIsDetected, IInv, [Next]_vars
  PROVE  IInv'
<1> USE DEF IInv
<1>1. log \in Seq(MessageType)
  BY MessagesTyped DEF LogTyped
<1>2. ASSUME NEW m \in Messages, Hear(m)
      PROVE  IInv'
  <2>1. m \in MessageType
    BY MessagesAssumption
  <2>2. LogTyped'
    BY <1>2 DEF Hear, LogTyped
  <2>3. StateFits'
    BY <1>1, <1>2, <2>1, ApplyFits DEF Hear, StateFits
  <2>4. SubSeq(log', 1, savedAt') = SubSeq(log, 1, savedAt)
    BY <1>2 DEF Hear, LogTyped
  <2>5. SnapshotFits'
    BY <1>2, <2>4 DEF Hear, SnapshotFits
  <2>6. CopyFits'
    <3> SUFFICES ASSUME copy # None PROVE CopyFits'
      BY <1>2 DEF Hear, CopyFits
    <3> PICK base \in 0 .. Len(log) : \E start \in 0 .. base :
            /\ start <= copyAt
            /\ copy.seen = RaceKeys(Replayed(log, base, start, copyAt))
            /\ Fits(copy, Replayed(log, base, start, copyAt))
      BY DEF CopyFits
    <3>1. PICK start \in 0 .. base :
            /\ start <= copyAt
            /\ copy.seen = RaceKeys(Replayed(log, base, start, copyAt))
            /\ Fits(copy, Replayed(log, base, start, copyAt))
      OBVIOUS
    <3>2. copyAt \in start .. Len(log)
      BY <3>1 DEF LogTyped
    <3>3. log' = Append(log, m) /\ copy' = copy /\ copyAt' = copyAt
      BY <1>2 DEF Hear
    <3>4. Replayed(log', base, start, copyAt') = Replayed(log, base, start, copyAt)
      BY <1>1, <2>1, <3>2, <3>3, ReplayedMore
    <3>5. base \in 0 .. Len(log')
      BY <1>1, <3>3
    <3> QED BY <3>1, <3>3, <3>4, <3>5 DEF CopyFits
  <2> QED BY <2>2, <2>3, <2>5, <2>6
<1>3. ASSUME ClearState
      PROVE  IInv'
  <2>1. LogTyped' /\ log' = <<>>
    BY <1>3 DEF ClearState, LogTyped
  <2>2. state' = Empty(state.source) /\ state.source \in Sources
    BY <1>3 DEF ClearState, Clear, StateFits, Fits
  <2>3. StateFits'
    BY <2>1, <2>2, EmptyFits DEF StateFits
  <2>4. SnapshotFits' /\ CopyFits'
    BY <1>3 DEF ClearState, SnapshotFits, CopyFits
  <2> QED BY <2>1, <2>3, <2>4
<1>4. ASSUME NEW source \in Labels, SetSource(source)
      PROVE  IInv'
  <2>1. /\ DOMAIN state' = Fields
        /\ state'.source = source
        /\ \A field \in Fields \ {"source"} : state'[field] = state[field]
    BY <1>4 DEF SetSource, StateFits
  <2>2. source \in Sources
    BY BoundsAssumption
  <2>3. Fits(state, log) /\ state.seen = RaceKeys(log)
    BY DEF StateFits
  <2>4. /\ state'.freshness = state.freshness /\ state'.updated = state.updated
        /\ state'.session = state.session /\ state'.track = state.track
        /\ state'.qualifying = state.qualifying
        /\ state'.leading = state.leading
        /\ state'.messages = state.messages /\ state'.laps = state.laps
        /\ state'.bests = state.bests /\ state'.cars = state.cars
        /\ state'.seen = state.seen
    BY <2>1 DEF Fields
  <2>5. log' = log /\ saved' = saved /\ savedAt' = savedAt
          /\ copy' = copy /\ copyAt' = copyAt
    BY <1>4 DEF SetSource
  <2>6. Fits(state', log)
    BY <2>1, <2>2, <2>3, <2>4 DEF Fits, HoldsFreshness, HoldsLast
  <2>7. StateFits'
    BY <2>1, <2>3, <2>4, <2>5, <2>6 DEF StateFits
  <2>8. LogTyped' /\ SnapshotFits' /\ CopyFits'
    BY <2>5 DEF LogTyped, SnapshotFits, CopyFits
  <2> QED BY <2>7, <2>8
<1>5. ASSUME Save
      PROVE  IInv'
  <2>1. SubSeq(log', 1, savedAt') = log
    BY <1>5 DEF Save, LogTyped
  <2>2. SnapshotFits'
    BY <1>5, <2>1, SavedFits DEF Save, SnapshotFits, StateFits
  <2>3. LogTyped' /\ StateFits' /\ CopyFits'
    BY <1>5 DEF Save, LogTyped, StateFits, CopyFits
  <2> QED BY <2>2, <2>3
<1>6. ASSUME NEW start \in 0 .. savedAt, Restore(start)
      PROVE  IInv'
  <2>1. /\ savedAt \in 0 .. Len(log) /\ start \in start .. Len(log)
        /\ start \in 0 .. Len(log)
    BY DEF LogTyped
  <2>2. /\ saved # None /\ copy' = FromJson(saved) /\ copyAt' = start
        /\ log' = log /\ state' = state
        /\ saved' = saved /\ savedAt' = savedAt
    BY <1>6 DEF Restore
  <2>3. Replayed(log, savedAt, start, start) = SubSeq(log, 1, savedAt)
    BY <1>1, <2>1, ReplayedMore
  <2>4. /\ DOMAIN copy' = Fields
        /\ copy'.seen = RaceKeys(Replayed(log, savedAt, start, start))
        /\ Fits(copy', Replayed(log, savedAt, start, start))
    BY <2>2, <2>3, RestoredFits DEF SnapshotFits
  <2>5. CopyFits'
    BY <2>1, <2>2, <2>4 DEF CopyFits
  <2>6. LogTyped' /\ StateFits' /\ SnapshotFits'
    BY <2>1, <2>2 DEF LogTyped, StateFits, SnapshotFits
  <2> QED BY <2>5, <2>6
<1>7. ASSUME CatchUp
      PROVE  IInv'
  <2>1. /\ copy # None /\ copyAt < Len(log)
        /\ copy' = Apply(copy, log[copyAt + 1]) /\ copyAt' = copyAt + 1
        /\ log' = log /\ state' = state
        /\ saved' = saved /\ savedAt' = savedAt
    BY <1>7 DEF CatchUp
  <2>2. /\ copyAt \in 0 .. Len(log) /\ copyAt + 1 \in 1 .. Len(log)
        /\ log[copyAt + 1] \in MessageType
    BY <1>1, <2>1 DEF LogTyped
  <2> PICK base \in 0 .. Len(log) : \E start \in 0 .. base :
          /\ start <= copyAt
          /\ copy.seen = RaceKeys(Replayed(log, base, start, copyAt))
          /\ Fits(copy, Replayed(log, base, start, copyAt))
    BY <2>1 DEF CopyFits
  <2>3. PICK start \in 0 .. base :
          /\ start <= copyAt
          /\ copy.seen = RaceKeys(Replayed(log, base, start, copyAt))
          /\ Fits(copy, Replayed(log, base, start, copyAt))
    OBVIOUS
  <2> DEFINE h == Replayed(log, base, start, copyAt)
             m == log[copyAt + 1]
  <2>4. copyAt \in start .. Len(log)
    BY <2>2, <2>3
  <2>5. h \in Seq(MessageType)
    BY <1>1, <2>4, ReplayedMessages
  <2>6. Replayed(log, base, start, copyAt + 1) = Append(h, m)
    BY <1>1, <2>1, <2>4, ReplayedMore
  <2>7. DOMAIN copy = Fields
    BY <2>1 DEF CopyFits
  <2> HIDE DEF h, m
  <2>8. /\ DOMAIN Apply(copy, m) = Fields
        /\ Apply(copy, m).seen = RaceKeys(Append(h, m))
        /\ Fits(Apply(copy, m), Append(h, m))
    BY <2>2, <2>3, <2>5, <2>7, ApplyFits DEF h, m
  <2>9. start <= copyAt + 1
    BY <2>2, <2>3
  <2>10. /\ log' = log /\ copy' = Apply(copy, m)
         /\ copyAt' = copyAt + 1
    BY <2>1 DEF m
  <2>11. CopyFits'
    BY <2>6, <2>8, <2>9, <2>10 DEF CopyFits
  <2>12. LogTyped' /\ StateFits' /\ SnapshotFits'
    BY <2>1, <2>2 DEF LogTyped, StateFits, SnapshotFits
  <2> QED BY <2>11, <2>12
<1>8. ASSUME NEW lost \in Damages, Import(lost)
      PROVE  IInv'
  <2>1. CASE Accepts(Without(saved, lost))
    <3>1. lost = {}
      BY <2>1 DEF DamageIsDetected, Accepts, Without
    <3>2. /\ saved # None
          /\ state' = FromJson(Without(saved, {}))
          /\ log' = SubSeq(log, 1, savedAt)
          /\ copy' = None /\ copyAt' = 0
          /\ saved' = saved /\ savedAt' = savedAt
      BY <1>8, <2>1, <3>1 DEF Import
    <3>3. /\ log' \in Seq(Messages)
          /\ Len(log') = savedAt
          /\ SubSeq(log', 1, savedAt) = SubSeq(log, 1, savedAt)
      BY <3>2 DEF LogTyped
    <3>4. LogTyped'
      BY <3>2, <3>3 DEF LogTyped
    <3>5. StateFits'
      <4>1. DOMAIN saved = DocFields /\ Fits(saved, log')
        BY <3>2 DEF SnapshotFits
      <4>2. /\ DOMAIN Without(saved, {}) = DocFields
            /\ Fits(Without(saved, {}), log')
        BY <4>1, UndamagedFits
      <4> QED BY <3>2, <4>2, RestoredFits DEF StateFits
    <3>6. SnapshotFits' /\ CopyFits'
      BY <3>2, <3>3 DEF SnapshotFits, CopyFits
    <3> QED BY <3>4, <3>5, <3>6
  <2>2. CASE ~Accepts(Without(saved, lost))
    <3>1. UNCHANGED <<log, state, saved, savedAt, copy, copyAt>>
      BY <1>8, <2>2 DEF Import
    <3> QED BY <3>1 DEF LogTyped, StateFits, SnapshotFits, CopyFits
  <2> QED BY <2>1, <2>2
<1>9. CASE UNCHANGED vars
  BY <1>9 DEF vars, LogTyped, StateFits, SnapshotFits, CopyFits
<1> QED BY <1>2, <1>3, <1>4, <1>5, <1>6, <1>7, <1>8, <1>9 DEF Next

-----------------------------------------------------------------------------
(* What a state that fits a log is made of.                                *)

LEMMA LastExists ==
  ASSUME NEW l \in Seq(MessageType), NEW kind, Of(l, kind) # {}
  PROVE  LastOf(l, kind) # {}
<1>1. Of(l, kind) \in SUBSET (1 .. Len(l)) /\ Len(l) \in Nat
  BY DEF Of
<1>2. \E i \in Of(l, kind) : \A j \in Of(l, kind) : j <= i
  BY <1>1, MaxIsGreatest
<1> QED BY <1>2 DEF LastOf

(* A lap that was ever stored was stored by some row last.                 *)
LEMMA LastWrite ==
  ASSUME NEW l \in Seq(MessageType), NEW w \in StoredWrites(l)
  PROVE  \E v \in StoredWrites(l) :
           /\ LapKeyOf(l, v) = LapKeyOf(l, w)
           /\ \A u \in StoredWrites(l) :
                LapKeyOf(l, u) = LapKeyOf(l, w) => ~LaterWrite(u, v)
<1> DEFINE W == {u \in StoredWrites(l) : LapKeyOf(l, u) = LapKeyOf(l, w)}
           I == {u[1] : u \in W}
<1>1. \A u \in StoredWrites(l) :
        /\ u = <<u[1], u[2]>> /\ u[1] \in 1 .. Len(l) /\ u[2] \in Nat
        /\ l[u[1]].kind = "laps" /\ l[u[1]] \in MessageType
        /\ u[2] \in 1 .. Len(l[u[1]].laps) /\ Len(l[u[1]].laps) \in Nat
  <2> TAKE u \in StoredWrites(l)
  <2>1. PICK i \in Of(l, "laps") : u \in {i} \X StoredRows(l[i].laps)
    BY DEF StoredWrites
  <2>2. /\ u = <<u[1], u[2]>> /\ u[1] = i /\ u[2] \in StoredRows(l[i].laps)
    BY <2>1
  <2>3. i \in 1 .. Len(l) /\ l[i].kind = "laps" /\ l[i] \in MessageType
    BY DEF Of
  <2>4. l[i].laps \in Seq(LapRow)
    BY <2>3, MessageKinds
  <2>5. u[2] \in 1 .. Len(l[i].laps) /\ Len(l[i].laps) \in Nat
    BY <2>2, <2>4 DEF StoredRows
  <2> QED BY <2>2, <2>3, <2>5
<1>2. w \in W /\ W \subseteq StoredWrites(l)
  OBVIOUS
<1>3. I \in SUBSET (1 .. Len(l)) /\ I # {} /\ Len(l) \in Nat
  BY <1>1, <1>2
<1>4. PICK i \in I : \A k \in I : k <= i
  BY <1>3, MaxIsGreatest
<1> DEFINE J == {u[2] : u \in {v \in W : v[1] = i}}
<1>5. J \in SUBSET (1 .. Len(l[i].laps)) /\ J # {} /\ Len(l[i].laps) \in Nat
  <2>1. PICK u \in W : u[1] = i
    BY <1>4
  <2>2. \A v \in W : v[1] = i =>
          v[2] \in 1 .. Len(l[i].laps) /\ Len(l[i].laps) \in Nat
    BY <1>1, <1>2
  <2> QED BY <2>1, <2>2
<1>6. PICK j \in J : \A k \in J : k <= j
  BY <1>5, MaxIsGreatest
<1>7. PICK v \in W : v[1] = i /\ v[2] = j
  BY <1>6
<1>8. ASSUME NEW u \in W
      PROVE  ~LaterWrite(u, v)
  <2>1. u[1] <= i /\ u[1] \in Nat /\ i \in Nat
    BY <1>1, <1>2, <1>3, <1>4
  <2>2. u[1] = i => u[2] <= j /\ u[2] \in Nat /\ j \in Nat
    BY <1>1, <1>2, <1>5, <1>6
  <2> QED BY <1>7, <2>1, <2>2 DEF LaterWrite
<1> QED BY <1>7, <1>8

LEMMA LapsTyped ==
  ASSUME NEW l \in Seq(MessageType), NEW laps, HoldsStored(laps, l),
         NEW key \in DOMAIN laps
  PROVE  key \in Values \X Nat \X Nat /\ laps[key] \in Nat
<1>1. PICK w \in StoredWrites(l) : key = LapKeyOf(l, w)
  BY DEF HoldsStored
<1>2. PICK v \in StoredWrites(l) :
        /\ LapKeyOf(l, v) = key
        /\ \A u \in StoredWrites(l) : LapKeyOf(l, u) = key => ~LaterWrite(u, v)
  BY <1>1, LastWrite
<1>3. laps[key] = l[v[1]].laps[v[2]].time
  BY <1>2 DEF HoldsStored
<1>4. PICK i \in Of(l, "laps") : v \in {i} \X StoredRows(l[i].laps)
  BY DEF StoredWrites
<1> DEFINE m == l[i]
           row == m.laps[v[2]]
<1>5. v[1] = i /\ m \in MessageType /\ m.kind = "laps"
  BY <1>4 DEF Of
<1>6. m.session \in Values /\ m.no \in Nat /\ m.laps \in Seq(LapRow)
  BY <1>5, MessageKinds
<1>7. v[2] \in DOMAIN m.laps
  BY <1>4 DEF StoredRows
<1> HIDE DEF m
<1>8. row \in LapRow
  BY <1>6, <1>7
<1> HIDE DEF row
<1>9. row.lap \in Nat /\ row.time \in Nat
  BY <1>8 DEF LapRow
<1>10. key = <<m.session, m.no, row.lap>> /\ laps[key] = row.time
  BY <1>2, <1>3, <1>5 DEF LapKeyOf, LapKey, m, row
<1> QED BY <1>6, <1>9, <1>10

LEMMA SectorKeysTyped ==
  ASSUME NEW l \in Seq(MessageType), NEW row \in SectorRows(l)
  PROVE  SectorKey(row) \in Nat \X Nat
<1>1. PICK i \in Of(l, "statistics") :
        row \in {l[i].sectors[j] : j \in DOMAIN l[i].sectors}
  BY DEF SectorRows
<1>2. l[i] \in MessageType /\ l[i].kind = "statistics"
  BY DEF Of
<1>3. l[i].sectors \in Seq(SectorRow)
  BY <1>2, MessageKinds
<1>4. row \in SectorRow
  BY <1>1, <1>3
<1> QED BY <1>4 DEF SectorRow, SectorKey

LEMMA StateTyped ==
  ASSUME NEW l \in Seq(MessageType), NEW s, s.seen = RaceKeys(l), Fits(s, l)
  PROVE  StateOK(s)
<1>1. s.source \in Sources /\ s.cars \in Seq(CarType)
        /\ s.messages \in Seq(MessageType)
  BY DEF Fits
<1>2. s.freshness \in {"RESYNCING", "FRESH"} /\ s.updated \in BOOLEAN
  BY DEF Fits, HoldsFreshness
<1>3. \A kind : \A i \in LastOf(l, kind) : l[i] \in MessageType /\ l[i].kind = kind
  BY DEF LastOf, Of
<1>4. HoldsLast(s, l)
  BY DEF Fits
<1>5. s.session \in Values \cup {None}
  <2>1. CASE Of(l, "initial") = {}
    BY <1>4, <2>1 DEF HoldsLast
  <2>2. CASE Of(l, "initial") # {}
    <3>1. PICK i \in LastOf(l, "initial") : TRUE
      BY <2>2, LastExists
    <3>2. l[i].session \in Values
      BY <1>3, MessageKinds
    <3> QED BY <1>4, <3>2 DEF HoldsLast
  <2> QED BY <2>1, <2>2
<1>6. s.track \in Values \cup {None}
  <2>1. CASE Of(l, "track") = {}
    BY <1>4, <2>1 DEF HoldsLast
  <2>2. CASE Of(l, "track") # {}
    <3>1. PICK i \in LastOf(l, "track") : TRUE
      BY <2>2, LastExists
    <3>2. l[i].track \in Values
      BY <1>3, MessageKinds
    <3> QED BY <1>4, <3>2 DEF HoldsLast
  <2> QED BY <2>1, <2>2
<1>7. s.qualifying \in Values \cup {None}
  <2>1. CASE Of(l, "qualifying") = {}
    BY <1>4, <2>1 DEF HoldsLast
  <2>2. CASE Of(l, "qualifying") # {}
    <3>1. PICK i \in LastOf(l, "qualifying") : TRUE
      BY <2>2, LastExists
    <3>2. l[i].results \in Values
      BY <1>3, MessageKinds
    <3> QED BY <1>4, <3>2 DEF HoldsLast
  <2> QED BY <2>1, <2>2
<1>8. s.leading \in Values \cup {None}
  <2>1. CASE Of(l, "statistics") = {}
    BY <1>4, <2>1 DEF HoldsLast
  <2>2. CASE Of(l, "statistics") # {}
    <3>1. PICK i \in LastOf(l, "statistics") : TRUE
      BY <2>2, LastExists
    <3>2. l[i].leading \in Values
      BY <1>3, MessageKinds
    <3> QED BY <1>4, <3>2 DEF HoldsLast
  <2> QED BY <2>1, <2>2
<1>9. s.seen \subseteq Values
  <2>1. \A i \in Of(l, "race") : l[i].key \in Values
    <3> TAKE i \in Of(l, "race")
    <3>1. l[i] \in MessageType /\ l[i].kind = "race"
      BY DEF Of
    <3> QED BY <3>1, MessageKinds
  <2> QED BY <2>1 DEF RaceKeys
<1>10. \A key \in DOMAIN s.laps :
         key \in Values \X Nat \X Nat /\ s.laps[key] \in Nat
  <2>1. HoldsStored(s.laps, l)
    BY DEF Fits
  <2> QED BY <2>1, LapsTyped
<1>11. \A key \in DOMAIN s.bests : key \in Nat \X Nat /\ s.bests[key] \in Nat
  <2>1. HoldsMinima(s.bests, l)
    BY DEF Fits
  <2>2. \A key \in DOMAIN s.bests : s.bests[key] \in Nat
    BY <2>1, BestsTyped
  <2>3. \A key \in DOMAIN s.bests : key \in Nat \X Nat
    BY <2>1, SectorKeysTyped DEF HoldsMinima
  <2> QED BY <2>2, <2>3
<1> QED BY <1>1, <1>2, <1>5, <1>6, <1>7, <1>8, <1>9, <1>10, <1>11 DEF StateOK

-----------------------------------------------------------------------------
(* Two histories that leave the same state: what one has heard more is a   *)
(* repetition. Message j of h is message src[j] of l; before a message of  *)
(* l is heard for the first time, and after the last, h has it in order.   *)

SameHistory(h, l, src) ==
  /\ src \in [DOMAIN h -> DOMAIN l]
  /\ \A j \in DOMAIN h : h[j] = l[src[j]]
  /\ \A i \in DOMAIN l : \E f \in DOMAIN h :
       src[f] = i /\ \A j \in DOMAIN h : j < f => src[j] < i
  /\ \A i \in DOMAIN l : \E p \in DOMAIN h :
       src[p] = i /\ \A j \in DOMAIN h : p < j => src[j] > i

(* To have heard a log up to `base' and then all of it from `start' on is  *)
(* to have heard the log.                                                  *)
LEMMA ReplayedIsSame ==
  ASSUME NEW l \in Seq(MessageType), NEW base \in 0 .. Len(l),
         NEW start \in 0 .. base
  PROVE  \E src : SameHistory(Replayed(l, base, start, Len(l)), l, src)
<1> DEFINE e == Len(l)
           n == base + (e - start)
           h == Replayed(l, base, start, e)
           src == [j \in 1 .. n |-> IF j <= base THEN j ELSE start + (j - base)]
<1>1. /\ base \in Nat /\ start \in Nat /\ e \in Nat
      /\ start <= base /\ base <= e
      /\ e \in start .. Len(l)
      /\ DOMAIN l = 1 .. e
  OBVIOUS
<1> HIDE DEF e
<1>2. /\ DOMAIN h = 1 .. n
      /\ \A j \in 1 .. base : h[j] = l[j]
      /\ \A j \in base + 1 .. n : h[j] = l[start + (j - base)]
  BY <1>1, ReplayedMessages
<1> HIDE DEF h
<1>3. n \in Nat /\ base <= n /\ n - base = e - start
  BY <1>1
<1>4. \A j \in 1 .. n :
        src[j] = IF j <= base THEN j ELSE start + (j - base)
  OBVIOUS
<1>5. src \in [1 .. n -> 1 .. e]
  BY <1>1, <1>3
<1> HIDE DEF src, n
<1>6. \A j \in 1 .. n : h[j] = l[src[j]]
  <2> TAKE j \in 1 .. n
  <2>1. CASE j <= base
    <3>1. j \in 1 .. base
      BY <1>1, <1>3, <2>1
    <3> QED BY <1>2, <1>4, <2>1, <3>1
  <2>2. CASE ~(j <= base)
    <3>1. j \in base + 1 .. n
      BY <1>1, <1>3, <2>2
    <3> QED BY <1>2, <1>4, <2>2, <3>1
  <2> QED BY <2>1, <2>2
<1>7. ASSUME NEW i \in 1 .. e
      PROVE  \E f \in 1 .. n :
               src[f] = i /\ \A j \in 1 .. n : j < f => src[j] < i
  <2>1. CASE i <= base
    <3>1. i \in 1 .. n /\ src[i] = i
      BY <1>1, <1>3, <1>4, <2>1
    <3>2. \A j \in 1 .. n : j < i => src[j] < i
      BY <1>1, <1>3, <1>4, <2>1
    <3> QED BY <3>1, <3>2
  <2>2. CASE base < i
    <3> DEFINE f == (i - start) + base
    <3>1. f \in 1 .. n /\ base < f /\ start + (f - base) = i
      BY <1>1, <1>3, <2>2
    <3>2. src[f] = i
      BY <1>1, <1>4, <3>1
    <3>3. \A j \in 1 .. n : j < f => src[j] < i
      <4> HIDE DEF f
      <4> TAKE j \in 1 .. n
      <4> HAVE j < f
      <4>1. CASE j <= base
        BY <1>1, <1>3, <1>4, <2>2, <4>1
      <4>2. CASE base < j
        BY <1>1, <1>3, <1>4, <2>2, <3>1, <4>2
      <4> QED BY <1>1, <1>3, <4>1, <4>2
    <3> QED BY <3>1, <3>2, <3>3
  <2> QED BY <1>1, <2>1, <2>2
<1>8. ASSUME NEW i \in 1 .. e
      PROVE  \E p \in 1 .. n :
               src[p] = i /\ \A j \in 1 .. n : p < j => src[j] > i
  <2>1. CASE i <= start
    <3>1. i \in 1 .. n /\ src[i] = i
      BY <1>1, <1>3, <1>4, <2>1
    <3>2. \A j \in 1 .. n : i < j => src[j] > i
      BY <1>1, <1>3, <1>4, <2>1
    <3> QED BY <3>1, <3>2
  <2>2. CASE start < i
    <3> DEFINE p == (i - start) + base
    <3>1. p \in 1 .. n /\ base < p /\ start + (p - base) = i
      BY <1>1, <1>3, <2>2
    <3>2. src[p] = i
      BY <1>1, <1>4, <3>1
    <3>3. \A j \in 1 .. n : p < j => src[j] > i
      <4> HIDE DEF p
      <4> QED BY <1>1, <1>3, <1>4, <2>2, <3>1
    <3> QED BY <3>1, <3>2, <3>3
  <2> QED BY <1>1, <2>1, <2>2
<1>9. SameHistory(h, l, src)
  BY <1>1, <1>2, <1>5, <1>6, <1>7, <1>8 DEF SameHistory
<1> QED BY <1>9 DEF h, e

(* The messages of a kind are the same, and the last one is.               *)
LEMMA SameKinds ==
  ASSUME NEW l \in Seq(MessageType), NEW h \in Seq(MessageType),
         NEW src, SameHistory(h, l, src), NEW kind
  PROVE  /\ \A j \in DOMAIN h : j \in Of(h, kind) <=> src[j] \in Of(l, kind)
         /\ Of(h, kind) = {} <=> Of(l, kind) = {}
         /\ \A i \in LastOf(l, kind) : \E p \in LastOf(h, kind) : h[p] = l[i]
<1>1. \A j \in DOMAIN h : src[j] \in DOMAIN l /\ h[j] = l[src[j]]
  BY DEF SameHistory
<1>2. \A j \in DOMAIN h : j \in Of(h, kind) <=> src[j] \in Of(l, kind)
  BY <1>1 DEF Of
<1>3. \A i \in DOMAIN l : \E p \in DOMAIN h :
        src[p] = i /\ \A j \in DOMAIN h : p < j => src[j] > i
  BY DEF SameHistory
<1>4. Of(h, kind) \subseteq DOMAIN h /\ Of(l, kind) \subseteq DOMAIN l
  BY DEF Of
<1>5. Of(h, kind) = {} <=> Of(l, kind) = {}
  BY <1>2, <1>3, <1>4
<1>6. ASSUME NEW i \in LastOf(l, kind)
      PROVE  \E p \in LastOf(h, kind) : h[p] = l[i]
  <2>1. i \in Of(l, kind) /\ \A j \in Of(l, kind) : j <= i
    BY DEF LastOf
  <2>2. PICK p \in DOMAIN h :
          src[p] = i /\ \A j \in DOMAIN h : p < j => src[j] > i
    BY <1>3, <1>4, <2>1
  <2>3. p \in Of(h, kind) /\ h[p] = l[i]
    BY <1>1, <1>2, <2>1, <2>2
  <2>4. ASSUME NEW j \in Of(h, kind)
        PROVE  j <= p
    <3>1. j \in DOMAIN h /\ src[j] \in Of(l, kind) /\ src[j] <= i
      BY <1>2, <1>4, <2>1
    <3>2. /\ DOMAIN h = 1 .. Len(h) /\ Len(h) \in Nat
          /\ DOMAIN l = 1 .. Len(l) /\ Len(l) \in Nat
      OBVIOUS
    <3>3. j \in Nat /\ p \in Nat /\ i \in Nat /\ src[j] \in Nat
      BY <1>1, <1>4, <2>1, <3>1, <3>2
    <3>4. ~(p < j)
      BY <2>2, <3>1, <3>3
    <3> QED BY <3>3, <3>4
  <2>5. p \in LastOf(h, kind)
    BY <2>3, <2>4 DEF LastOf
  <2> QED BY <2>3, <2>5
<1> QED BY <1>2, <1>5, <1>6

(* So what a message only replaces is the same.                            *)
LEMMA SameLast ==
  ASSUME NEW l \in Seq(MessageType), NEW h \in Seq(MessageType),
         NEW src, SameHistory(h, l, src),
         NEW s, HoldsLast(s, l), NEW t, HoldsLast(t, h)
  PROVE  /\ t.session = s.session /\ ToSet(t.cars) = ToSet(s.cars)
         /\ t.track = s.track
         /\ t.qualifying = s.qualifying
         /\ t.leading = s.leading
<1>1. ASSUME NEW kind
      PROVE  \/ Of(l, kind) = {} /\ Of(h, kind) = {}
             \/ \E i \in LastOf(l, kind) : \E p \in LastOf(h, kind) : h[p] = l[i]
  <2>1. CASE Of(l, kind) = {}
    BY <2>1, SameKinds
  <2>2. CASE Of(l, kind) # {}
    <3>1. PICK i \in LastOf(l, kind) : TRUE
      BY <2>2, LastExists
    <3> QED BY <3>1, SameKinds
  <2> QED BY <2>1, <2>2
<1>2. t.session = s.session /\ ToSet(t.cars) = ToSet(s.cars)
  <2>1. CASE Of(l, "initial") = {} /\ Of(h, "initial") = {}
    <3>1. s.cars = <<>> /\ t.cars = <<>> /\ s.session = None /\ t.session = None
      BY <2>1 DEF HoldsLast
    <3> QED BY <3>1
  <2>2. CASE \E i \in LastOf(l, "initial") :
               \E p \in LastOf(h, "initial") : h[p] = l[i]
    BY <2>2 DEF HoldsLast
  <2> QED BY <1>1, <2>1, <2>2
<1>3. t.track = s.track
  BY <1>1 DEF HoldsLast
<1>4. t.qualifying = s.qualifying
  BY <1>1 DEF HoldsLast
<1>5. t.leading = s.leading
  BY <1>1 DEF HoldsLast
<1> QED BY <1>2, <1>3, <1>4, <1>5

LEMMA SameFreshness ==
  ASSUME NEW l \in Seq(MessageType), NEW h \in Seq(MessageType),
         NEW src, SameHistory(h, l, src),
         NEW s, HoldsFreshness(s, l), NEW t, HoldsFreshness(t, h)
  PROVE  t.updated = s.updated /\ t.freshness = s.freshness
<1>1. /\ \A j \in DOMAIN h : src[j] \in DOMAIN l /\ h[j] = l[src[j]]
      /\ \A i \in DOMAIN l : \E j \in DOMAIN h : src[j] = i
  BY DEF SameHistory
<1>2. (\A j \in DOMAIN h : Raises(h[j])) <=> (\A i \in DOMAIN l : Raises(l[i]))
  <2>1. ASSUME \A j \in DOMAIN h : Raises(h[j]), NEW i \in DOMAIN l
        PROVE  Raises(l[i])
    <3>1. PICK j \in DOMAIN h : src[j] = i
      BY <1>1
    <3>2. h[j] = l[i]
      BY <1>1, <3>1
    <3> QED BY <2>1, <3>2
  <2>2. ASSUME \A i \in DOMAIN l : Raises(l[i]), NEW j \in DOMAIN h
        PROVE  Raises(h[j])
    <3>1. h[j] = l[src[j]] /\ src[j] \in DOMAIN l
      BY <1>1
    <3> QED BY <2>2, <3>1
  <2> QED BY <2>1, <2>2
<1>3. (h = <<>> <=> DOMAIN h = {}) /\ (l = <<>> <=> DOMAIN l = {})
  <2>1. DOMAIN h = 1 .. Len(h) /\ DOMAIN l = 1 .. Len(l)
    OBVIOUS
  <2>2. \A n \in Nat : 1 .. n = {} <=> n = 0
    OBVIOUS
  <2> QED BY <2>1, <2>2, EmptySeq
<1>4. h = <<>> <=> l = <<>>
  BY <1>1, <1>3
<1> QED BY <1>2, <1>4 DEF HoldsFreshness

(* The lap times are the same.                                             *)
LEMMA SameLaps ==
  ASSUME NEW l \in Seq(MessageType), NEW h \in Seq(MessageType),
         NEW src, SameHistory(h, l, src),
         NEW a, HoldsStored(a, l), IsDict(a),
         NEW b, HoldsStored(b, h), IsDict(b)
  PROVE  a = b
<1>1. \A j \in DOMAIN h : src[j] \in DOMAIN l /\ h[j] = l[src[j]]
  BY DEF SameHistory
<1>2. /\ \A j \in DOMAIN h : j \in Of(h, "laps") <=> src[j] \in Of(l, "laps")
      /\ Of(h, "laps") \subseteq DOMAIN h
      /\ Of(l, "laps") \subseteq DOMAIN l
  <2>1. \A j \in DOMAIN h : j \in Of(h, "laps") <=> src[j] \in Of(l, "laps")
    BY SameKinds
  <2> QED BY <2>1 DEF Of
<1>3. \A g, i, r : <<i, r>> \in StoredWrites(g) <=>
                     i \in Of(g, "laps") /\ r \in StoredRows(g[i].laps)
  BY DEF StoredWrites
<1>4. \A g : \A w \in StoredWrites(g) : w = <<w[1], w[2]>>
  BY DEF StoredWrites
<1>5. ASSUME NEW j \in DOMAIN h, NEW r
      PROVE  /\ <<j, r>> \in StoredWrites(h) <=> <<src[j], r>> \in StoredWrites(l)
             /\ LapKeyOf(h, <<j, r>>) = LapKeyOf(l, <<src[j], r>>)
  BY <1>1, <1>2, <1>3 DEF LapKeyOf
<1>6. \A w \in StoredWrites(h) : w[1] \in DOMAIN h
  BY <1>2, <1>3, <1>4
<1>7. \A w \in StoredWrites(l) : w[1] \in DOMAIN l
  BY <1>2, <1>3, <1>4
<1>8. DOMAIN a = DOMAIN b
  <2>1. \A w \in StoredWrites(h) : \E v \in StoredWrites(l) :
          LapKeyOf(l, v) = LapKeyOf(h, w)
    <3> TAKE w \in StoredWrites(h)
    <3>1. <<src[w[1]], w[2]>> \in StoredWrites(l)
            /\ LapKeyOf(h, <<w[1], w[2]>>) = LapKeyOf(l, <<src[w[1]], w[2]>>)
      BY <1>4, <1>5, <1>6
    <3> QED BY <1>4, <3>1
  <2>2. \A v \in StoredWrites(l) : \E w \in StoredWrites(h) :
          LapKeyOf(l, v) = LapKeyOf(h, w)
    <3> TAKE v \in StoredWrites(l)
    <3>1. PICK p \in DOMAIN h : src[p] = v[1]
      BY <1>7 DEF SameHistory
    <3>2. /\ <<p, v[2]>> \in StoredWrites(h)
          /\ LapKeyOf(h, <<p, v[2]>>) = LapKeyOf(l, <<v[1], v[2]>>)
      BY <1>4, <1>5, <3>1
    <3> QED BY <1>4, <3>2
  <2>3. /\ DOMAIN a = {LapKeyOf(l, w) : w \in StoredWrites(l)}
        /\ DOMAIN b = {LapKeyOf(h, w) : w \in StoredWrites(h)}
    BY DEF HoldsStored
  <2> QED BY <2>1, <2>2, <2>3
<1>9. ASSUME NEW key \in DOMAIN a
      PROVE  a[key] = b[key]
  <2>1. PICK w \in StoredWrites(l) : key = LapKeyOf(l, w)
    BY DEF HoldsStored
  <2>2. PICK v \in StoredWrites(l) :
          /\ LapKeyOf(l, v) = key
          /\ \A u \in StoredWrites(l) : LapKeyOf(l, u) = key => ~LaterWrite(u, v)
    BY <2>1, LastWrite
  <2>3. a[key] = l[v[1]].laps[v[2]].time
    BY <2>2 DEF HoldsStored
  <2>4. PICK p \in DOMAIN h :
          src[p] = v[1] /\ \A j \in DOMAIN h : p < j => src[j] > v[1]
    BY <1>7 DEF SameHistory
  <2> DEFINE q == <<p, v[2]>>
  <2>5. q \in StoredWrites(h) /\ LapKeyOf(h, q) = key /\ q[1] = p /\ q[2] = v[2]
    BY <1>4, <1>5, <2>2, <2>4
  <2> HIDE DEF q
  <2>6. ASSUME NEW u \in StoredWrites(h), LapKeyOf(h, u) = key
        PROVE  ~LaterWrite(u, q)
    <3> DEFINE x == <<src[u[1]], u[2]>>
    <3>1. x \in StoredWrites(l) /\ LapKeyOf(l, x) = key
      BY <1>4, <1>5, <1>6, <2>6
    <3>2. x[1] = src[u[1]] /\ x[2] = u[2]
      OBVIOUS
    <3> HIDE DEF x
    <3>3. ~(x[1] > v[1]) /\ ~(x[1] = v[1] /\ x[2] > v[2])
      BY <2>2, <3>1 DEF LaterWrite
    <3>4. DOMAIN h = 1 .. Len(h) /\ Len(h) \in Nat
      OBVIOUS
    <3>5. u[1] \in DOMAIN h /\ (u[1] > p <=> p < u[1])
      BY <1>6, <3>4
    <3>6. ~(u[1] > p)
      BY <2>4, <3>2, <3>3, <3>5
    <3>7. u[1] = p => x[1] = v[1]
      BY <2>4, <3>2
    <3> QED BY <2>5, <3>2, <3>3, <3>6, <3>7 DEF LaterWrite
  <2>7. b[key] = h[p].laps[v[2]].time
    BY <2>5, <2>6 DEF HoldsStored
  <2> QED BY <1>1, <2>3, <2>4, <2>7
<1>10. a = [key \in DOMAIN a |-> a[key]] /\ b = [key \in DOMAIN b |-> b[key]]
  BY DEF IsDict
<1> QED BY <1>8, <1>9, <1>10

(* The best sectors are the same.                                          *)
LEMMA SameBests ==
  ASSUME NEW l \in Seq(MessageType), NEW h \in Seq(MessageType),
         NEW src, SameHistory(h, l, src),
         NEW a, HoldsMinima(a, l), IsDict(a),
         NEW b, HoldsMinima(b, h), IsDict(b)
  PROVE  a = b
<1>1. SectorRows(h) = SectorRows(l)
  <2>1. /\ \A j \in DOMAIN h : src[j] \in DOMAIN l /\ h[j] = l[src[j]]
        /\ \A i \in DOMAIN l : \E j \in DOMAIN h : src[j] = i
    BY DEF SameHistory
  <2>2. \A row : row \in SectorRows(h) <=>
          \E j \in DOMAIN h : /\ h[j].kind = "statistics"
                              /\ \E k \in DOMAIN h[j].sectors : row = h[j].sectors[k]
    BY DEF SectorRows, Of
  <2>3. \A row : row \in SectorRows(l) <=>
          \E i \in DOMAIN l : /\ l[i].kind = "statistics"
                              /\ \E k \in DOMAIN l[i].sectors : row = l[i].sectors[k]
    BY DEF SectorRows, Of
  <2>4. ASSUME NEW row \in SectorRows(h)
        PROVE  row \in SectorRows(l)
    <3>1. PICK j \in DOMAIN h :
            /\ h[j].kind = "statistics"
            /\ \E k \in DOMAIN h[j].sectors : row = h[j].sectors[k]
      BY <2>2
    <3>2. h[j] = l[src[j]] /\ src[j] \in DOMAIN l
      BY <2>1
    <3> QED BY <2>3, <3>1, <3>2
  <2>5. ASSUME NEW row \in SectorRows(l)
        PROVE  row \in SectorRows(h)
    <3>1. PICK i \in DOMAIN l :
            /\ l[i].kind = "statistics"
            /\ \E k \in DOMAIN l[i].sectors : row = l[i].sectors[k]
      BY <2>3
    <3>2. PICK j \in DOMAIN h : src[j] = i
      BY <2>1
    <3>3. h[j] = l[i]
      BY <2>1, <3>2
    <3> QED BY <2>2, <3>1, <3>3
  <2> QED BY <2>4, <2>5
<1>2. DOMAIN a = DOMAIN b
  BY <1>1 DEF HoldsMinima
<1>3. ASSUME NEW key \in DOMAIN a
      PROVE  a[key] = b[key]
  <2>1. a[key] \in Nat /\ b[key] \in Nat
    BY <1>2, BestsTyped
  <2>2. a[key] <= b[key] /\ b[key] <= a[key]
    BY <1>1, <1>2 DEF HoldsMinima
  <2> QED BY <2>1, <2>2
<1>4. a = [key \in DOMAIN a |-> a[key]] /\ b = [key \in DOMAIN b |-> b[key]]
  BY DEF IsDict
<1> QED BY <1>2, <1>3, <1>4

(* The first messages of the keys are the same ones, in the same order.    *)
LEMMA FirstsDiffer ==
  ASSUME NEW l \in Seq(MessageType), NEW i \in Firsts(l), NEW j \in Firsts(l),
         l[i].key = l[j].key
  PROVE  i = j
<1>1. i \in 1 .. Len(l) /\ j \in 1 .. Len(l)
  BY DEF Firsts, Of
<1>2. ~(i < j) /\ ~(j < i)
  BY DEF Firsts
<1> QED BY <1>1, <1>2

LEMMA SameFirsts ==
  ASSUME NEW l \in Seq(MessageType), NEW h \in Seq(MessageType),
         NEW src, SameHistory(h, l, src)
  PROVE  /\ \A j \in Firsts(h) : src[j] \in Firsts(l)
         /\ \A i \in Firsts(l) : \E f \in Firsts(h) :
              src[f] = i /\ \A j \in DOMAIN h : j < f => src[j] < i
<1>1. \A j \in DOMAIN h : src[j] \in DOMAIN l /\ h[j] = l[src[j]]
  BY DEF SameHistory
<1>2. /\ \A j \in DOMAIN h : j \in Of(h, "race") <=> src[j] \in Of(l, "race")
      /\ Of(h, "race") \subseteq DOMAIN h
      /\ Of(l, "race") \subseteq DOMAIN l
  <2>1. \A j \in DOMAIN h : j \in Of(h, "race") <=> src[j] \in Of(l, "race")
    BY SameKinds
  <2> QED BY <2>1 DEF Of
<1>3. DOMAIN h \subseteq Nat /\ DOMAIN l \subseteq Nat
  OBVIOUS
<1>4. \A i \in DOMAIN l : \E f \in DOMAIN h :
        src[f] = i /\ \A j \in DOMAIN h : j < f => src[j] < i
  BY DEF SameHistory
<1>5. ASSUME NEW j \in Firsts(h)
      PROVE  src[j] \in Firsts(l)
  <2>1. /\ j \in Of(h, "race") /\ j \in DOMAIN h
        /\ \A k \in Of(h, "race") : k < j => h[k].key # h[j].key
    BY <1>2 DEF Firsts
  <2>2. src[j] \in Of(l, "race")
    BY <1>2, <2>1
  <2>3. ASSUME NEW i \in Of(l, "race"), i < src[j]
        PROVE  l[i].key # l[src[j]].key
    <3>1. PICK f \in DOMAIN h :
            src[f] = i /\ \A k \in DOMAIN h : k < f => src[k] < i
      BY <1>2, <1>4
    <3>2. i \in Nat /\ src[j] \in Nat /\ f \in Nat /\ j \in Nat
      BY <1>1, <1>2, <1>3, <2>1
    <3>3. f < j
      BY <2>1, <2>3, <3>1, <3>2
    <3>4. f \in Of(h, "race") /\ h[f] = l[i] /\ h[j] = l[src[j]]
      BY <1>1, <1>2, <2>1, <3>1
    <3> QED BY <2>1, <3>3, <3>4
  <2> QED BY <2>2, <2>3 DEF Firsts
<1>6. ASSUME NEW i \in Firsts(l)
      PROVE  \E f \in Firsts(h) :
               src[f] = i /\ \A j \in DOMAIN h : j < f => src[j] < i
  <2>1. /\ i \in Of(l, "race") /\ i \in DOMAIN l
        /\ \A k \in Of(l, "race") : k < i => l[k].key # l[i].key
    BY <1>2 DEF Firsts
  <2>2. PICK f \in DOMAIN h :
          src[f] = i /\ \A j \in DOMAIN h : j < f => src[j] < i
    BY <1>4, <2>1
  <2>3. f \in Of(h, "race") /\ h[f] = l[i]
    BY <1>1, <1>2, <2>1, <2>2
  <2>4. ASSUME NEW j \in Of(h, "race"), j < f
        PROVE  h[j].key # h[f].key
    <3>1. j \in DOMAIN h /\ src[j] < i /\ src[j] \in Of(l, "race")
      BY <1>2, <2>2, <2>4
    <3>2. h[j] = l[src[j]]
      BY <1>1, <3>1
    <3> QED BY <2>1, <2>3, <3>1, <3>2
  <2>5. f \in Firsts(h)
    BY <2>3, <2>4 DEF Firsts
  <2> QED BY <2>2, <2>5
<1> QED BY <1>5, <1>6

LEMMA SameFirstsHeld ==
  ASSUME NEW l \in Seq(MessageType), NEW h \in Seq(MessageType),
         NEW src, SameHistory(h, l, src), NEW msgs, HoldsFirsts(msgs, h)
  PROVE  HoldsFirsts(msgs, l)
<1>1. \A j \in DOMAIN h : h[j] = l[src[j]]
  BY DEF SameHistory
<1>2. Firsts(h) \subseteq DOMAIN h
  BY DEF Firsts, Of
<1>3. \A j \in Firsts(h) : src[j] \in Firsts(l) /\ h[j] = l[src[j]]
  BY <1>1, <1>2, SameFirsts
<1>4. \A i \in Firsts(l) : \E f \in Firsts(h) :
        src[f] = i /\ \A j \in DOMAIN h : j < f => src[j] < i
  BY SameFirsts
<1>5. \A k \in DOMAIN msgs : \E i \in Firsts(l) : msgs[k] = l[i]
  BY <1>3 DEF HoldsFirsts
<1>6. \A i \in Firsts(l) : \E k \in DOMAIN msgs : msgs[k] = l[i]
  <2> TAKE i \in Firsts(l)
  <2>1. PICK f \in Firsts(h) : src[f] = i
    BY <1>4
  <2>2. h[f] = l[i]
    BY <1>3, <2>1
  <2>3. PICK k \in DOMAIN msgs : msgs[k] = h[f]
    BY DEF HoldsFirsts
  <2> QED BY <2>2, <2>3
<1>7. ASSUME NEW k1 \in DOMAIN msgs, NEW k2 \in DOMAIN msgs,
             NEW i1 \in Firsts(l), NEW i2 \in Firsts(l),
             msgs[k1] = l[i1], msgs[k2] = l[i2], k1 < k2
      PROVE  i1 < i2
  <2>1. PICK f1 \in Firsts(h) : src[f1] = i1
    BY <1>4
  <2>2. PICK f2 \in Firsts(h) :
          src[f2] = i2 /\ \A j \in DOMAIN h : j < f2 => src[j] < i2
    BY <1>4
  <2>3. msgs[k1] = h[f1] /\ msgs[k2] = h[f2]
    BY <1>3, <1>7, <2>1, <2>2
  <2>4. f1 < f2
    BY <1>7, <2>3 DEF HoldsFirsts
  <2> QED BY <1>2, <2>1, <2>2, <2>4
<1> QED BY <1>5, <1>6, <1>7 DEF HoldsFirsts

(* There is one way to hold the first messages: where two lists have       *)
(* agreed so far, neither goes on with a later message than the other.     *)
LEMMA NoLater ==
  ASSUME NEW l \in Seq(MessageType),
         NEW a \in Seq(MessageType), HoldsFirsts(a, l),
         NEW b \in Seq(MessageType), HoldsFirsts(b, l),
         NEW k \in DOMAIN a,
         \A n \in 1 .. k - 1 : n \in DOMAIN b /\ a[n] = b[n],
         NEW i \in Firsts(l), a[k] = l[i]
  PROVE  /\ k \in DOMAIN b
         /\ \A j \in Firsts(l) : b[k] = l[j] => j <= i
<1>1. PICK n \in DOMAIN b : b[n] = l[i]
  BY DEF HoldsFirsts
<1>2. /\ DOMAIN a = 1 .. Len(a) /\ Len(a) \in Nat
      /\ DOMAIN b = 1 .. Len(b) /\ Len(b) \in Nat
      /\ k \in Nat /\ n \in Nat /\ 1 <= k /\ 1 <= n /\ n <= Len(b) /\ k <= Len(a)
  OBVIOUS
<1>3. i \in Nat /\ \A j \in Firsts(l) : j \in Nat
  BY DEF Firsts, Of
<1>4. ~(n < k)
  <2> SUFFICES ASSUME n < k PROVE FALSE
    OBVIOUS
  <2>1. n \in 1 .. k - 1 /\ n \in DOMAIN a
    BY <1>2
  <2>2. a[n] = l[i]
    BY <1>1, <2>1
  <2>3. i < i
    BY <2>1, <2>2 DEF HoldsFirsts
  <2> QED BY <1>3, <2>3
<1>5. k \in DOMAIN b
  BY <1>2, <1>4
<1>6. ASSUME NEW j \in Firsts(l), b[k] = l[j]
      PROVE  j <= i
  <2>1. CASE n = k
    <3>1. l[i].key = l[j].key
      BY <1>1, <1>6, <2>1
    <3>2. i = j
      BY <3>1, FirstsDiffer
    <3> QED BY <1>3, <3>2
  <2>2. CASE k < n
    <3>1. j < i
      BY <1>1, <1>5, <1>6, <2>2 DEF HoldsFirsts
    <3> QED BY <1>3, <3>1
  <2> QED BY <1>2, <1>4, <2>1, <2>2
<1> QED BY <1>5, <1>6

LEMMA OneWayToHold ==
  ASSUME NEW l \in Seq(MessageType),
         NEW a \in Seq(MessageType), HoldsFirsts(a, l),
         NEW b \in Seq(MessageType), HoldsFirsts(b, l)
  PROVE  a = b
<1>1. /\ DOMAIN a = 1 .. Len(a) /\ Len(a) \in Nat
      /\ DOMAIN b = 1 .. Len(b) /\ Len(b) \in Nat
  OBVIOUS
<1> DEFINE D == {k \in (DOMAIN a) \cup (DOMAIN b) :
                   ~(k \in DOMAIN a /\ k \in DOMAIN b /\ a[k] = b[k])}
<1>2. D = {}
  <2> SUFFICES ASSUME D # {} PROVE FALSE
    OBVIOUS
  <2>1. D \in SUBSET Nat
    BY <1>1
  <2>2. PICK k \in D : \A n \in D : k <= n
    BY <2>1, MinIsLeast
  <2>3. k \in Nat /\ 1 <= k
    BY <1>1, <2>2
  <2>4. \A n \in 1 .. k - 1 : n \in DOMAIN a /\ n \in DOMAIN b /\ a[n] = b[n]
    <3> TAKE n \in 1 .. k - 1
    <3>1. n \in (DOMAIN a) \cup (DOMAIN b) /\ n \in Nat /\ n < k
      BY <1>1, <2>2, <2>3
    <3>2. n \notin D
      BY <2>2, <2>3, <3>1
    <3> QED BY <3>1, <3>2
  <2>5. k \in DOMAIN a => k \in DOMAIN b
    <3> HAVE k \in DOMAIN a
    <3>1. PICK i \in Firsts(l) : a[k] = l[i]
      BY DEF HoldsFirsts
    <3> QED BY <2>4, <3>1, NoLater
  <2>6. k \in DOMAIN b => k \in DOMAIN a
    <3> HAVE k \in DOMAIN b
    <3>1. PICK i \in Firsts(l) : b[k] = l[i]
      BY DEF HoldsFirsts
    <3> QED BY <2>4, <3>1, NoLater
  <2>7. k \in DOMAIN a /\ k \in DOMAIN b
    BY <2>2, <2>5, <2>6
  <2>8. PICK i \in Firsts(l) : a[k] = l[i]
    BY <2>7 DEF HoldsFirsts
  <2>9. PICK j \in Firsts(l) : b[k] = l[j]
    BY <2>7 DEF HoldsFirsts
  <2>10. j <= i
    <3> HIDE DEF D
    <3>1. \A x \in Firsts(l) : b[k] = l[x] => x <= i
      BY <2>4, <2>7, <2>8, NoLater
    <3> QED BY <2>9, <3>1
  <2>11. i <= j
    <3> HIDE DEF D
    <3>1. \A x \in Firsts(l) : a[k] = l[x] => x <= j
      BY <2>4, <2>7, <2>9, NoLater
    <3> QED BY <2>8, <3>1
  <2>12. i = j
    BY <2>10, <2>11 DEF Firsts, Of
  <2> QED BY <2>2, <2>7, <2>8, <2>9, <2>12
<1>3. DOMAIN a = DOMAIN b /\ \A k \in DOMAIN a : a[k] = b[k]
  BY <1>2
<1>4. Len(a) = Len(b)
  <2> DEFINE m == Len(a)
             n == Len(b)
  <2>1. m \in Nat /\ n \in Nat /\ 1 .. m = 1 .. n
    BY <1>1, <1>3, Zenon
  <2> HIDE DEF m, n
  <2>2. \A x : x \in 1 .. m <=> x \in 1 .. n
    BY <2>1
  <2>3. m <= n /\ n <= m
    BY <2>1, <2>2
  <2>4. m = n
    BY <2>1, <2>3
  <2> QED BY <2>4 DEF m, n
<1> QED BY <1>1, <1>3, <1>4, SeqEqual

(* Two states that fit the two histories have the same data.               *)
LEMMA SameHistorySameData ==
  ASSUME NEW l \in Seq(MessageType), NEW h \in Seq(MessageType),
         NEW src, SameHistory(h, l, src),
         NEW s, DOMAIN s = Fields, s.seen = RaceKeys(l), Fits(s, l),
         NEW t, DOMAIN t = Fields, t.seen = RaceKeys(h), Fits(t, h)
  PROVE  SameData(t, s)
<1>1. /\ t.session = s.session /\ ToSet(t.cars) = ToSet(s.cars)
      /\ t.track = s.track
      /\ t.qualifying = s.qualifying
      /\ t.leading = s.leading
  BY SameLast DEF Fits
<1>2. t.updated = s.updated /\ t.freshness = s.freshness
  BY SameFreshness DEF Fits
<1>3. t.laps = s.laps
  BY SameLaps DEF Fits
<1>4. t.bests = s.bests
  BY SameBests DEF Fits
<1>5. t.messages = s.messages
  <2>1. HoldsFirsts(t.messages, l)
    BY SameFirstsHeld DEF Fits
  <2> QED BY <2>1, OneWayToHold DEF Fits
<1>6. t.seen = s.seen
  <2>1. /\ MessageKeys(s.messages) = RaceKeys(l)
        /\ MessageKeys(t.messages) = RaceKeys(h)
    BY DEF Fits
  <2> QED BY <1>5, <2>1
<1> QED BY <1>1, <1>2, <1>3, <1>4, <1>5, <1>6 DEF SameData, Fields

-----------------------------------------------------------------------------
(* Theorems.                                                               *)

(* The inductive invariant holds of every run in which no damage to a      *)
(* snapshot goes unnoticed.                                                *)
THEOREM Invariant ==
  ASSUME DamageIsDetected
  PROVE  Spec => []IInv
<1>1. Init => IInv
  BY InitHolds
<1>2. IInv /\ [Next]_vars => IInv'
  BY NextHolds
<1> QED BY <1>1, <1>2, PTL DEF Spec

(* MessagesOnce, for every log: race control messages are never doubled,   *)
(* dropped or reordered by repetition, clear() or import_json().           *)
THEOREM RaceMessagesOnce ==
  ASSUME DamageIsDetected
  PROVE  Spec => []MessagesOnce
<1>1. IInv => MessagesOnce
  BY DEF IInv, StateFits, Fits, MessagesOnce
<1> QED BY <1>1, Invariant, PTL

(* What the reducer stores is sent; what is sent for a lap that no message *)
(* it raises at had a row for is stored.                                   *)
LEMMA StoredOrCut ==
  ASSUME NEW l \in Seq(MessageType)
  PROVE  /\ StoredWrites(l) \subseteq LapWrites(l)
         /\ \A w \in LapWrites(l) :
              LapKeyOf(l, w) \in Cut(l) \/ w \in StoredWrites(l)
<1>1. StoredWrites(l) \subseteq LapWrites(l)
  BY DEF StoredWrites, StoredRows, LapWrites
<1>2. ASSUME NEW w \in LapWrites(l), LapKeyOf(l, w) \notin Cut(l)
      PROVE  w \in StoredWrites(l)
  <2>1. ~Raises(l[w[1]])
    BY <1>2 DEF Cut
  <2>2. PICK i \in Of(l, "laps") :
          w \in {i} \X {j \in DOMAIN l[i].laps : l[i].laps[j].form = "good"}
    BY DEF LapWrites
  <2>3. /\ w = <<w[1], w[2]>> /\ w[1] = i
        /\ w[2] \in DOMAIN l[i].laps /\ l[i].laps[w[2]].form = "good"
    BY <2>2
  <2>4. l[i].kind = "laps" /\ l[i] \in MessageType
    BY DEF Of
  <2>5. l[i].laps \in Seq(LapRow)
    BY <2>4, MessageKinds
  <2>6. \A j \in DOMAIN l[i].laps : l[i].laps[j].form # "overflows"
    BY <2>1, <2>3, <2>4 DEF Raises
  <2>7. 1 .. w[2] \subseteq DOMAIN l[i].laps
    BY <2>3, <2>5
  <2>8. w[2] \in StoredRows(l[i].laps)
    BY <2>3, <2>6, <2>7 DEF StoredRows
  <2> QED BY <2>3, <2>8 DEF StoredWrites
<1> QED BY <1>1, <1>2

LEMMA StoredIsLatest ==
  ASSUME NEW l \in Seq(MessageType), NEW laps, HoldsStored(laps, l)
  PROVE  HoldsLatest(laps, l)
<1>1. ASSUME NEW w \in LapWrites(l), LapKeyOf(l, w) \notin Cut(l)
      PROVE  /\ LapKeyOf(l, w) \in DOMAIN laps
             /\ \/ laps[LapKeyOf(l, w)] = l[w[1]].laps[w[2]].time
                \/ \E v \in LapWrites(l) :
                     LapKeyOf(l, v) = LapKeyOf(l, w) /\ LaterWrite(v, w)
  <2>1. w \in StoredWrites(l) /\ StoredWrites(l) \subseteq LapWrites(l)
    BY <1>1, StoredOrCut
  <2> QED BY <2>1 DEF HoldsStored
<1>2. ASSUME NEW key \in DOMAIN laps
      PROVE  \E w \in LapWrites(l) :
               LapKeyOf(l, w) = key /\ laps[key] = l[w[1]].laps[w[2]].time
  <2>1. PICK w \in StoredWrites(l) : key = LapKeyOf(l, w)
    BY DEF HoldsStored
  <2>2. PICK v \in StoredWrites(l) :
          /\ LapKeyOf(l, v) = key
          /\ \A u \in StoredWrites(l) : LapKeyOf(l, u) = key => ~LaterWrite(u, v)
    BY <2>1, LastWrite
  <2>3. laps[key] = l[v[1]].laps[v[2]].time
    BY <2>2 DEF HoldsStored
  <2> QED BY <2>2, <2>3, StoredOrCut
<1> QED BY <1>1, <1>2 DEF HoldsLatest

(* LapsAreLatest, for every log: the last row sent for a lap counts, but   *)
(* for laps of a message that apply() raises at.                           *)
THEOREM LapTimesLatest ==
  ASSUME DamageIsDetected
  PROVE  Spec => []LapsAreLatest
<1>1. IInv => LapsAreLatest
  <2>1. IInv => HoldsStored(state.laps, log) /\ log \in Seq(MessageType)
    BY MessagesTyped DEF IInv, StateFits, Fits, LogTyped
  <2> QED BY <2>1, StoredIsLatest DEF LapsAreLatest
<1> QED BY <1>1, Invariant, PTL

(* BestsAreMinima, for every log: a sector's best is the least value sent. *)
THEOREM SectorBestsLeast ==
  ASSUME DamageIsDetected
  PROVE  Spec => []BestsAreMinima
<1>1. IInv => BestsAreMinima
  BY DEF IInv, StateFits, Fits, BestsAreMinima
<1> QED BY <1>1, Invariant, PTL

(* Idempotent, in every reachable state and for every message: apply()     *)
(* twice is apply() once.                                                  *)
THEOREM Idempotence ==
  ASSUME DamageIsDetected
  PROVE  Spec => []Idempotent
<1>1. IInv => Idempotent
  <2> SUFFICES ASSUME IInv, NEW m \in Messages
               PROVE  Apply(Apply(state, m), m) = Apply(state, m)
    BY DEF Idempotent
  <2>1. log \in Seq(MessageType) /\ m \in MessageType
    BY MessagesTyped, MessagesAssumption DEF IInv, LogTyped
  <2>2. \A key \in DOMAIN state.bests : state.bests[key] \in Nat
    BY <2>1, BestsTyped DEF IInv, StateFits, Fits
  <2> QED BY <2>1, <2>2, AppliedTwice DEF IInv, StateFits
<1> QED BY <1>1, Invariant, PTL

(* TypeOK, for every log: whatever is heard, forgotten, saved, damaged and *)
(* imported, both states are well formed and a number has one car.         *)
THEOREM TypesOK ==
  ASSUME DamageIsDetected
  PROVE  Spec => []TypeOK
<1>1. IInv => TypeOK
  <2> SUFFICES ASSUME IInv PROVE TypeOK
    OBVIOUS
  <2>1. LogTyped /\ log \in Seq(MessageType)
    BY MessagesTyped DEF IInv, LogTyped
  <2>2. StateOK(state)
    BY <2>1, StateTyped DEF IInv, StateFits
  <2>3. \A i, j \in DOMAIN state.cars :
          state.cars[i].no = state.cars[j].no => i = j
    BY DEF IInv, StateFits, Fits, OneCarEach
  <2>4. ASSUME copy # None PROVE StateOK(copy)
    <3> PICK base \in 0 .. Len(log) : \E start \in 0 .. base :
            /\ start <= copyAt
            /\ copy.seen = RaceKeys(Replayed(log, base, start, copyAt))
            /\ Fits(copy, Replayed(log, base, start, copyAt))
      BY <2>4 DEF IInv, CopyFits
    <3>1. PICK start \in 0 .. base :
            /\ start <= copyAt
            /\ copy.seen = RaceKeys(Replayed(log, base, start, copyAt))
            /\ Fits(copy, Replayed(log, base, start, copyAt))
      OBVIOUS
    <3>2. copyAt \in start .. Len(log)
      BY <2>1, <3>1 DEF LogTyped
    <3>3. Replayed(log, base, start, copyAt) \in Seq(MessageType)
      BY <2>1, <3>2, ReplayedMessages
    <3> QED BY <3>1, <3>3, StateTyped
  <2> QED BY <2>1, <2>2, <2>3, <2>4 DEF TypeOK, LogTyped
<1> QED BY <1>1, Invariant, PTL

(* RoundTrip, for every log: a snapshot of the state restored is the state. *)
THEOREM SavedComesBack ==
  ASSUME DamageIsDetected
  PROVE  Spec => []RoundTrip
<1>1. IInv => RoundTrip
  <2> SUFFICES ASSUME IInv PROVE RoundTrip
    OBVIOUS
  <2> DEFINE d == ToJson(state)
             s == FromJson(d)
  <2>1. DOMAIN state = Fields /\ state.seen = RaceKeys(log) /\ Fits(state, log)
    BY DEF IInv, StateFits
  <2>2. /\ DOMAIN d = DocFields
        /\ d.freshness = state.freshness
        /\ d.updated = state.updated /\ d.session = state.session
        /\ d.track = state.track /\ d.qualifying = state.qualifying
        /\ d.leading = state.leading /\ d.messages = state.messages
        /\ d.laps = state.laps /\ d.bests = state.bests
    BY <2>1, SavedFits DEF ToJson
  <2>3. ToSet(d.cars) = ToSet(state.cars)
    BY <2>1, SavedCars DEF Fits
  <2> HIDE DEF d
  <2>4. /\ DOMAIN s = Fields
        /\ s.freshness = d.freshness
        /\ s.updated = d.updated /\ s.session = d.session
        /\ s.track = d.track /\ s.qualifying = d.qualifying
        /\ s.leading = d.leading /\ s.messages = d.messages
        /\ s.laps = d.laps /\ s.bests = d.bests /\ s.cars = d.cars
        /\ s.seen = MessageKeys(d.messages)
    BY <2>2, RestoredFields
  <2>5. MessageKeys(state.messages) = state.seen
    BY <2>1 DEF Fits
  <2> HIDE DEF s
  <2>6. SameData(s, state)
    BY <2>2, <2>3, <2>4, <2>5 DEF SameData, Fields
  <2> QED BY <2>6 DEF RoundTrip, s, d
<1> QED BY <1>1, Invariant, PTL

(* CatchesUp, for every log, every snapshot taken of it and every message  *)
(* from which the recording is gone through again: nothing is doubled,     *)
(* lost or set back by going through what the snapshot has in it already.  *)
THEOREM CopyCatchesUp ==
  ASSUME DamageIsDetected
  PROVE  Spec => []CatchesUp
<1>1. IInv => CatchesUp
  <2> SUFFICES ASSUME IInv, copy # None, copyAt = Len(log)
               PROVE  SameData(copy, state)
    BY DEF CatchesUp
  <2>1. log \in Seq(MessageType)
    BY MessagesTyped DEF IInv, LogTyped
  <2>2. DOMAIN copy = Fields
    BY DEF IInv, CopyFits
  <2> PICK base \in 0 .. Len(log) : \E start \in 0 .. base :
          /\ start <= copyAt
          /\ copy.seen = RaceKeys(Replayed(log, base, start, copyAt))
          /\ Fits(copy, Replayed(log, base, start, copyAt))
    BY DEF IInv, CopyFits
  <2>3. PICK start \in 0 .. base :
          /\ start <= copyAt
          /\ copy.seen = RaceKeys(Replayed(log, base, start, copyAt))
          /\ Fits(copy, Replayed(log, base, start, copyAt))
    OBVIOUS
  <2>4. Len(log) \in start .. Len(log)
    BY <2>1, <2>3
  <2>5. Replayed(log, base, start, Len(log)) \in Seq(MessageType)
    BY <2>1, <2>4, ReplayedMessages
  <2>6. PICK src : SameHistory(Replayed(log, base, start, Len(log)), log, src)
    BY <2>1, ReplayedIsSame
  <2> QED BY <2>1, <2>2, <2>3, <2>5, <2>6, SameHistorySameData DEF IInv, StateFits
<1> QED BY <1>1, Invariant, PTL
============================================================================
