--------------------------- MODULE RaceStateProofs --------------------------
(***************************************************************************)
(* Lemmas about the operators of RaceState: the least and the greatest of  *)
(* a set, sorting, and the cars that a list of results makes.              *)
(***************************************************************************)
EXTENDS RaceState, FunctionTheorems, FiniteSetTheorems, NaturalsInduction,
        WellFoundedInduction, TLAPS

(* A non-empty set of naturals has a least element, which Min is.          *)
LEMMA MinIsLeast ==
  ASSUME NEW S \in SUBSET Nat, S # {}
  PROVE  Min(S) \in S /\ \A x \in S : Min(S) <= x
<1>1. \E x \in S : \A y \in S : x <= y
  <2>1. PICK x \in S : \A y \in S : ~(<<y, x>> \in OpToRel(<, Nat))
    BY WFMin, NatLessThanWellFounded
  <2>2. \A y \in S : ~(y < x)
    BY <2>1 DEF OpToRel
  <2> QED BY <2>2
<1> QED BY <1>1 DEF Min

(* A set of numbers up to n has a greatest element, which Max is.          *)
LEMMA MaxIsGreatest ==
  ASSUME NEW n \in Nat, NEW S \in SUBSET (1 .. n), S # {}
  PROVE  Max(S) \in S /\ \A x \in S : x <= Max(S)
<1> DEFINE T == {n - x : x \in S}
<1>1. T \in SUBSET Nat /\ T # {}
  <2>1. \A x \in S : n - x \in Nat /\ n - x \in T
    OBVIOUS
  <2> QED BY <2>1
<1>2. PICK t \in T : \A u \in T : t <= u
  BY <1>1, MinIsLeast
<1>3. PICK x \in S : t = n - x
  BY <1>2
<1>4. \A y \in S : y <= x
  <2> TAKE y \in S
  <2>1. n - y \in T
    OBVIOUS
  <2>2. t <= n - y
    BY <1>2, <2>1
  <2> QED BY <1>3, <2>2
<1> QED BY <1>4 DEF Max

-----------------------------------------------------------------------------
(* Sorting.                                                                *)

(* A relation that sorted() can sort the elements of a set by.             *)
Orders(R, S) ==
  /\ \A a, b \in S : <<a, b>> \in R => <<b, a>> \notin R
  /\ \A a, b, c \in S : <<a, b>> \in R /\ <<b, c>> \in R => <<a, c>> \in R
  /\ \A a, b \in S : a = b \/ <<a, b>> \in R \/ <<b, a>> \in R

(* A finite set can be sorted: put each element where its rank says, the   *)
(* number of elements up to it.                                            *)
LEMMA SortingExists ==
  ASSUME NEW S, IsFiniteSet(S), NEW R, Orders(R, S)
  PROVE  \E s \in SetToSeqs(S) :
           \A k, l \in DOMAIN s : k < l => <<s[k], s[l]>> \in R
<1> DEFINE n == Cardinality(S)
           UpTo(x) == {y \in S : <<y, x>> \in R \/ y = x}
           rank == [x \in S |-> Cardinality(UpTo(x))]
<1>1. n \in Nat
  BY FS_CardinalityType
<1>2. \A x \in S : /\ UpTo(x) \in SUBSET S
                   /\ IsFiniteSet(UpTo(x))
                   /\ Cardinality(UpTo(x)) \in 1 .. n
  <2> TAKE x \in S
  <2>1. UpTo(x) \in SUBSET S /\ x \in UpTo(x)
    OBVIOUS
  <2> HIDE DEF UpTo
  <2>2. IsFiniteSet(UpTo(x)) /\ Cardinality(UpTo(x)) <= n
    BY <2>1, FS_Subset
  <2>3. Cardinality(UpTo(x)) \in Nat /\ Cardinality(UpTo(x)) # 0
    BY <2>1, <2>2, FS_CardinalityType, FS_EmptySet
  <2> QED BY <1>1, <2>1, <2>2, <2>3
<1>3. ASSUME NEW x \in S, NEW y \in S, <<x, y>> \in R
      PROVE  rank[x] < rank[y]
  <2>1. UpTo(x) \in SUBSET UpTo(y)
    BY <1>3 DEF Orders
  <2>2. UpTo(x) # UpTo(y)
    <3>1. y \in UpTo(y) /\ y \notin UpTo(x)
      BY <1>3 DEF Orders
    <3> QED BY <3>1
  <2>3. Cardinality(UpTo(x)) < Cardinality(UpTo(y))
    <3> HIDE DEF UpTo
    <3>1. /\ Cardinality(UpTo(x)) <= Cardinality(UpTo(y))
          /\ Cardinality(UpTo(x)) # Cardinality(UpTo(y))
      BY <1>2, <2>1, <2>2, FS_Subset
    <3> QED BY <1>1, <1>2, <3>1
  <2> QED BY <2>3
<1>4. rank \in Injection(S, 1 .. n)
  <2>1. rank \in [S -> 1 .. n]
    BY <1>2
  <2> HIDE DEF rank, n
  <2>2. \A x, y \in S : rank[x] = rank[y] => x = y
    <3> TAKE x, y \in S
    <3>1. rank[x] \in Nat /\ rank[y] \in Nat
      BY <1>1, <2>1
    <3>2. <<x, y>> \in R => rank[x] < rank[y]
      BY <1>3
    <3>3. <<y, x>> \in R => rank[y] < rank[x]
      BY <1>3
    <3>4. x = y \/ <<x, y>> \in R \/ <<y, x>> \in R
      BY DEF Orders
    <3> QED BY <3>1, <3>2, <3>3, <3>4
  <2> QED BY <2>1, <2>2 DEF Injection, IsInjective
<1>5. rank \in Surjection(S, 1 .. n)
  <2>1. IsFiniteSet(1 .. n) /\ Cardinality(1 .. n) = n
    BY <1>1, FS_Interval
  <2> HIDE DEF rank
  <2> QED BY <1>4, <2>1, FS_Injection
<1> HIDE DEF rank
<1>6. \A k \in 1 .. n : \E x \in S : rank[x] = k
  BY <1>5 DEF Surjection
<1> DEFINE s == [k \in 1 .. n |-> CHOOSE x \in S : rank[x] = k]
<1>7. \A k \in 1 .. n : s[k] \in S /\ rank[s[k]] = k
  BY <1>6
<1>8. s \in [1 .. n -> S] /\ DOMAIN s = 1 .. n
  BY <1>7
<1> HIDE DEF s, n
<1>9. s \in SetToSeqs(S)
  <2>1. \A i, j \in 1 .. n : i # j => s[i] # s[j]
    BY <1>7
  <2> QED BY <1>8, <2>1 DEF SetToSeqs, n
<1>10. \A k, l \in 1 .. n : k < l => <<s[k], s[l]>> \in R
  <2> SUFFICES ASSUME NEW k \in 1 .. n, NEW l \in 1 .. n, k < l
               PROVE  <<s[k], s[l]>> \in R
    OBVIOUS
  <2>1. s[k] # s[l] /\ k \in Nat /\ l \in Nat
    BY <1>1, <1>7
  <2>2. <<s[l], s[k]>> \notin R
    BY <1>3, <1>7, <2>1
  <2> QED BY <1>7, <2>1, <2>2 DEF Orders
<1> QED BY <1>8, <1>9, <1>10

(* A sequence of all elements of a set, each once.                         *)
LEMMA EachOnce ==
  ASSUME NEW S, IsFiniteSet(S), NEW s \in SetToSeqs(S)
  PROVE  /\ Cardinality(S) \in Nat
         /\ s \in Seq(S)
         /\ Len(s) = Cardinality(S)
         /\ DOMAIN s = 1 .. Cardinality(S)
         /\ \A k \in DOMAIN s : s[k] \in S
         /\ \A k, l \in DOMAIN s : s[k] = s[l] => k = l
         /\ \A x \in S : \E k \in DOMAIN s : s[k] = x
<1> DEFINE n == Cardinality(S)
<1>1. n \in Nat
  BY FS_CardinalityType
<1>2. s \in [1 .. n -> S] /\ \A i, j \in 1 .. n : i # j => s[i] # s[j]
  BY DEF SetToSeqs
<1> HIDE DEF n
<1>3. s \in Seq(S) /\ Len(s) = n
  BY <1>1, <1>2
<1>4. s \in Injection(1 .. n, S)
  BY <1>2 DEF Injection, IsInjective
<1>5. s \in Surjection(1 .. n, S)
  <2>1. Cardinality(1 .. n) = n
    BY <1>1, FS_Interval
  <2> QED BY <1>4, <2>1, FS_Injection DEF n
<1>6. \A x \in S : \E k \in 1 .. n : s[k] = x
  BY <1>5 DEF Surjection
<1> QED BY <1>1, <1>2, <1>3, <1>6 DEF n

(* The numbers up to n are sorted, by Sorted(1 .. n, <), as one counts.    *)
LEMMA SortedInterval ==
  ASSUME NEW n \in Nat
  PROVE  (CHOOSE s \in SetToSeqs(1 .. n) :
            \A k, l \in DOMAIN s : k < l => s[k] < s[l]) = [k \in 1 .. n |-> k]
<1> DEFINE Rising(s) == \A k, l \in DOMAIN s : k < l => s[k] < s[l]
           count == [k \in 1 .. n |-> k]
<1>1. IsFiniteSet(1 .. n) /\ Cardinality(1 .. n) = n
  BY FS_Interval
<1>2. count \in SetToSeqs(1 .. n) /\ Rising(count)
  BY <1>1 DEF SetToSeqs
<1>3. ASSUME NEW s \in SetToSeqs(1 .. n), Rising(s) PROVE s = count
  <2>1. DOMAIN s = 1 .. n /\ s \in [1 .. n -> 1 .. n]
    BY <1>1 DEF SetToSeqs
  <2> DEFINE Below == {k \in 1 .. n : s[k] < k}
             Above == {k \in 1 .. n : k < s[k]}
  <2>2. ASSUME Below # {} PROVE FALSE
    <3>1. PICK k \in Below : \A l \in Below : k <= l
      <4>1. Below \in SUBSET Nat
        OBVIOUS
      <4> HIDE DEF Below
      <4> QED BY <2>2, <4>1, MinIsLeast
    <3>2. k \in 1 .. n /\ s[k] < k /\ s[k] \in 1 .. n
      BY <2>1
    <3>3. k - 1 \in 1 .. n /\ ~(k <= k - 1) /\ k - 1 < k
      BY <3>2
    <3>4. ~(s[k - 1] < k - 1) /\ s[k - 1] < s[k] /\ s[k - 1] \in 1 .. n
      BY <1>3, <2>1, <3>1, <3>2, <3>3
    <3> QED BY <3>2, <3>4
  <2>3. ASSUME Above # {} PROVE FALSE
    <3>1. PICK k \in Above : \A l \in Above : l <= k
      <4>1. Above \in SUBSET (1 .. n)
        OBVIOUS
      <4> HIDE DEF Above
      <4> QED BY <2>3, <4>1, MaxIsGreatest
    <3>2. k \in 1 .. n /\ k < s[k] /\ s[k] \in 1 .. n
      BY <2>1
    <3>3. k + 1 \in 1 .. n /\ ~(k + 1 <= k) /\ k < k + 1
      BY <3>2
    <3>4. ~(k + 1 < s[k + 1]) /\ s[k] < s[k + 1] /\ s[k + 1] \in 1 .. n
      BY <1>3, <2>1, <3>1, <3>2, <3>3
    <3> QED BY <3>2, <3>4
  <2>4. \A k \in 1 .. n : s[k] = k
    <3> TAKE k \in 1 .. n
    <3>1. s[k] \in 1 .. n /\ ~(s[k] < k) /\ ~(k < s[k])
      BY <2>1, <2>2, <2>3
    <3> QED BY <3>1
  <2> QED BY <2>1, <2>4
<1> DEFINE chosen == CHOOSE s \in SetToSeqs(1 .. n) : Rising(s)
<1> HIDE DEF count
<1>4. chosen \in SetToSeqs(1 .. n) /\ Rising(chosen)
  BY <1>2
<1> HIDE DEF chosen
<1>5. chosen = count
  BY <1>3, <1>4
<1> QED BY <1>5, Zenon DEF chosen, count

-----------------------------------------------------------------------------
(* The cars of a list of results.                                          *)

(* A sequence of rows, of whatever make.                                   *)
IsTable(rows) == \E n \in Nat : rows = [i \in 1 .. n |-> rows[i]]

(* The rows of a number, and the first row of every number.                *)
RowsOf(results, no) == {i \in DOMAIN results : results[i].no = no}

FirstRows(results) ==
  {i \in DOMAIN results : \A j \in 1 .. i - 1 : results[j].no # results[i].no}

LEMMA FirstRowOf ==
  ASSUME NEW results, IsTable(results), NEW i \in DOMAIN results
  PROVE  \E f \in FirstRows(results) :
           /\ results[f].no = results[i].no
           /\ \A j \in RowsOf(results, results[i].no) : f <= j
<1>1. PICK n \in Nat : DOMAIN results = 1 .. n
  BY DEF IsTable
<1> DEFINE S == RowsOf(results, results[i].no)
           f == Min(S)
<1>2. S \in SUBSET (1 .. n) /\ S \in SUBSET Nat /\ i \in S
  BY <1>1 DEF RowsOf
<1>3. f \in S /\ \A j \in S : f <= j
  BY <1>2, MinIsLeast
<1> HIDE DEF f
<1>4. f \in DOMAIN results /\ results[f].no = results[i].no
  BY <1>3 DEF RowsOf
<1>5. \A j \in 1 .. f - 1 : results[j].no # results[f].no
  <2> SUFFICES ASSUME NEW j \in 1 .. f - 1, results[j].no = results[f].no
               PROVE  FALSE
    OBVIOUS
  <2>1. f \in 1 .. n
    BY <1>2, <1>3
  <2>2. j \in DOMAIN results /\ j < f
    BY <1>1, <2>1
  <2>3. j \in S
    BY <1>4, <2>2 DEF RowsOf
  <2> QED BY <1>3, <2>1, <2>2, <2>3
<1>6. f \in FirstRows(results)
  BY <1>4, <1>5 DEF FirstRows
<1> QED BY <1>3, <1>4, <1>6

(* Two first rows of one number are the same row.                          *)
LEMMA FirstRowsDiffer ==
  ASSUME NEW results, IsTable(results),
         NEW f \in FirstRows(results), NEW g \in FirstRows(results),
         results[f].no = results[g].no
  PROVE  f = g
<1>1. PICK n \in Nat : DOMAIN results = 1 .. n
  BY DEF IsTable
<1>2. f \in 1 .. n /\ g \in 1 .. n
  BY <1>1 DEF FirstRows
<1>3. ~(f < g) /\ ~(g < f)
  BY <1>2 DEF FirstRows
<1> QED BY <1>2, <1>3

(* What CarsOf returns: a car for every number, with the values of its     *)
(* last row, at the place of its first.                                    *)
HoldsRows(cars, results) ==
  /\ IsTable(cars)
  /\ \A i \in DOMAIN results : \E k \in DOMAIN cars : cars[k].no = results[i].no
  /\ \A k \in DOMAIN cars : \E i \in DOMAIN results :
       /\ cars[k] = Car(results[i])
       /\ cars[k].no = results[i].no
       /\ \A j \in RowsOf(results, cars[k].no) : j <= i
  /\ \A k, l \in DOMAIN cars : k < l =>
       \E i \in RowsOf(results, cars[k].no) :
         \A j \in RowsOf(results, cars[l].no) : i < j
  /\ \A k, l \in DOMAIN cars : cars[k].no = cars[l].no => k = l

LEMMA CarsOfHoldsRows ==
  ASSUME NEW results, IsTable(results)
  PROVE  HoldsRows(CarsOf(results), results)
<1>1. PICK n \in Nat : DOMAIN results = 1 .. n
  BY DEF IsTable
<1> DEFINE firsts == FirstRows(results)
           order == CHOOSE s \in SetToSeqs(firsts) :
                      \A k, l \in DOMAIN s : k < l => s[k] < s[l]
           Latest(no) == Max(RowsOf(results, no))
           cars == CarsOf(results)
<1>2. cars = [k \in DOMAIN order |-> Car(results[Latest(results[order[k]].no)])]
  BY DEF CarsOf, Sorted, FirstRows, RowsOf
<1> HIDE DEF cars
<1>3. firsts \in SUBSET (1 .. n) /\ IsFiniteSet(firsts)
  <2>1. firsts \in SUBSET (1 .. n)
    BY <1>1 DEF FirstRows
  <2>2. IsFiniteSet(1 .. n)
    BY FS_Interval
  <2> HIDE DEF firsts
  <2> QED BY <2>1, <2>2, FS_Subset
<1>a. \A f \in firsts : f \in Nat
  BY <1>3
<1> HIDE DEF firsts
<1>4. /\ order \in SetToSeqs(firsts)
      /\ \A k, l \in DOMAIN order : k < l => order[k] < order[l]
  <2> DEFINE R == {p \in firsts \X firsts : p[1] < p[2]}
  <2>1. Orders(R, firsts)
    BY <1>3 DEF Orders
  <2>2. \A a, b \in firsts : <<a, b>> \in R => a < b
    OBVIOUS
  <2> HIDE DEF R
  <2>3. PICK s \in SetToSeqs(firsts) :
          \A k, l \in DOMAIN s : k < l => <<s[k], s[l]>> \in R
    BY <1>3, <2>1, SortingExists
  <2>4. \A k \in DOMAIN s : s[k] \in firsts
    BY <1>3, EachOnce
  <2>5. \A k, l \in DOMAIN s : k < l => s[k] < s[l]
    BY <2>2, <2>3, <2>4
  <2> QED BY <2>5
<1> HIDE DEF order
<1>5. /\ Cardinality(firsts) \in Nat
      /\ DOMAIN order = 1 .. Cardinality(firsts)
      /\ \A k \in DOMAIN order : order[k] \in firsts
      /\ \A k, l \in DOMAIN order : order[k] = order[l] => k = l
      /\ \A f \in firsts : \E k \in DOMAIN order : order[k] = f
  BY <1>3, <1>4, EachOnce
<1>6. \A f \in firsts :
        /\ f \in DOMAIN results
        /\ Latest(results[f].no) \in RowsOf(results, results[f].no)
        /\ \A j \in RowsOf(results, results[f].no) : j <= Latest(results[f].no)
  <2> TAKE f \in firsts
  <2>1. f \in DOMAIN results
    BY <1>1, <1>3
  <2>2. /\ RowsOf(results, results[f].no) \in SUBSET (1 .. n)
        /\ RowsOf(results, results[f].no) # {}
    BY <1>1, <2>1 DEF RowsOf
  <2> QED BY <2>1, <2>2, MaxIsGreatest
<1> HIDE DEF Latest
<1>7. \A k \in DOMAIN order :
        /\ Latest(results[order[k]].no) \in DOMAIN results
        /\ cars[k] = Car(results[Latest(results[order[k]].no)])
        /\ cars[k].no = results[order[k]].no
        /\ results[Latest(results[order[k]].no)].no = results[order[k]].no
  BY <1>2, <1>5, <1>6 DEF RowsOf, Car
<1>8. DOMAIN cars = DOMAIN order /\ IsTable(cars)
  BY <1>2, <1>5 DEF IsTable
<1>9. \A i \in DOMAIN results : \E k \in DOMAIN cars : cars[k].no = results[i].no
  <2> TAKE i \in DOMAIN results
  <2>1. PICK f \in firsts : results[f].no = results[i].no
    BY FirstRowOf DEF firsts
  <2> QED BY <1>5, <1>7, <1>8, <2>1
<1>10. \A k \in DOMAIN cars : \E i \in DOMAIN results :
         /\ cars[k] = Car(results[i])
         /\ cars[k].no = results[i].no
         /\ \A j \in RowsOf(results, cars[k].no) : j <= i
  <2> TAKE k \in DOMAIN cars
  <2>1. order[k] \in firsts /\ k \in DOMAIN order
    BY <1>5, <1>8
  <2> QED BY <1>6, <1>7, <2>1
<1>11. \A k, l \in DOMAIN cars : k < l =>
         \E i \in RowsOf(results, cars[k].no) :
           \A j \in RowsOf(results, cars[l].no) : i < j
  <2> SUFFICES ASSUME NEW k \in DOMAIN cars, NEW l \in DOMAIN cars, k < l
               PROVE  \E i \in RowsOf(results, cars[k].no) :
                        \A j \in RowsOf(results, cars[l].no) : i < j
    OBVIOUS
  <2>1. order[k] < order[l] /\ order[k] \in firsts /\ order[l] \in firsts
    BY <1>4, <1>5, <1>8
  <2>2. order[k] \in RowsOf(results, cars[k].no)
    BY <1>6, <1>7, <1>8, <2>1 DEF RowsOf
  <2>3. PICK f \in firsts : /\ results[f].no = results[order[l]].no
                            /\ \A j \in RowsOf(results, results[order[l]].no) : f <= j
    BY <1>6, <2>1, FirstRowOf DEF firsts
  <2>4. f = order[l]
    BY <2>1, <2>3, FirstRowsDiffer DEF firsts
  <2>5. RowsOf(results, cars[l].no) \subseteq Nat
    BY <1>1 DEF RowsOf
  <2>6. cars[l].no = results[order[l]].no
    BY <1>7, <1>8
  <2>7. \A j \in RowsOf(results, cars[l].no) : order[l] <= j
    BY <2>3, <2>4, <2>6
  <2>8. order[k] \in Nat /\ order[l] \in Nat
    BY <1>a, <2>1
  <2>9. \A j \in RowsOf(results, cars[l].no) : order[k] < j
    BY <2>1, <2>5, <2>7, <2>8
  <2> QED BY <2>2, <2>9
<1>12. \A k, l \in DOMAIN cars : cars[k].no = cars[l].no => k = l
  <2> TAKE k, l \in DOMAIN cars
  <2> HAVE cars[k].no = cars[l].no
  <2>1. order[k] = order[l]
    BY <1>5, <1>7, <1>8, FirstRowsDiffer DEF firsts
  <2> QED BY <1>5, <1>8, <2>1
<1>13. HoldsRows(cars, results)
  BY <1>8, <1>9, <1>10, <1>11, <1>12 DEF HoldsRows
<1> QED BY <1>13 DEF cars

-----------------------------------------------------------------------------
(* The cars of a snapshot.                                                 *)

(* Numbers as text are in a strict order.                                  *)
LEMMA TextOrder ==
  /\ \A a, b \in Nat : TextBefore(a, b) => ~TextBefore(b, a)
  /\ \A a, b, c \in Nat : TextBefore(a, b) /\ TextBefore(b, c) => TextBefore(a, c)
  /\ \A a, b \in Nat : a = b \/ TextBefore(a, b) \/ TextBefore(b, a)
<1> DEFINE P(n) == IF n < 10 THEN 100 * n ELSE IF n < 100 THEN 10 * n ELSE n
<1>1. \A a, b : TextBefore(a, b) <=> P(a) < P(b) \/ (P(a) = P(b) /\ a < b)
  BY DEF TextBefore
<1>2. \A a \in Nat : P(a) \in Nat
  OBVIOUS
<1> HIDE DEF P
<1> QED BY <1>1, <1>2

(* A car per number, in any order.                                         *)
OneCarEach(cars) ==
  /\ IsTable(cars)
  /\ \A k \in DOMAIN cars : cars[k].no \in Nat
  /\ \A k, l \in DOMAIN cars : cars[k].no = cars[l].no => k = l

(* sort_keys puts the cars in an order of its own, and keeps them all.     *)
LEMMA SavedCars ==
  ASSUME NEW s, OneCarEach(s.cars)
  PROVE  LET saved == ToJson(s).cars
         IN /\ DOMAIN saved = DOMAIN s.cars
            /\ OneCarEach(saved)
            /\ ToSet(saved) = ToSet(s.cars)
<1> DEFINE cars == s.cars
           order == CHOOSE q \in SetToSeqs(DOMAIN cars) :
                      \A k, l \in DOMAIN q :
                        k < l => TextBefore(cars[q[k]].no, cars[q[l]].no)
           saved == ToJson(s).cars
<1>1. PICK n \in Nat : DOMAIN cars = 1 .. n
  BY DEF OneCarEach, IsTable
<1>2. saved = [k \in DOMAIN cars |-> cars[order[k]]]
  BY DEF ToJson, Sorted
<1> HIDE DEF saved
<1>3. IsFiniteSet(DOMAIN cars) /\ Cardinality(DOMAIN cars) = n
  BY <1>1, FS_Interval
<1>4. \A k \in DOMAIN cars : cars[k].no \in Nat
  BY DEF OneCarEach
<1>5. \A k, l \in DOMAIN cars : cars[k].no = cars[l].no => k = l
  BY DEF OneCarEach
<1> HIDE DEF cars
<1>6. order \in SetToSeqs(DOMAIN cars)
  <2> DEFINE R == {p \in (DOMAIN cars) \X (DOMAIN cars) :
                     TextBefore(cars[p[1]].no, cars[p[2]].no)}
  <2>1. \A a, b \in DOMAIN cars :
          <<a, b>> \in R <=> TextBefore(cars[a].no, cars[b].no)
    OBVIOUS
  <2> HIDE DEF R
  <2>2. Orders(R, DOMAIN cars)
    <3>1. \A a, b \in DOMAIN cars : <<a, b>> \in R => <<b, a>> \notin R
      BY <1>4, <2>1, TextOrder
    <3>2. \A a, b, c \in DOMAIN cars :
            <<a, b>> \in R /\ <<b, c>> \in R => <<a, c>> \in R
      <4> TAKE a, b, c \in DOMAIN cars
      <4>1. cars[a].no \in Nat /\ cars[b].no \in Nat /\ cars[c].no \in Nat
        BY <1>4
      <4> QED BY <2>1, <4>1, TextOrder
    <3>3. \A a, b \in DOMAIN cars : a = b \/ <<a, b>> \in R \/ <<b, a>> \in R
      BY <1>4, <1>5, <2>1, TextOrder
    <3> QED BY <3>1, <3>2, <3>3 DEF Orders
  <2>3. PICK q \in SetToSeqs(DOMAIN cars) :
          \A k, l \in DOMAIN q : k < l => <<q[k], q[l]>> \in R
    BY <1>3, <2>2, SortingExists
  <2>4. \A k \in DOMAIN q : q[k] \in DOMAIN cars
    BY <1>3, EachOnce
  <2>5. \A k, l \in DOMAIN q :
          k < l => TextBefore(cars[q[k]].no, cars[q[l]].no)
    BY <2>1, <2>3, <2>4
  <2> QED BY <2>5
<1> HIDE DEF order
<1>7. /\ DOMAIN order = DOMAIN cars
      /\ \A k \in DOMAIN cars : order[k] \in DOMAIN cars
      /\ \A k, l \in DOMAIN cars : order[k] = order[l] => k = l
      /\ \A i \in DOMAIN cars : \E k \in DOMAIN cars : order[k] = i
  <2> DEFINE D == DOMAIN cars
  <2>1. D = 1 .. n /\ Cardinality(D) = n /\ IsFiniteSet(D) /\ order \in SetToSeqs(D)
    BY <1>1, <1>3, <1>6
  <2> HIDE DEF D
  <2>2. /\ DOMAIN order = D
        /\ \A k \in DOMAIN order : order[k] \in D
        /\ \A k, l \in DOMAIN order : order[k] = order[l] => k = l
        /\ \A i \in D : \E k \in DOMAIN order : order[k] = i
    BY <2>1, EachOnce
  <2> QED BY <2>2 DEF D
<1>8. DOMAIN saved = DOMAIN cars
  BY <1>2
<1>9. OneCarEach(saved)
  <2>1. IsTable(saved)
    BY <1>1, <1>2 DEF IsTable
  <2>2. \A k \in DOMAIN saved : saved[k].no \in Nat
    BY <1>2, <1>4, <1>7
  <2>3. \A k, l \in DOMAIN saved : saved[k].no = saved[l].no => k = l
    BY <1>2, <1>5, <1>7
  <2> QED BY <2>1, <2>2, <2>3 DEF OneCarEach
<1>10. ToSet(saved) = ToSet(cars)
  <2>1. \A c : c \in ToSet(saved) <=> \E k \in DOMAIN cars : c = cars[order[k]]
    BY <1>2 DEF ToSet
  <2>2. \A c : c \in ToSet(cars) <=> \E i \in DOMAIN cars : c = cars[i]
    BY DEF ToSet
  <2>3. \A c : c \in ToSet(saved) <=> c \in ToSet(cars)
    BY <1>7, <2>1, <2>2
  <2> QED BY <2>3
<1> QED BY <1>8, <1>9, <1>10 DEF saved, cars


-----------------------------------------------------------------------------
(* The label. apply() never reads where a state comes from: what it makes  *)
(* of two states that differ in `source' alone differs in `source' alone.  *)

Fields ==
  {"source", "freshness", "updated", "session", "cars", "track", "messages",
   "seen", "laps", "qualifying", "leading", "bests"}

(* [s EXCEPT ![field] = value], for any field.                             *)
With(s, field, value) ==
  [f \in DOMAIN s |-> IF f = field THEN value ELSE s[f]]

Labelled(s, label) == With(s, "source", label)

LEMMA ExceptIsWith ==
  ASSUME NEW s, NEW v
  PROVE  /\ [s EXCEPT !.source = v] = With(s, "source", v)
         /\ [s EXCEPT !.freshness = v] = With(s, "freshness", v)
         /\ [s EXCEPT !.updated = v] = With(s, "updated", v)
         /\ [s EXCEPT !.session = v] = With(s, "session", v)
         /\ [s EXCEPT !.cars = v] = With(s, "cars", v)
         /\ [s EXCEPT !.track = v] = With(s, "track", v)
         /\ [s EXCEPT !.messages = v] = With(s, "messages", v)
         /\ [s EXCEPT !.seen = v] = With(s, "seen", v)
         /\ [s EXCEPT !.laps = v] = With(s, "laps", v)
         /\ [s EXCEPT !.qualifying = v] = With(s, "qualifying", v)
         /\ [s EXCEPT !.leading = v] = With(s, "leading", v)
         /\ [s EXCEPT !.bests = v] = With(s, "bests", v)
  BY DEF With

LEMMA LabelledKeeps ==
  ASSUME NEW s, NEW label
  PROVE  /\ DOMAIN Labelled(s, label) = DOMAIN s
         /\ \A field \in DOMAIN s \ {"source"} :
              Labelled(s, label)[field] = s[field]
         /\ \A other : Labelled(Labelled(s, label), other) = Labelled(s, other)
  BY DEF Labelled, With

LEMMA LabelCommutes ==
  ASSUME NEW s, NEW label, NEW field, field # "source", NEW value
  PROVE  /\ With(Labelled(s, label), field, value)
              = Labelled(With(s, field, value), label)
         /\ DOMAIN With(s, field, value) = DOMAIN s
<1>1. \A f \in DOMAIN s :
        With(Labelled(s, label), field, value)[f]
          = Labelled(With(s, field, value), label)[f]
  BY DEF Labelled, With
<1> QED BY <1>1 DEF Labelled, With

LEMMA ReduceLabelled ==
  ASSUME NEW s, Fields \subseteq DOMAIN s, NEW m, NEW label
  PROVE  /\ Reduce(Labelled(s, label), m) = Labelled(Reduce(s, m), label)
         /\ DOMAIN Reduce(s, m) = DOMAIN s
<1> DEFINE t == Labelled(s, label)
<1>1. /\ t.seen = s.seen /\ t.messages = s.messages
      /\ t.laps = s.laps /\ t.bests = s.bests
  BY LabelledKeeps DEF Fields
<1> HIDE DEF t
<1>2. ASSUME NEW f, f # "source", NEW g, g # "source", NEW v, NEW w
      PROVE  /\ With(With(t, f, v), g, w) = Labelled(With(With(s, f, v), g, w), label)
             /\ DOMAIN With(With(s, f, v), g, w) = DOMAIN s
  <2> DEFINE u == With(s, f, v)
  <2>1. With(t, f, v) = Labelled(u, label) /\ DOMAIN u = DOMAIN s
    BY <1>2, LabelCommutes DEF t
  <2> HIDE DEF u
  <2>2. /\ With(Labelled(u, label), g, w) = Labelled(With(u, g, w), label)
        /\ DOMAIN With(u, g, w) = DOMAIN u
    BY <1>2, LabelCommutes
  <2> QED BY <2>1, <2>2, Zenon DEF u
<1>3. ASSUME NEW f, f # "source", NEW v
      PROVE  /\ With(t, f, v) = Labelled(With(s, f, v), label)
             /\ DOMAIN With(s, f, v) = DOMAIN s
  BY <1>3, LabelCommutes DEF t
<1>a. /\ "session" # "source" /\ "cars" # "source"
      /\ "seen" # "source" /\ "messages" # "source"
      /\ "leading" # "source" /\ "bests" # "source"
  OBVIOUS
<1>4. CASE m.kind = "initial"
  <2>1. \A x : Reduce(x, m) = With(With(x, "session", m.session), "cars", CarsOf(m.results))
    <3> TAKE x
    <3> DEFINE y == [x EXCEPT !.session = m.session]
               cars == CarsOf(m.results)
    <3> HIDE DEF cars
    <3>1. Reduce(x, m) = [y EXCEPT !.cars = cars]
      BY <1>4 DEF Reduce, ApplyInitialState, cars
    <3>2. y = With(x, "session", m.session)
      BY ExceptIsWith
    <3> HIDE DEF y
    <3>3. [y EXCEPT !.cars = cars] = With(y, "cars", cars)
      BY ExceptIsWith
    <3> QED BY <3>1, <3>2, <3>3, Zenon DEF cars
  <2> DEFINE cars == CarsOf(m.results)
             Both(x) == With(With(x, "session", m.session), "cars", cars)
  <2> HIDE DEF cars
  <2>2. Both(t) = Labelled(Both(s), label) /\ DOMAIN Both(s) = DOMAIN s
    BY <1>2, <1>a
  <2> QED BY <2>1, <2>2, Zenon DEF t, cars
<1>5. CASE m.kind = "track"
  <2>1. \A x : Reduce(x, m) = With(x, "track", m.track)
    BY <1>5, ExceptIsWith DEF Reduce, ApplyTrackState
  <2> QED BY <1>3, <2>1, Zenon DEF t
<1>6. CASE m.kind = "race"
  <2>1. \A x : Reduce(x, m) =
               IF m.key \in x.seen THEN x
               ELSE With(With(x, "seen", x.seen \cup {m.key}),
                         "messages", Append(x.messages, m))
    <3> TAKE x
    <3>1. CASE m.key \in x.seen
      BY <1>6, <3>1 DEF Reduce, ApplyRaceMessage
    <3>2. CASE m.key \notin x.seen
      <4> DEFINE keys == x.seen \cup {m.key}
                 msgs == Append(x.messages, m)
                 y == [x EXCEPT !.seen = keys]
      <4> HIDE DEF keys, msgs
      <4>1. Reduce(x, m) = [y EXCEPT !.messages = msgs]
        BY <1>6, <3>2 DEF Reduce, ApplyRaceMessage, keys, msgs
      <4>2. y = With(x, "seen", keys)
        BY ExceptIsWith
      <4> HIDE DEF y
      <4>3. [y EXCEPT !.messages = msgs] = With(y, "messages", msgs)
        BY ExceptIsWith
      <4> QED BY <3>2, <4>1, <4>2, <4>3, Zenon DEF keys, msgs
    <3> QED BY <3>1, <3>2
  <2>2. CASE m.key \in s.seen
    BY <1>1, <2>1, <2>2, Zenon DEF t
  <2>3. CASE m.key \notin s.seen
    <3> DEFINE keys == s.seen \cup {m.key}
               msgs == Append(s.messages, m)
               Both(x) == With(With(x, "seen", keys), "messages", msgs)
    <3> HIDE DEF keys, msgs
    <3>1. Both(t) = Labelled(Both(s), label) /\ DOMAIN Both(s) = DOMAIN s
      BY <1>2, <1>a
    <3>2. Reduce(s, m) = Both(s)
      BY <2>1, <2>3, Zenon DEF keys, msgs
    <3>3. Reduce(t, m) = Both(t)
      BY <1>1, <2>1, <2>3, Zenon DEF keys, msgs
    <3> QED BY <3>1, <3>2, <3>3, Zenon DEF t
  <2> QED BY <2>2, <2>3
<1>7. CASE m.kind = "laps"
  <2> DEFINE After(laps) ==
               [key \in DOMAIN laps \cup LapKeys(m) |->
                  IF key \in LapKeys(m) THEN m.laps[Max(RowsOfLap(m, key))].time
                  ELSE laps[key]]
  <2>1. \A x : Reduce(x, m) = With(x, "laps", After(x.laps))
    <3> TAKE x
    <3>1. Reduce(x, m) = [x EXCEPT !.laps = After(x.laps)]
      BY <1>7, Zenon DEF Reduce, ApplyPerCarLaps
    <3> HIDE DEF After
    <3> QED BY <3>1, ExceptIsWith
  <2> HIDE DEF After
  <2> QED BY <1>1, <1>3, <2>1, Zenon DEF t
<1>8. CASE m.kind = "qualifying"
  <2>1. \A x : Reduce(x, m) = With(x, "qualifying", m.results)
    BY <1>8, ExceptIsWith DEF Reduce
  <2> QED BY <1>3, <2>1, Zenon DEF t
<1>9. CASE m.kind = "statistics"
  <2> DEFINE After(bests) ==
               [key \in DOMAIN bests \cup SectorKeys(m) |->
                  Min(Known(bests, key) \cup Sent(m, key))]
  <2>1. \A x : Reduce(x, m) =
                 With(With(x, "leading", m.leading), "bests", After(x.bests))
    <3> TAKE x
    <3> DEFINE y == [x EXCEPT !.leading = m.leading]
               bests == After(x.bests)
    <3>1. Reduce(x, m) = [x EXCEPT !.leading = m.leading, !.bests = bests]
      BY <1>9 DEF Reduce, ApplyStatistics
    <3> HIDE DEF bests
    <3>2. Reduce(x, m) = [y EXCEPT !.bests = bests]
      BY <3>1
    <3>3. y = With(x, "leading", m.leading)
      BY ExceptIsWith
    <3> HIDE DEF y
    <3>4. [y EXCEPT !.bests = bests] = With(y, "bests", bests)
      BY ExceptIsWith
    <3> QED BY <3>2, <3>3, <3>4, Zenon DEF bests
  <2> HIDE DEF After
  <2> DEFINE bests == After(s.bests)
             Both(x) == With(With(x, "leading", m.leading), "bests", bests)
  <2>2. t.bests = s.bests
    BY <1>1
  <2>3. Reduce(t, m) = Both(t) /\ Reduce(s, m) = Both(s)
    BY <2>1, <2>2, Zenon
  <2> HIDE DEF bests
  <2>4. Both(t) = Labelled(Both(s), label) /\ DOMAIN Both(s) = DOMAIN s
    BY <1>2, <1>a
  <2> QED BY <2>3, <2>4, Zenon DEF t
<1>10. CASE m.kind \notin {"initial", "track", "race", "laps", "qualifying",
                          "statistics"}
  <2>1. \A x : Reduce(x, m) = x
    BY <1>10 DEF Reduce
  <2> QED BY <2>1, Zenon DEF t
<1> QED BY <1>4, <1>5, <1>6, <1>7, <1>8, <1>9, <1>10, Zenon

LEMMA ApplyLabelled ==
  ASSUME NEW s, Fields \subseteq DOMAIN s, NEW m, NEW label
  PROVE  /\ Apply(Labelled(s, label), m) = Labelled(Apply(s, m), label)
         /\ DOMAIN Apply(s, m) = DOMAIN s
<1> DEFINE Refreshed(x) == IF Raises(m) THEN x ELSE With(x, "freshness", "FRESH")
           u == With(s, "updated", TRUE)
           t == Reduce(u, m)
<1>1. ASSUME NEW x PROVE Apply(x, m) = Refreshed(Reduce(With(x, "updated", TRUE), m))
  <2> DEFINE y == Reduce(With(x, "updated", TRUE), m)
             z == Reduce([x EXCEPT !.updated = TRUE], m)
  <2>1. Apply(x, m) = IF Raises(m) THEN z ELSE [z EXCEPT !.freshness = "FRESH"]
    BY Zenon DEF Apply
  <2>2. [x EXCEPT !.updated = TRUE] = With(x, "updated", TRUE)
    BY ExceptIsWith
  <2>3. z = y
    BY <2>2, Zenon
  <2> HIDE DEF y, z
  <2>4. [z EXCEPT !.freshness = "FRESH"] = With(z, "freshness", "FRESH")
    BY ExceptIsWith
  <2>5. Apply(x, m) = Refreshed(y)
    BY <2>1, <2>3, <2>4, Zenon
  <2> QED BY <2>5 DEF y
<1>a. "updated" # "source" /\ "freshness" # "source"
  OBVIOUS
<1>2. /\ With(Labelled(s, label), "updated", TRUE) = Labelled(u, label)
      /\ DOMAIN u = DOMAIN s
  <2> DEFINE yes == TRUE
  <2> HIDE DEF yes
  <2>1. /\ With(Labelled(s, label), "updated", yes)
             = Labelled(With(s, "updated", yes), label)
        /\ DOMAIN With(s, "updated", yes) = DOMAIN s
    BY <1>a, LabelCommutes
  <2> QED BY <2>1, Zenon DEF yes
<1> HIDE DEF u
<1>3. /\ Reduce(Labelled(u, label), m) = Labelled(t, label)
      /\ DOMAIN t = DOMAIN s
  BY <1>2, ReduceLabelled
<1> HIDE DEF t
<1>4. /\ With(Labelled(t, label), "freshness", "FRESH")
           = Labelled(With(t, "freshness", "FRESH"), label)
      /\ DOMAIN With(t, "freshness", "FRESH") = DOMAIN t
  BY <1>a, LabelCommutes
<1>5. Refreshed(Labelled(t, label)) = Labelled(Refreshed(t), label) /\ DOMAIN Refreshed(t) = DOMAIN s
  BY <1>3, <1>4
<1>6. Apply(Labelled(s, label), m) = Refreshed(Labelled(t, label))
  BY <1>1, <1>2, <1>3, Zenon
<1>7. Apply(s, m) = Refreshed(t)
  BY <1>1, Zenon DEF u, t
<1> QED BY <1>5, <1>6, <1>7, Zenon

(* States that differ in their label have the same contents.               *)
LEMMA LabelledIsSame ==
  ASSUME NEW s, Fields \subseteq DOMAIN s, NEW a, NEW b
  PROVE  SameData(Labelled(s, a), Labelled(s, b))
<1>1. "cars" \in DOMAIN s
  BY DEF Fields
<1>2. Labelled(s, a).cars = s.cars /\ Labelled(s, b).cars = s.cars
  BY <1>1, LabelledKeeps
<1>3. \A field \in DOMAIN Labelled(s, a) \ {"cars", "source"} :
        Labelled(s, a)[field] = Labelled(s, b)[field]
  BY LabelledKeeps
<1> QED BY <1>2, <1>3, Zenon DEF SameData

(* An empty state is labelled, and nothing else.                           *)
LEMMA EmptyIsLabelled ==
  /\ \A a : DOMAIN Empty(a) = Fields
  /\ \A a, b : Empty(b) = Labelled(Empty(a), b)
<1>1. \A a : DOMAIN Empty(a) = Fields
  BY DEF Empty, Fields
<1>2. ASSUME NEW a, NEW b PROVE Empty(b) = Labelled(Empty(a), b)
  <2>1. Empty(b) = [f \in Fields |-> Empty(b)[f]]
    BY DEF Empty, Fields
  <2>2. \A f \in Fields : Empty(b)[f] = IF f = "source" THEN b ELSE Empty(a)[f]
    <3>1. /\ Empty(b)["source"] = b
          /\ Empty(b)["freshness"] = Empty(a)["freshness"]
          /\ Empty(b)["updated"] = Empty(a)["updated"]
          /\ Empty(b)["session"] = Empty(a)["session"]
          /\ Empty(b)["cars"] = Empty(a)["cars"]
          /\ Empty(b)["track"] = Empty(a)["track"]
          /\ Empty(b)["messages"] = Empty(a)["messages"]
          /\ Empty(b)["seen"] = Empty(a)["seen"]
          /\ Empty(b)["laps"] = Empty(a)["laps"]
          /\ Empty(b)["qualifying"] = Empty(a)["qualifying"]
          /\ Empty(b)["leading"] = Empty(a)["leading"]
          /\ Empty(b)["bests"] = Empty(a)["bests"]
      BY DEF Empty
    <3> QED BY <3>1, Zenon DEF Fields
  <2> QED BY <1>1, <2>1, <2>2 DEF Labelled, With
<1> QED BY <1>1, <1>2
============================================================================
