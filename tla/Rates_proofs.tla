---------------------------- MODULE Rates_proofs ----------------------------
(***************************************************************************)
(* Theorems of modules Rates and Answers, for any number of hours, any     *)
(* width of the range that is read at once and any digests.                *)
(***************************************************************************)
EXTENDS Answers, FiniteSetTheorems, SequenceTheorems, TLAPS

(* A non-empty set of naturals has a smallest one, so Min is one of them.  *)
LEMMA MinIn ==
    ASSUME NEW S \in SUBSET Nat, S # {}
    PROVE  Min(S) \in S /\ \A i \in S : Min(S) <= i
<1>1. PICK x \in S : \A y \in S : <<y, x>> \notin OpToRel(<, Nat)
  BY NatLessThanWellFounded, WFMin
<1>2. \A y \in S : x <= y
  <2> SUFFICES ASSUME NEW y \in S PROVE ~(y < x)
    OBVIOUS
  <2> QED
    BY <1>1 DEF OpToRel
<1>3. \E y \in S : \A i \in S : y <= i
  BY <1>2
<1> QED
  BY <1>3 DEF Min

(* A bounded one has a largest one, so Max is one of them.                 *)
LEMMA MaxIn ==
    ASSUME NEW n \in Nat, NEW S \in SUBSET (1 .. n), S # {}
    PROVE  Max(S) \in S /\ \A i \in S : i <= Max(S)
<1> DEFINE T == {n - i : i \in S}
<1>1. T \in SUBSET Nat /\ T # {}
  <2>1. \A i \in S : i \in 1 .. n /\ n - i \in Nat
    OBVIOUS
  <2>2. \A y \in T : y \in Nat
    BY <2>1
  <2> QED
    BY <2>2
<1>2. PICK x \in T : \A y \in T : x <= y
  <2> HIDE DEF T
  <2> QED
    BY <1>1, MinIn
<1>3. PICK i \in S : x = n - i
  OBVIOUS
<1>4. \A j \in S : i >= j
  BY <1>2, <1>3
<1>5. Max(S) \in S /\ \A j \in S : Max(S) >= j
  BY <1>4 DEF Max
<1> QED
  BY <1>5

(* What Latest returns of a set of hours: NoHour only if there are none.   *)
LEMMA LatestIsNewest ==
    ASSUME NEW S \in SUBSET Hours
    PROVE  /\ Latest(S) \in Hours \union {NoHour}
           /\ Latest(S) \in Int
           /\ Latest(S) # NoHour => Latest(S) \in S
           /\ \A h \in S : h <= Latest(S)
<1>1. CASE S = {}
  BY <1>1 DEF Latest, NoHour
<1>2. CASE S # {}
  <2>1. Latest(S) = Max(S)
    BY <1>2 DEF Latest
  <2>2. Max(S) \in S /\ \A h \in S : h <= Max(S)
    BY <1>2, MaxIn, RatesAssumption DEF Hours
  <2>3. Max(S) \in Hours /\ Max(S) \in Int
    <3>1. Max(S) \in Hours
      BY <2>2
    <3>2. Hours \subseteq Int
      BY RatesAssumption DEF Hours
    <3> QED
      BY <3>1, <3>2
  <2> QED
    BY <1>2, <2>1, <2>2, <2>3
<1> QED
  BY <1>1, <1>2

-----------------------------------------------------------------------------
(* The tables only grow, so what was seen of them still holds; and from    *)
(* query to query the hours chosen so far stay the right ones.             *)
Grown == /\ before \subseteq stored
         /\ pricedThen \subseteq priced

Chosen == pc \in {"rows", "prev", "older", "done"} => \A h \in before : h <= hour

Compared == /\ pc \in {"older", "done"} => /\ prev < hour
                                         /\ \A h \in before : ~(prev < h /\ h < hour)
            /\ pc = "older" => prev # NoHour

Consistent == TypeOK /\ Grown /\ Chosen /\ RatesOfHour /\ Compared /\ RatesOfPrev

(* What a request has seen stays in the tables, which only grow.           *)
LEMMA TablesStep ==
    ASSUME Consistent,
           stored \subseteq stored', priced \subseteq priced',
           stored' \subseteq Hours, priced' \subseteq stored', UNCHANGED request
    PROVE  Consistent'
<1> USE DEF request
<1>1. TypeOK'
  BY DEF Consistent, TypeOK
<1>2. Grown'
  BY DEF Consistent, Grown
<1>3. Chosen' /\ Compared'
  BY DEF Consistent, Chosen, Compared
<1>4. RatesOfHour' /\ RatesOfPrev'
  BY DEF Consistent, RatesOfHour, RatesOfPrev
<1> QED
  BY <1>1, <1>2, <1>3, <1>4 DEF Consistent

(* Every query and every commit between two queries keeps Consistent.      *)
LEMMA ConsistentStep == Consistent /\ [Next]_vars => Consistent'
<1> SUFFICES ASSUME Consistent, [Next]_vars PROVE Consistent'
  OBVIOUS
<1> USE DEF Consistent, tables
<1>1. stored \in SUBSET Hours /\ priced \in SUBSET Hours
  BY DEF TypeOK
<1>2. ASSUME NEW h \in Hours, Commit(h) PROVE Consistent'
  <2>1. /\ stored \subseteq stored' /\ priced \subseteq priced'
        /\ stored' \subseteq Hours /\ priced' \subseteq stored' /\ UNCHANGED request
    BY <1>1, <1>2 DEF Commit, TypeOK
  <2> QED
    BY <2>1, TablesStep
<1>3. CASE Describe \/ UNCHANGED vars
  <2>1. /\ stored \subseteq stored' /\ priced \subseteq priced'
        /\ stored' \subseteq Hours /\ priced' \subseteq stored' /\ UNCHANGED request
    BY <1>1, <1>3 DEF Describe, vars, TypeOK
  <2> QED
    BY <2>1, TablesStep
<1>4. CASE Begin
  <2>1. TypeOK'
    BY <1>4 DEF Begin, TypeOK, NoHour
  <2> QED
    BY <1>4, <2>1 DEF Begin, Grown, Chosen, RatesOfHour, Compared, RatesOfPrev
<1>5. CASE Fail \/ Respond
  <2>1. TypeOK'
    BY <1>5 DEF Fail, Respond, TypeOK
  <2> QED
    BY <1>5, <2>1 DEF Fail, Respond, Grown, Chosen, RatesOfHour, Compared, RatesOfPrev
<1>6. CASE LatestSnapshotHour
  <2>1. /\ hour' \in Hours \union {NoHour} /\ pricedThen' = priced
        /\ pc' \in {"idle", "rows"} /\ (pc' = "rows" => hour' # NoHour)
        /\ UNCHANGED <<stored, priced, byHour, prev, older, before>>
        /\ \A h \in stored : h <= hour'
    BY <1>1, <1>6, LatestIsNewest DEF LatestSnapshotHour
  <2>2. TypeOK'
    BY <2>1 DEF TypeOK
  <2>3. Grown' /\ Chosen'
    BY <2>1 DEF Grown, Chosen
  <2> QED
    BY <2>1, <2>2, <2>3 DEF RatesOfHour, Compared, RatesOfPrev
<1>7. CASE ListSnapshotRates
  <2>1. /\ byHour' = InRange(hour - trendHours, hour) /\ pc' = "prev" /\ pc = "rows"
        /\ UNCHANGED <<stored, priced, hour, prev, older, before, pricedThen>>
    BY <1>7 DEF ListSnapshotRates
  <2>2. byHour' \subseteq Hours
    BY <1>1, <2>1 DEF InRange
  <2>3. hour \in Nat /\ hour - trendHours < hour
    BY <2>1, RatesAssumption DEF TypeOK, Hours, NoHour
  <2>4. RatesOfHour'
    BY <2>1, <2>3 DEF RatesOfHour, InRange, Grown
  <2>5. TypeOK' /\ Grown'
    BY <2>1, <2>2 DEF TypeOK, Grown
  <2>6. Chosen' /\ Compared' /\ RatesOfPrev'
    BY <2>1 DEF Chosen, Compared, RatesOfPrev
  <2> QED
    BY <2>4, <2>5, <2>6
<1>8. CASE PreviousSnapshotHour
  <2> DEFINE S == {h \in stored : h < hour}
  <2>1. /\ prev' = Latest(S) /\ pricedThen' = priced /\ pc = "prev"
        /\ pc' \in {"done", "older"}
        /\ UNCHANGED <<stored, priced, hour, byHour, older, before>>
    BY <1>8 DEF PreviousSnapshotHour, LatestBefore
  <2>2. /\ pc' = "done" => prev' = NoHour \/ prev' \in byHour
        /\ pc' = "older" => prev' # NoHour
    BY <1>8 DEF PreviousSnapshotHour
  <2>3. S \in SUBSET Hours /\ hour \in Nat /\ 0 < hour
    <3>1. S \in SUBSET Hours
      BY <1>1
    <3>2. hour \in Hours
      BY <2>1 DEF TypeOK
    <3> HIDE DEF S
    <3> QED
      BY <3>1, <3>2, RatesAssumption DEF Hours
  <2>4. /\ prev' \in Hours \union {NoHour} /\ prev' \in Int
        /\ prev' # NoHour => prev' \in S
        /\ \A h \in S : h <= prev'
    BY <2>1, <2>3, LatestIsNewest
  <2>5. prev' < hour
    BY <2>3, <2>4 DEF NoHour
  <2>6. \A h \in before : ~(prev' < h /\ h < hour)
    <3> SUFFICES ASSUME NEW h \in before, prev' < h, h < hour PROVE FALSE
      OBVIOUS
    <3>1. h \in S /\ h \in Int
      BY <1>1 DEF Grown, Hours
    <3> QED
      BY <2>4, <3>1
  <2>7. RatesOfPrev'
    <3>1. NoHour \notin priced
      BY <1>1, RatesAssumption DEF Hours, NoHour
    <3> QED
      BY <2>1, <2>2, <3>1 DEF RatesOfPrev
  <2>8. TypeOK' /\ Grown' /\ Chosen'
    BY <2>1, <2>4 DEF TypeOK, Grown, Chosen
  <2>9. Compared' /\ RatesOfHour'
    BY <2>1, <2>2, <2>5, <2>6 DEF Compared, RatesOfHour
  <2> QED
    BY <2>7, <2>8, <2>9
<1>9. CASE ListOlderRates
  <2>1. /\ older' = InRange(prev - 1, prev) /\ pc' = "done" /\ pc = "older"
        /\ UNCHANGED <<stored, priced, hour, byHour, prev, before, pricedThen>>
    BY <1>9 DEF ListOlderRates
  <2>2. older' \subseteq Hours
    BY <1>1, <2>1 DEF InRange
  <2>3. prev \in Int /\ prev - 1 < prev
    BY RatesAssumption DEF TypeOK, Hours, NoHour
  <2>4. RatesOfPrev'
    BY <2>1, <2>3 DEF RatesOfPrev, InRange, Grown
  <2>5. TypeOK' /\ Grown'
    BY <2>1, <2>2 DEF TypeOK, Grown
  <2>6. Chosen' /\ Compared' /\ RatesOfHour'
    BY <2>1 DEF Chosen, Compared, RatesOfHour
  <2> QED
    BY <2>4, <2>5, <2>6
<1> QED
  BY <1>2, <1>3, <1>4, <1>5, <1>6, <1>7, <1>8, <1>9 DEF Next, Query

(* No request is under way at first.                                       *)
LEMMA ConsistentInit == Init => Consistent
<1> SUFFICES ASSUME Init PROVE Consistent
  OBVIOUS
<1>1. TypeOK /\ Grown
  BY DEF Init, TypeOK, Grown, NoHour
<1> QED
  BY <1>1 DEF Init, Consistent, Chosen, RatesOfHour, Compared, RatesOfPrev

(* HoursAreCurrent: a response is never older than what was stored when    *)
(* its request began, and compares with the hour before, whatever ingests  *)
(* commit between its queries.                                             *)
THEOREM HoursAlwaysCurrent == Spec => []HoursAreCurrent
<1>1. Consistent => HoursAreCurrent
  BY DEF Consistent, Chosen, Compared, HoursAreCurrent, ServesNewest, PrevIsNext
<1> QED
  BY <1>1, ConsistentInit, ConsistentStep, PTL DEF Spec

(* RatesArePresent: it has the rates of both hours if they had any when    *)
(* they were chosen.                                                       *)
THEOREM RatesAlwaysPresent == Spec => []RatesArePresent
<1>1. Consistent => RatesArePresent
  BY DEF Consistent, RatesArePresent
<1> QED
  BY <1>1, ConsistentInit, ConsistentStep, PTL DEF Spec

(* Answers, with its tables and rows, implements Rates: what it adds never *)
(* lets a query see what Rates does not allow, so that the two theorems    *)
(* above hold of Answers.                                                  *)
THEOREM AnswersImplementRates == AnswersSpec => Spec
<1>1. AnswersInit => Init
  BY DEF AnswersInit
<1>2. AnswersNext => [Next]_vars
  <2> SUFFICES ASSUME AnswersNext PROVE [Next]_vars
    OBVIOUS
  <2>1. CASE LoadRatePairs \/ ReadRange \/ ReadOlder \/ OtherStep
    BY <2>1 DEF LoadRatePairs, ReadRange, ReadOlder, OtherStep, Next, Query
  <2>2. ASSUME NEW h \in Hours, NEW digest \in Digests, IngestHour(h, digest)
        PROVE  Next
    BY <2>2 DEF IngestHour, Next
  <2>3. ASSUME NEW p \in Tradables, DescribeCurrency(p)
        PROVE  [Next]_vars
    BY <2>3 DEF DescribeCurrency, Next
  <2> QED
    BY <2>1, <2>2, <2>3 DEF AnswersNext
<1>3. UNCHANGED answersVars => UNCHANGED vars
  BY DEF answersVars
<1> QED
  BY <1>1, <1>2, <1>3, PTL DEF AnswersSpec, Spec

(* What was shown of Rates therefore holds of the answers themselves.      *)
THEOREM AnswersCurrentAndPresent == AnswersSpec => [](HoursAreCurrent /\ RatesArePresent)
BY AnswersImplementRates, HoursAlwaysCurrent, RatesAlwaysPresent, PTL

(* Every variable of Rates keeps its type.                                 *)
THEOREM TypeCorrect == Spec => []TypeOK
<1>1. Consistent => TypeOK
  BY DEF Consistent
<1> QED
  BY <1>1, ConsistentInit, ConsistentStep, PTL DEF Spec

-----------------------------------------------------------------------------
(* Of a finite set in a strict total order, given by what comes before     *)
(* each element, there is a sequence in that order.                        *)
LEMMA SortedExists ==
    ASSUME NEW S, IsFiniteSet(S), NEW ahead \in [S -> SUBSET S],
           \A x \in S : x \notin ahead[x],
           \A x, y \in S : x # y => x \in ahead[y] \/ y \in ahead[x],
           \A x, y \in S : x \in ahead[y] => ahead[x] \subseteq ahead[y]
    PROVE  \E list \in SetToSeqs(S) :
               \A i, j \in DOMAIN list : i < j => list[i] \in ahead[list[j]]
<1> DEFINE n    == Cardinality(S)
           rank == [x \in S |-> Cardinality(ahead[x]) + 1]
<1>1. n \in Nat
  BY FS_CardinalityType
<1>2. ASSUME NEW x \in S PROVE Cardinality(ahead[x]) \in 0 .. n - 1
  <2>1. ahead[x] \in SUBSET (S \ {x})
    OBVIOUS
  <2>2. IsFiniteSet(S \ {x}) /\ Cardinality(S \ {x}) = n - 1
    BY FS_RemoveElement
  <2>3. IsFiniteSet(ahead[x]) /\ Cardinality(ahead[x]) <= n - 1
    BY <2>1, <2>2, FS_Subset
  <2>4. Cardinality(ahead[x]) \in Nat
    BY <2>3, FS_CardinalityType
  <2> QED
    BY <1>1, <2>3, <2>4
<1>3. ASSUME NEW x \in S, NEW y \in S, x \in ahead[y]
      PROVE  Cardinality(ahead[x]) < Cardinality(ahead[y])
  <2>1. IsFiniteSet(ahead[y])
    BY FS_Subset
  <2>2. ahead[x] \in SUBSET ahead[y] /\ ahead[x] # ahead[y]
    BY <1>3
  <2>3. /\ Cardinality(ahead[x]) <= Cardinality(ahead[y])
        /\ Cardinality(ahead[x]) # Cardinality(ahead[y])
    BY <2>1, <2>2, FS_Subset
  <2> QED
    BY <1>1, <1>2, <2>3
<1>4. rank \in [S -> 1 .. n] /\ \A x, y \in S : x \in ahead[y] => rank[x] < rank[y]
  <2>1. \A x \in S : Cardinality(ahead[x]) + 1 \in 1 .. n
    BY <1>1, <1>2
  <2>2. ASSUME NEW x \in S, NEW y \in S, x \in ahead[y] PROVE rank[x] < rank[y]
    <3>1. Cardinality(ahead[x]) < Cardinality(ahead[y])
      BY <1>3, <2>2
    <3> QED
      BY <1>1, <1>2, <3>1
  <2> QED
    BY <2>1, <2>2
<1> HIDE DEF n, rank
<1>5. \A x, y \in S : rank[x] = rank[y] => x = y
  BY <1>1, <1>4
<1>6. rank \in Injection(S, 1 .. n)
  BY <1>4, <1>5 DEF Injection, IsInjective
<1>7. IsFiniteSet(1 .. n) /\ Cardinality(1 .. n) = n
  BY <1>1, FS_Interval
<1>8. rank \in Surjection(S, 1 .. n)
  BY <1>6, <1>7, FS_Injection DEF n
<1> DEFINE list == [i \in 1 .. n |-> CHOOSE x \in S : rank[x] = i]
<1>9. \A i \in 1 .. n : list[i] \in S /\ rank[list[i]] = i
  BY <1>8 DEF Surjection
<1>10. list \in SetToSeqs(S)
  <2>1. list \in [1 .. n -> S]
    BY <1>9
  <2>2. \A i, j \in 1 .. n : i # j => list[i] # list[j]
    BY <1>9
  <2> HIDE DEF list
  <2> QED
    BY <2>1, <2>2 DEF SetToSeqs, n
<1>11. ASSUME NEW i \in 1 .. n, NEW j \in 1 .. n, i < j PROVE list[i] \in ahead[list[j]]
  <2> HIDE DEF list
  <2>1. list[i] # list[j] /\ ~(rank[list[j]] < rank[list[i]])
    BY <1>1, <1>9, <1>11
  <2> QED
    BY <1>4, <1>9, <2>1
<1> QED
  BY <1>10, <1>11

-----------------------------------------------------------------------------
(* Fractions, as the rates of what was traded on both sides.               *)
Positives == Nat \ {0}
Fractions == Positives \X Positives

LEMMA TimesMonotonic ==
    ASSUME NEW a \in Nat, NEW b \in Nat, NEW c \in Positives
    PROVE  /\ a <= b <=> a * c <= b * c
           /\ a = b <=> a * c = b * c
BY DEF Positives

(* If a/b is at most c/d and c/d at most e/f, so is a/b at most e/f, and   *)
(* they are equal only if all three are.                                   *)
LEMMA CrossMultiplied ==
    ASSUME NEW a \in Positives, NEW b \in Positives, NEW c \in Positives,
           NEW d \in Positives, NEW e \in Positives, NEW f \in Positives,
           a * d <= c * b, c * f <= e * d
    PROVE  a * f <= e * b /\ (a * f = e * b => a * d = c * b /\ c * f = e * d)
<1>1. /\ a * d \in Nat /\ c * b \in Nat /\ c * f \in Nat /\ e * d \in Nat
      /\ a * f \in Nat /\ e * b \in Nat
  BY DEF Positives
<1>2. (a * d) * f <= (c * b) * f /\ ((a * d) * f = (c * b) * f => a * d = c * b)
  BY <1>1, TimesMonotonic
<1>3. (c * f) * b <= (e * d) * b /\ ((c * f) * b = (e * d) * b => c * f = e * d)
  BY <1>1, TimesMonotonic
<1>4. /\ (a * d) * f = (a * f) * d /\ (c * b) * f = (c * f) * b
      /\ (e * d) * b = (e * b) * d
  BY DEF Positives
<1>5. /\ (a * f) * d \in Nat /\ (c * f) * b \in Nat /\ (e * b) * d \in Nat
  BY DEF Positives
<1>6. (a * f) * d <= (e * b) * d
  BY <1>2, <1>3, <1>4, <1>5
<1>7. a * f <= e * b
  BY <1>1, <1>6, TimesMonotonic
<1>8. ASSUME a * f = e * b PROVE a * d = c * b /\ c * f = e * d
  <2>1. (a * f) * d = (e * b) * d
    BY <1>8
  <2>2. (a * d) * f = (c * b) * f /\ (c * f) * b = (e * d) * b
    BY <1>2, <1>3, <1>4, <1>5, <2>1
  <2> QED
    BY <1>2, <1>3, <2>2
<1> QED
  BY <1>7, <1>8

-----------------------------------------------------------------------------
(* A finite set has a first element in a strict order, given by what is    *)
(* below each element.                                                     *)
LEMMA FirstExists ==
    ASSUME NEW S, IsFiniteSet(S), S # {}, NEW below \in [S -> SUBSET S],
           \A x \in S : x \notin below[x],
           \A x, y \in S : x \in below[y] => below[x] \subseteq below[y]
    PROVE  \E x \in S : below[x] = {}
<1>1. ASSUME NEW x \in S PROVE IsFiniteSet(below[x]) /\ Cardinality(below[x]) \in Nat
  <2>1. IsFiniteSet(below[x])
    BY FS_Subset
  <2> QED
    BY <2>1, FS_CardinalityType
<1>2. ASSUME NEW x \in S, NEW y \in S, x \in below[y]
      PROVE  Cardinality(below[x]) < Cardinality(below[y])
  <2>1. below[x] \in SUBSET below[y] /\ below[x] # below[y]
    BY <1>2
  <2>2. /\ Cardinality(below[x]) <= Cardinality(below[y])
        /\ Cardinality(below[x]) # Cardinality(below[y])
    BY <1>1, <2>1, FS_Subset
  <2> QED
    BY <1>1, <2>2
<1> DEFINE R == {Cardinality(below[x]) : x \in S}
<1>3. R \in SUBSET Nat /\ R # {}
  BY <1>1
<1>4. Min(R) \in R /\ \A i \in R : Min(R) <= i
  <2> HIDE DEF R
  <2> QED
    BY <1>3, MinIn
<1>5. PICK m \in R : \A i \in R : m <= i
  BY <1>4
<1>6. PICK x \in S : m = Cardinality(below[x])
  OBVIOUS
<1>7. ASSUME NEW y \in below[x] PROVE FALSE
  <2>1. y \in S
    OBVIOUS
  <2>2. Cardinality(below[y]) < Cardinality(below[x])
    BY <1>2, <2>1
  <2>3. m <= Cardinality(below[y])
    BY <1>5, <2>1
  <2> QED
    BY <1>1, <1>6, <2>1, <2>2, <2>3
<1> QED
  BY <1>7

(* A bound of a rate: its numerator may be 0.                              *)
Bounds == Nat \X Positives

LEMMA LessIsOrder ==
    ASSUME NEW x \in Bounds, NEW y \in Bounds, NEW z \in Bounds
    PROVE  /\ ~Less(x, x)
           /\ Less(x, y) /\ Less(y, z) => Less(x, z)
           /\ Less(x, y) \/ Same(x, y) \/ Less(y, x)
<1>1. PICK a, c, e \in Nat, b, d, f \in Positives : x = <<a, b>> /\ y = <<c, d>> /\ z = <<e, f>>
  BY DEF Bounds
<1>2. /\ Less(x, y) <=> a * d < c * b
      /\ Less(y, x) <=> c * b < a * d
      /\ Same(x, y) <=> a * d = c * b
      /\ Less(y, z) <=> c * f < e * d
      /\ Less(x, z) <=> a * f < e * b
      /\ Less(x, x) <=> a * b < a * b
  BY <1>1 DEF Less, Same
<1>3. /\ a * d \in Nat /\ c * b \in Nat /\ c * f \in Nat /\ e * d \in Nat
      /\ a * f \in Nat /\ e * b \in Nat /\ a * b \in Nat
  BY DEF Positives
<1>4. ASSUME a * d < c * b, c * f < e * d PROVE a * f < e * b
  <2>1. ~((c * b) * f <= (a * d) * f) /\ ~((e * d) * b <= (c * f) * b)
    BY <1>3, <1>4, TimesMonotonic
  <2>2. /\ (a * d) * f = (a * f) * d /\ (c * b) * f = (c * f) * b
        /\ (e * d) * b = (e * b) * d
    BY DEF Positives
  <2>3. (a * f) * d \in Nat /\ (c * f) * b \in Nat /\ (e * b) * d \in Nat
    BY DEF Positives
  <2>4. ~((e * b) * d <= (a * f) * d)
    BY <2>1, <2>2, <2>3
  <2>5. ~(e * b <= a * f)
    BY <1>3, <2>4, TimesMonotonic
  <2> QED
    BY <1>3, <2>5
<1>5. (a * d < c * b) \/ (a * d = c * b) \/ (c * b < a * d)
  BY <1>3
<1>6. ~(a * b < a * b)
  BY <1>3
<1> QED
  BY <1>2, <1>4, <1>5, <1>6

(* Least and Greatest are what their names say.                            *)
LEMMA Extremes ==
    ASSUME NEW S \in SUBSET Bounds, IsFiniteSet(S), S # {}
    PROVE  /\ Least(S) \in S /\ \A y \in S : ~Less(y, Least(S))
           /\ Greatest(S) \in S /\ \A y \in S : ~Less(Greatest(S), y)
<1>1. \E x \in S : \A y \in S : ~Less(y, x)
  <2> DEFINE below == [x \in S |-> {y \in S : Less(y, x)}]
  <2>1. /\ below \in [S -> SUBSET S]
        /\ \A x \in S : \A y \in S : y \in below[x] <=> Less(y, x)
    OBVIOUS
  <2>2. \A x \in S : \A y \in below[x] : y \in S
    BY <2>1
  <2> HIDE DEF below
  <2>3. \A x \in S : x \notin below[x]
    BY <2>1, LessIsOrder
  <2>4. ASSUME NEW x \in S, NEW y \in S, x \in below[y] PROVE below[x] \subseteq below[y]
    <3> SUFFICES ASSUME NEW z \in below[x] PROVE z \in below[y]
      OBVIOUS
    <3>1. z \in S /\ Less(z, x) /\ Less(x, y)
      BY <2>1, <2>2, <2>4
    <3>2. Less(z, y)
      BY <3>1, LessIsOrder
    <3> QED
      BY <2>1, <3>1, <3>2
  <2>5. \E x \in S : below[x] = {}
    BY <2>1, <2>3, <2>4, FirstExists
  <2> QED
    BY <2>1, <2>5
<1>2. \E x \in S : \A y \in S : ~Less(x, y)
  <2> DEFINE above == [x \in S |-> {y \in S : Less(x, y)}]
  <2>1. /\ above \in [S -> SUBSET S]
        /\ \A x \in S : \A y \in S : y \in above[x] <=> Less(x, y)
    OBVIOUS
  <2>2. \A x \in S : \A y \in above[x] : y \in S
    BY <2>1
  <2> HIDE DEF above
  <2>3. \A x \in S : x \notin above[x]
    BY <2>1, LessIsOrder
  <2>4. ASSUME NEW x \in S, NEW y \in S, x \in above[y] PROVE above[x] \subseteq above[y]
    <3> SUFFICES ASSUME NEW z \in above[x] PROVE z \in above[y]
      OBVIOUS
    <3>1. z \in S /\ Less(x, z) /\ Less(y, x)
      BY <2>1, <2>2, <2>4
    <3>2. Less(y, z)
      BY <3>1, LessIsOrder
    <3> QED
      BY <2>1, <3>1, <3>2
  <2>5. \E x \in S : above[x] = {}
    BY <2>1, <2>3, <2>4, FirstExists
  <2> QED
    BY <2>1, <2>5
<1> QED
  BY <1>1, <1>2 DEF Least, Greatest

LEMMA FractionsTimes ==
    ASSUME NEW x \in Fractions, NEW y \in Fractions
    PROVE  Times(x, y) \in Fractions
<1>1. PICK a, b, c, d \in Positives : x = <<a, b>> /\ y = <<c, d>>
  BY DEF Fractions
<1>2. a * c \in Positives /\ b * d \in Positives
  BY DEF Positives
<1> QED
  BY <1>1, <1>2 DEF Times, Fractions

(* Products keep the order of their factors.                               *)
LEMMA TimesKeepsOrder ==
    ASSUME NEW x \in Bounds, NEW y \in Bounds, NEW v \in Bounds, NEW w \in Bounds,
           ~Less(y, x), ~Less(w, v)
    PROVE  /\ Times(x, v) \in Bounds /\ Times(y, w) \in Bounds
           /\ ~Less(Times(y, w), Times(x, v))
<1>1. PICK a, c, e, g \in Nat, b, d, f, h \in Positives :
          x = <<a, b>> /\ y = <<c, d>> /\ v = <<e, f>> /\ w = <<g, h>>
  BY DEF Bounds
<1>2. PICK k, l, m, n \in Nat : k = a * d /\ l = c * b /\ m = e * h /\ n = g * f
  BY DEF Positives
<1>3. k <= l /\ m <= n
  BY <1>1, <1>2 DEF Less
<1>4. k * m <= l * n
  <2>1. k * m <= l * m /\ l * m <= l * n
    BY <1>3
  <2>2. k * m \in Nat /\ l * m \in Nat /\ l * n \in Nat
    OBVIOUS
  <2> QED
    BY <2>1, <2>2
<1>5. k * m = (a * e) * (d * h) /\ l * n = (c * g) * (b * f)
  BY <1>2 DEF Positives
<1>6. /\ a * e \in Nat /\ c * g \in Nat /\ b * f \in Positives /\ d * h \in Positives
      /\ k * m \in Nat /\ l * n \in Nat
  BY DEF Positives
<1>7. Times(x, v) = <<a * e, b * f>> /\ Times(y, w) = <<c * g, d * h>>
  BY <1>1 DEF Times
<1>8. ~((c * g) * (b * f) < (a * e) * (d * h))
  BY <1>4, <1>5, <1>6
<1> QED
  BY <1>6, <1>7, <1>8 DEF Less, Bounds

-----------------------------------------------------------------------------
(* A rate: of what the rankings compare, and its range.                    *)
IsRate(r) == /\ r.quote \in Nat /\ r.vwap \in Fractions /\ r.baseVol \in Nat
             /\ r.low \in Bounds /\ r.high \in Bounds /\ ~Less(r.high, r.low)

(* The order of RankByPrice is strict, and total for different quotes.     *)
LEMMA DearerIsOrder ==
    ASSUME NEW x, IsRate(x), NEW y, IsRate(y), NEW z, IsRate(z)
    PROVE  /\ ~Dearer(x, x)
           /\ x.quote # y.quote => Dearer(x, y) \/ Dearer(y, x)
           /\ Dearer(x, y) /\ Dearer(y, z) => Dearer(x, z)
<1>1. /\ x.vwap[1] \in Positives /\ x.vwap[2] \in Positives
      /\ y.vwap[1] \in Positives /\ y.vwap[2] \in Positives
      /\ z.vwap[1] \in Positives /\ z.vwap[2] \in Positives
      /\ x.quote \in Nat /\ y.quote \in Nat /\ z.quote \in Nat
  BY DEF IsRate, Fractions
<1> DEFINE xy == x.vwap[1] * y.vwap[2]
           yx == y.vwap[1] * x.vwap[2]
           yz == y.vwap[1] * z.vwap[2]
           zy == z.vwap[1] * y.vwap[2]
           xz == x.vwap[1] * z.vwap[2]
           zx == z.vwap[1] * x.vwap[2]
           xx == x.vwap[1] * x.vwap[2]
<1>2. /\ xy \in Nat /\ yx \in Nat /\ yz \in Nat /\ zy \in Nat /\ xz \in Nat /\ zx \in Nat
      /\ xx \in Nat
  BY <1>1 DEF Positives
<1>3. /\ Dearer(x, y) <=> xy < yx \/ (xy = yx /\ x.quote < y.quote)
      /\ Dearer(y, x) <=> yx < xy \/ (yx = xy /\ y.quote < x.quote)
      /\ Dearer(y, z) <=> yz < zy \/ (yz = zy /\ y.quote < z.quote)
      /\ Dearer(x, z) <=> xz < zx \/ (xz = zx /\ x.quote < z.quote)
      /\ Dearer(x, x) <=> xx < xx \/ (xx = xx /\ x.quote < x.quote)
  BY DEF Dearer, Less, Same
<1>4. xy <= yx /\ yz <= zy => xz <= zx /\ (xz = zx => xy = yx /\ yz = zy)
  <2>1. PICK a, b, c, d, e, f \in Positives : /\ a = x.vwap[1] /\ b = x.vwap[2]
                                              /\ c = y.vwap[1] /\ d = y.vwap[2]
                                              /\ e = z.vwap[1] /\ f = z.vwap[2]
    BY <1>1
  <2>2. a * d <= c * b /\ c * f <= e * d =>
            a * f <= e * b /\ (a * f = e * b => a * d = c * b /\ c * f = e * d)
    BY CrossMultiplied
  <2> QED
    BY <2>1, <2>2
<1> HIDE DEF xy, yx, yz, zy, xz, zx, xx
<1> QED
  BY <1>1, <1>2, <1>3, <1>4

LEMMA MoreTradedIsOrder ==
    ASSUME NEW x, IsRate(x), NEW y, IsRate(y), NEW z, IsRate(z)
    PROVE  /\ ~MoreTraded(x, x)
           /\ x.quote # y.quote => MoreTraded(x, y) \/ MoreTraded(y, x)
           /\ MoreTraded(x, y) /\ MoreTraded(y, z) => MoreTraded(x, z)
BY DEF MoreTraded, IsRate

(* What is ranked: rates of different quotes, finitely many.               *)
Rankable(S) == /\ IsFiniteSet(S)
               /\ \A x \in S : IsRate(x)
               /\ \A x, y \in S : x.quote = y.quote => x = y

LEMMA SortedByPrice ==
    ASSUME NEW S, Rankable(S)
    PROVE  /\ Sorted(S, Dearer) \in SetToSeqs(S)
           /\ \A i, j \in DOMAIN Sorted(S, Dearer) :
                  i < j => Dearer(Sorted(S, Dearer)[i], Sorted(S, Dearer)[j])
<1> DEFINE ahead == [y \in S |-> {x \in S : Dearer(x, y)}]
<1>1. /\ ahead \in [S -> SUBSET S]
      /\ \A x, y \in S : x \in ahead[y] <=> Dearer(x, y)
  OBVIOUS
<1>2. /\ \A x \in S : ~Dearer(x, x)
      /\ \A x, y \in S : x # y => Dearer(x, y) \/ Dearer(y, x)
      /\ \A x, y, z \in S : Dearer(x, y) /\ Dearer(y, z) => Dearer(x, z)
  BY DearerIsOrder DEF Rankable
<1>3. \A x, y \in S : x \in ahead[y] => ahead[x] \subseteq ahead[y]
  BY <1>1, <1>2
<1>4. /\ \A x \in S : x \notin ahead[x]
      /\ \A x, y \in S : x # y => x \in ahead[y] \/ y \in ahead[x]
  BY <1>1, <1>2
<1> HIDE DEF ahead
<1>5. PICK list \in SetToSeqs(S) : \A i, j \in DOMAIN list : i < j => list[i] \in ahead[list[j]]
  BY <1>1, <1>3, <1>4, SortedExists DEF Rankable
<1>6. \A i \in DOMAIN list : list[i] \in S
  BY DEF SetToSeqs
<1>7. \A i, j \in DOMAIN list : i < j => Dearer(list[i], list[j])
  BY <1>1, <1>5, <1>6
<1> QED
  BY <1>7 DEF Sorted

LEMMA SortedByVolume ==
    ASSUME NEW S, Rankable(S)
    PROVE  /\ Sorted(S, MoreTraded) \in SetToSeqs(S)
           /\ \A i, j \in DOMAIN Sorted(S, MoreTraded) :
                  i < j => MoreTraded(Sorted(S, MoreTraded)[i], Sorted(S, MoreTraded)[j])
<1> DEFINE ahead == [y \in S |-> {x \in S : MoreTraded(x, y)}]
<1>1. /\ ahead \in [S -> SUBSET S]
      /\ \A x, y \in S : x \in ahead[y] <=> MoreTraded(x, y)
  OBVIOUS
<1>2. /\ \A x \in S : ~MoreTraded(x, x)
      /\ \A x, y \in S : x # y => MoreTraded(x, y) \/ MoreTraded(y, x)
      /\ \A x, y, z \in S : MoreTraded(x, y) /\ MoreTraded(y, z) => MoreTraded(x, z)
  BY MoreTradedIsOrder DEF Rankable
<1>3. \A x, y \in S : x \in ahead[y] => ahead[x] \subseteq ahead[y]
  BY <1>1, <1>2
<1>4. /\ \A x \in S : x \notin ahead[x]
      /\ \A x, y \in S : x # y => x \in ahead[y] \/ y \in ahead[x]
  BY <1>1, <1>2
<1> HIDE DEF ahead
<1>5. PICK list \in SetToSeqs(S) : \A i, j \in DOMAIN list : i < j => list[i] \in ahead[list[j]]
  BY <1>1, <1>3, <1>4, SortedExists DEF Rankable
<1>6. \A i \in DOMAIN list : list[i] \in S
  BY DEF SetToSeqs
<1>7. \A i, j \in DOMAIN list : i < j => MoreTraded(list[i], list[j])
  BY <1>1, <1>5, <1>6
<1> QED
  BY <1>7 DEF Sorted

-----------------------------------------------------------------------------
(* Rows as they are read back, and what the rates of them look like.       *)
AmountsRead == [Fields -> Nat]
Rows        == [itemA : Paths, a : AmountsRead, itemB : Paths, b : AmountsRead]
RateFields  == {"quote", "vwap", "low", "high", "baseVol", "via"}

RatesOf(rates) ==
    /\ DOMAIN rates \subseteq Paths
    /\ \A id \in DOMAIN rates : /\ IsRate(rates[id]) /\ rates[id].quote = id
                                /\ DOMAIN rates[id] = RateFields

(* The rate of what was traded on both sides: its range has a lower and an *)
(* upper end, also when a bound does not count.                            *)
LEMMA RateOf ==
    ASSUME NEW base \in AmountsRead, NEW quote \in AmountsRead, Rated(base, quote),
           NEW id \in Paths
    PROVE  /\ IsRate(computeRate(id, base, quote)) /\ computeRate(id, base, quote).quote = id
           /\ computeRate(id, base, quote).vwap = <<quote.volume, base.volume>>
           /\ DOMAIN computeRate(id, base, quote) = RateFields
<1> DEFINE r      == computeRate(id, base, quote)
           vwap   == <<quote.volume, base.volume>>
           bounds == {<<quote[b], base[b]>> : b \in {c \in {"low", "high"} : base[c] # 0}}
           spread == IF bounds = {} THEN {vwap} ELSE bounds
<1>1. /\ r.quote = id /\ r.vwap = vwap /\ r.baseVol = base.volume
      /\ r.low = Least(spread) /\ r.high = Greatest(spread)
      /\ DOMAIN r = RateFields
  BY DEF computeRate, RateFields
<1>2. base.volume \in Positives /\ quote.volume \in Positives
  BY DEF AmountsRead, Fields, Rated, Positives
<1>3. vwap \in Fractions /\ vwap \in Bounds
  BY <1>2 DEF Fractions, Bounds, Positives
<1>4. bounds \in SUBSET Bounds
  BY DEF AmountsRead, Fields, Bounds, Positives
<1>5. IsFiniteSet(bounds)
  <2>1. bounds \in SUBSET ({<<quote["low"], base["low"]>>} \union {<<quote["high"], base["high"]>>})
    OBVIOUS
  <2>2. IsFiniteSet({<<quote["low"], base["low"]>>}
                        \union {<<quote["high"], base["high"]>>})
    BY FS_Singleton, FS_Union
  <2> HIDE DEF bounds
  <2> QED
    BY <2>1, <2>2, FS_Subset
<1> HIDE DEF bounds
<1>6. spread \in SUBSET Bounds /\ IsFiniteSet(spread) /\ spread # {}
  BY <1>3, <1>4, <1>5, FS_Singleton
<1> HIDE DEF spread
<1>7. /\ Least(spread) \in Bounds /\ Greatest(spread) \in Bounds
      /\ ~Less(Greatest(spread), Least(spread))
  BY <1>6, Extremes
<1> HIDE DEF r
<1>8. IsRate(r)
  BY <1>1, <1>2, <1>3, <1>7, AnswersAssumption DEF IsRate, Positives
<1> QED
  BY <1>1, <1>8 DEF r

LEMMA DirectRatesOf ==
    ASSUME NEW rows \in SUBSET Rows, NEW base \in Paths
    PROVE  RatesOf(currencyRatesFrom(rows, base))
<1> DEFINE quotesOf  == {QuoteOf(row, base) : row \in {r \in rows : base \in {r.itemA, r.itemB}}}
           rated     == {q \in quotesOf : Rated(q.base, q.quote)}
           rowOf(id) == CHOOSE q \in rated : q.id = id
           rates     == currencyRatesFrom(rows, base)
<1>1. rates = [id \in {q.id : q \in rated} |-> computeRate(id, rowOf(id).base, rowOf(id).quote)]
  BY DEF currencyRatesFrom
<1>2. ASSUME NEW q \in rated
      PROVE  /\ q.id \in Paths /\ q.base \in AmountsRead /\ q.quote \in AmountsRead
             /\ Rated(q.base, q.quote)
  <2>1. PICK row \in rows : q = QuoteOf(row, base)
    OBVIOUS
  <2>2. row \in Rows
    OBVIOUS
  <2> QED
    BY <2>1, <2>2 DEF QuoteOf, Rows
<1> HIDE DEF rated, rates
<1>3. ASSUME NEW id \in DOMAIN rates
      PROVE  /\ id \in Paths /\ IsRate(rates[id]) /\ rates[id].quote = id
             /\ DOMAIN rates[id] = RateFields
  <2>1. PICK q \in rated : q.id = id
    BY <1>1
  <2>2. rowOf(id) \in rated /\ rowOf(id).id = id
    BY <2>1
  <2> DEFINE r == rowOf(id)
  <2>3. rates[id] = computeRate(id, r.base, r.quote)
    BY <1>1, <2>1
  <2> HIDE DEF r
  <2>4. /\ r.base \in AmountsRead /\ r.quote \in AmountsRead /\ Rated(r.base, r.quote)
        /\ id \in Paths
    BY <1>2, <2>2 DEF r
  <2> QED
    BY <2>3, <2>4, RateOf
<1> QED
  BY <1>3 DEF RatesOf, rates

LEMMA RatesByIDOf ==
    ASSUME NEW rows \in SUBSET Rows, NEW base \in Paths, NEW via \in Seq(Paths)
    PROVE  /\ RatesOf(RatesByID(rows, base, via))
           /\ \A id \in DOMAIN currencyRatesFrom(rows, base) :
                  /\ id \in DOMAIN RatesByID(rows, base, via)
                  /\ RatesByID(rows, base, via)[id] = currencyRatesFrom(rows, base)[id]
<1> DEFINE direct   == currencyRatesFrom(rows, base)
           firsts   == {j \in DOMAIN via : via[j] \in DOMAIN direct}
           onward   == [i \in firsts |-> currencyRatesFrom(rows, via[i])]
           reach(i) == DOMAIN onward[i] \ {base}
           legs(id) == {i \in DOMAIN onward : id \in reach(i)}
           leg(id)  == Min(legs(id))
           rates    == RatesByID(rows, base, via)
<1>1. rates = [id \in DOMAIN direct \union UNION {reach(i) : i \in DOMAIN onward} |->
                  IF id \in DOMAIN direct THEN direct[id]
                  ELSE Chain(direct[via[leg(id)]], onward[leg(id)][id])]
  BY DEF RatesByID
<1>2. RatesOf(direct)
  BY DirectRatesOf
<1>3. /\ DOMAIN onward = firsts /\ firsts \subseteq Nat
      /\ \A i \in firsts : via[i] \in DOMAIN direct /\ via[i] \in Paths
  OBVIOUS
<1>4. ASSUME NEW i \in firsts PROVE RatesOf(onward[i])
  BY <1>3, <1>4, DirectRatesOf
<1> HIDE DEF direct, firsts, onward, rates
<1>5. ASSUME NEW id \in DOMAIN rates, id \in DOMAIN direct PROVE rates[id] = direct[id]
  BY <1>1, <1>5
<1>6. ASSUME NEW id \in DOMAIN rates, id \notin DOMAIN direct
      PROVE  /\ id \in Paths /\ IsRate(rates[id]) /\ rates[id].quote = id
             /\ DOMAIN rates[id] = RateFields
  <2>1. PICK i \in firsts : id \in reach(i)
    BY <1>1, <1>3, <1>6
  <2>2. legs(id) \in SUBSET Nat /\ legs(id) # {}
    BY <1>3, <2>1
  <2>3. leg(id) \in legs(id)
    <3> HIDE DEF legs
    <3> QED
      BY <2>2, MinIn
  <2>4. PICK k : k = leg(id)
    OBVIOUS
  <2>5. k \in firsts /\ id \in DOMAIN onward[k]
    BY <1>3, <2>3, <2>4
  <2> DEFINE first  == direct[via[k]]
             second == onward[k][id]
  <2>6. rates[id] = Chain(first, second)
    BY <1>1, <1>6, <2>4
  <2>7. IsRate(first) /\ IsRate(second) /\ second.quote = id /\ id \in Paths
        /\ DOMAIN second = RateFields
    BY <1>2, <1>3, <1>4, <2>5 DEF RatesOf
  <2> HIDE DEF first, second
  <2>8. /\ rates[id].quote = second.quote /\ rates[id].baseVol = second.baseVol
        /\ rates[id].vwap = Times(first.vwap, second.vwap)
        /\ rates[id].low = Times(first.low, second.low)
        /\ rates[id].high = Times(first.high, second.high)
        /\ DOMAIN rates[id] = RateFields
    BY <2>6, <2>7 DEF Chain, RateFields
  <2>9. /\ Times(first.vwap, second.vwap) \in Fractions
        /\ Times(first.low, second.low) \in Bounds /\ Times(first.high, second.high) \in Bounds
        /\ ~Less(Times(first.high, second.high), Times(first.low, second.low))
    BY <2>7, TimesKeepsOrder, FractionsTimes DEF IsRate
  <2> QED
    BY <2>7, <2>8, <2>9 DEF IsRate
<1>7. RatesOf(rates)
  BY <1>2, <1>5, <1>6 DEF RatesOf
<1>8. ASSUME NEW id \in DOMAIN direct PROVE id \in DOMAIN rates /\ rates[id] = direct[id]
  BY <1>1, <1>8
<1> QED
  BY <1>7, <1>8 DEF rates, direct

-----------------------------------------------------------------------------
(* The rates that pass the filter can be put in order.                     *)
LEMMA FilteredOf ==
    ASSUME NEW rates, RatesOf(rates), NEW cats
    PROVE  /\ Rankable(filtered(rates, cats))
           /\ Cardinality(filtered(rates, cats)) <= Cardinality(Paths)
<1> DEFINE D == {i \in DOMAIN rates : keep(cats, i)}
           S == filtered(rates, cats)
           f == [id \in D |-> rates[id]]
<1>1. D \subseteq Paths /\ S = {rates[id] : id \in D}
  BY DEF RatesOf, filtered
<1>2. IsFiniteSet(D) /\ Cardinality(D) <= Cardinality(Paths)
  <2> HIDE DEF D
  <2> QED
    BY <1>1, FS_Subset, AnswersAssumption
<1>3. f \in Surjection(D, S)
  <2> HIDE DEF D, S
  <2> QED
    BY <1>1 DEF Surjection
<1>4. IsFiniteSet(S) /\ Cardinality(S) <= Cardinality(D)
  <2> HIDE DEF D, S, f
  <2> QED
    BY <1>2, <1>3, FS_Surjection
<1>5. \A x \in S : IsRate(x)
  BY <1>1 DEF RatesOf
<1>6. \A x, y \in S : x.quote = y.quote => x = y
  BY <1>1 DEF RatesOf
<1>7. Cardinality(S) <= Cardinality(Paths)
  <2>1. Cardinality(S) \in Nat /\ Cardinality(D) \in Nat /\ Cardinality(Paths) \in Nat
    <3> HIDE DEF D, S
    <3> QED
      BY <1>2, <1>4, FS_CardinalityType, AnswersAssumption
  <2> HIDE DEF D, S
  <2> QED
    BY <1>2, <1>4, <2>1
<1> QED
  BY <1>4, <1>5, <1>6, <1>7 DEF Rankable

(* A sequence of all the elements of a finite set leaves none out.         *)
LEMMA SeqOfSet ==
    ASSUME NEW S, IsFiniteSet(S), NEW list \in SetToSeqs(S)
    PROVE  /\ list \in Seq(S) /\ Len(list) = Cardinality(S) /\ Len(list) \in Nat
           /\ \A x \in S : \E i \in 1 .. Len(list) : list[i] = x
<1> DEFINE n == Cardinality(S)
<1>1. n \in Nat
  BY FS_CardinalityType
<1>2. list \in [1 .. n -> S] /\ \A i, j \in 1 .. n : i # j => list[i] # list[j]
  BY DEF SetToSeqs
<1> HIDE DEF n
<1>3. list \in Injection(1 .. n, S)
  BY <1>2 DEF Injection, IsInjective
<1>4. IsFiniteSet(1 .. n) /\ Cardinality(1 .. n) = n
  BY <1>1, FS_Interval
<1>5. list \in Surjection(1 .. n, S)
  BY <1>3, <1>4, FS_Injection DEF n
<1>6. list \in Seq(S) /\ Len(list) = n
  BY <1>1, <1>2
<1> QED
  BY <1>1, <1>5, <1>6 DEF Surjection, n

(* The first elements of a sequence, at most limit of them.                *)
LEMMA TopOf ==
    ASSUME NEW S, NEW list \in Seq(S), NEW limit \in Nat \ {0}
    PROVE  /\ Top(list, limit) \in Seq(S) /\ Len(Top(list, limit)) <= Len(list)
           /\ Len(Top(list, limit)) = limit
              \/ (Len(Top(list, limit)) = Len(list) /\ Len(list) <= limit)
           /\ \A i \in 1 .. Len(Top(list, limit)) : Top(list, limit)[i] = list[i]
<1> DEFINE n == Min({limit, Len(list)})
<1>1. Len(list) \in Nat
  OBVIOUS
<1>2. n \in {limit, Len(list)} /\ n <= limit /\ n <= Len(list)
  <2>1. {limit, Len(list)} \in SUBSET Nat /\ {limit, Len(list)} # {}
    BY <1>1
  <2> QED
    BY <2>1, MinIn
<1>3. n \in 0 .. Len(list)
  BY <1>1, <1>2
<1>4. Top(list, limit) = SubSeq(list, 1, n)
  BY DEF Top
<1> HIDE DEF n
<1>5. /\ SubSeq(list, 1, n) \in Seq(S) /\ Len(SubSeq(list, 1, n)) = n
      /\ \A i \in 1 .. n : SubSeq(list, 1, n)[i] = list[i]
  BY <1>1, <1>3
<1> QED
  BY <1>1, <1>2, <1>3, <1>4, <1>5

(* What an answer holds: rows of Paths, the hours of Rates, and the quotes *)
(* of the pairs.                                                           *)
AnswerHolds ==
    /\ quotes \in Seq(Paths)
    /\ DOMAIN rowsByHour = byHour /\ \A h \in byHour : rowsByHour[h] \subseteq Rows
    /\ DOMAIN olderRows = older /\ \A h \in older : olderRows[h] \subseteq Rows

RatesFor(view) ==
    IF view = "PRICE" THEN RatesByID(RowsIn(rowsByHour, hour), Base, quotes)
                      ELSE currencyRatesFrom(RowsIn(rowsByHour, hour), Base)

Above(view, x, y) == IF view = "PRICE" THEN Dearer(x, y) ELSE MoreTraded(x, y)

ListFor(view, cats) ==
    IF view = "PRICE" THEN Sorted(filtered(RatesFor(view), cats), Dearer)
                      ELSE Sorted(filtered(RatesFor(view), cats), MoreTraded)

(* A ranking is the top of all rates that pass the filter, in order.       *)
LEMMA RankedIsTop ==
    ASSUME AnswerHolds, NEW view \in Views, NEW limit \in Nat, NEW cats
    PROVE  /\ RatesOf(RatesFor(view))
           /\ Ranked(view, limit, cats) = Top(ListFor(view, cats), Limit(limit))
           /\ ListFor(view, cats) \in SetToSeqs(filtered(RatesFor(view), cats))
           /\ \A i, j \in DOMAIN ListFor(view, cats) :
                  i < j => Above(view, ListFor(view, cats)[i], ListFor(view, cats)[j])
           /\ Limit(limit) \in Nat \ {0}
<1>1. RowsIn(rowsByHour, hour) \in SUBSET Rows
  BY DEF AnswerHolds, RowsIn
<1>2. RatesOf(RatesFor(view))
  BY <1>1, DirectRatesOf, RatesByIDOf, AnswersAssumption DEF RatesFor, AnswerHolds
<1>3. Ranked(view, limit, cats) = Top(ListFor(view, cats), Limit(limit))
  BY DEF Ranked, ListFor, RatesFor, RankByPrice, RankByVolume, Views
<1>4. Rankable(filtered(RatesFor(view), cats))
  BY <1>2, FilteredOf
<1>5. Limit(limit) \in Nat \ {0}
  BY AnswersAssumption DEF Limit
<1> DEFINE S    == filtered(RatesFor(view), cats)
           list == ListFor(view, cats)
<1> HIDE DEF S
<1>6. CASE view = "PRICE"
  <2>1. list = Sorted(S, Dearer)
    BY <1>6 DEF ListFor, S
  <2>2. /\ Sorted(S, Dearer) \in SetToSeqs(S)
        /\ \A i, j \in DOMAIN Sorted(S, Dearer) :
               i < j => Dearer(Sorted(S, Dearer)[i], Sorted(S, Dearer)[j])
    BY <1>4, SortedByPrice DEF S
  <2> HIDE DEF list
  <2>3. \A i, j \in DOMAIN list : i < j => Above(view, list[i], list[j])
    BY <1>6, <2>1, <2>2 DEF Above
  <2> QED
    BY <1>2, <1>3, <1>5, <2>1, <2>2, <2>3 DEF S, list
<1>7. CASE view # "PRICE"
  <2>1. list = Sorted(S, MoreTraded)
    BY <1>7 DEF ListFor, S
  <2>2. /\ Sorted(S, MoreTraded) \in SetToSeqs(S)
        /\ \A i, j \in DOMAIN Sorted(S, MoreTraded) :
               i < j => MoreTraded(Sorted(S, MoreTraded)[i], Sorted(S, MoreTraded)[j])
    BY <1>4, SortedByVolume DEF S
  <2> HIDE DEF list
  <2>3. \A i, j \in DOMAIN list : i < j => Above(view, list[i], list[j])
    BY <1>7, <2>1, <2>2 DEF Above
  <2> QED
    BY <1>2, <1>3, <1>5, <2>1, <2>2, <2>3 DEF S, list
<1> QED
  BY <1>6, <1>7

(* What was left out of a ranking is not above what is in it.              *)
LEMMA NothingAbove ==
    ASSUME AnswerHolds, NEW view \in Views, NEW limit \in Nat, NEW cats
    PROVE  LET ranked == Ranked(view, limit, cats)
               all    == {r \in Range(Ranked(view, Cardinality(Paths), {})) : keep(cats, r.quote)}
           IN  \A r \in all \ Range(ranked) :
                   /\ Len(ranked) = Limit(limit)
                   /\ \A s \in Range(ranked) : s \in all /\ Above(view, s, r)
<1> DEFINE n       == Cardinality(Paths)
           rates   == RatesFor(view)
           S(c)    == filtered(rates, c)
           list(c) == ListFor(view, c)
           whole   == Ranked(view, n, {})
           ranked  == Ranked(view, limit, cats)
           all     == {r \in Range(whole) : keep(cats, r.quote)}
<1>1. n \in Nat /\ n # 0
  BY FS_CardinalityType, FS_EmptySet, AnswersAssumption
<1>2. Limit(n) = n
  BY <1>1 DEF Limit
<1>3. RatesOf(rates)
  BY RankedIsTop
<1>4. \A c : IsFiniteSet(S(c)) /\ Cardinality(S(c)) <= n
  BY <1>3, FilteredOf DEF Rankable
<1>5. ASSUME NEW c
      PROVE  /\ list(c) \in Seq(S(c)) /\ Len(list(c)) = Cardinality(S(c))
             /\ Len(list(c)) \in Nat
             /\ \A x \in S(c) : \E i \in 1 .. Len(list(c)) : list(c)[i] = x
             /\ \A i, j \in 1 .. Len(list(c)) : i < j => Above(view, list(c)[i], list(c)[j])
  <2>1. /\ list(c) \in SetToSeqs(S(c))
        /\ \A i, j \in DOMAIN list(c) : i < j => Above(view, list(c)[i], list(c)[j])
    BY RankedIsTop
  <2> HIDE DEF S, list
  <2>2. /\ list(c) \in Seq(S(c)) /\ Len(list(c)) = Cardinality(S(c))
        /\ Len(list(c)) \in Nat
        /\ \A x \in S(c) : \E i \in 1 .. Len(list(c)) : list(c)[i] = x
    BY <1>4, <2>1, SeqOfSet
  <2>3. DOMAIN list(c) = 1 .. Len(list(c))
    BY <2>2
  <2> QED
    BY <2>1, <2>2, <2>3
<1>6. whole = Top(list({}), n)
  BY <1>1, <1>2, RankedIsTop
<1>7. ranked = Top(list(cats), Limit(limit)) /\ Limit(limit) \in Nat \ {0}
  BY RankedIsTop
<1> HIDE DEF list, n, whole, ranked
<1>8. Range(whole) = S({})
  <2>1. /\ whole \in Seq(S({})) /\ Len(whole) = Len(list({}))
        /\ \A i \in 1 .. Len(whole) : whole[i] = list({})[i]
    <3> HIDE DEF S
    <3>1. n \in Nat \ {0} /\ Len(list({})) <= n
      BY <1>1, <1>4, <1>5
    <3>2. list({}) \in Seq(S({})) /\ Len(list({})) \in Nat
      BY <1>5
    <3>3. /\ whole \in Seq(S({}))
          /\ Len(whole) <= Len(list({}))
          /\ Len(whole) = n \/ Len(whole) = Len(list({}))
          /\ \A i \in 1 .. Len(whole) : whole[i] = list({})[i]
      BY <1>6, <3>1, <3>2, TopOf
    <3> QED
      BY <3>1, <3>2, <3>3
  <2> DEFINE full == list({})
  <2>2. /\ full \in Seq(S({})) /\ Len(full) \in Nat
        /\ \A x \in S({}) : \E i \in 1 .. Len(full) : full[i] = x
    <3> HIDE DEF S
    <3> QED
      BY <1>5
  <2>3. Range(whole) = {whole[i] : i \in 1 .. Len(whole)}
    <3> HIDE DEF S
    <3> QED
      BY <2>1, RangeEquality
  <2> HIDE DEF S, full
  <2>4. \A i \in 1 .. Len(full) : full[i] \in S({})
    BY <2>2
  <2>5. Len(whole) = Len(full) /\ \A i \in 1 .. Len(full) : whole[i] = full[i]
    BY <2>1 DEF full
  <2> QED
    BY <2>2, <2>3, <2>4, <2>5
<1>9. all = S(cats)
  <2>1. S({}) = {rates[id] : id \in DOMAIN rates}
    BY DEF filtered, keep
  <2>2. \A id \in DOMAIN rates : rates[id].quote = id
    BY <1>3 DEF RatesOf
  <2> HIDE DEF rates
  <2> QED
    BY <1>8, <2>1, <2>2 DEF filtered
<1>10. /\ ranked \in Seq(S(cats)) /\ Len(ranked) <= Len(list(cats))
       /\ Len(ranked) = Limit(limit) \/ Len(ranked) = Len(list(cats))
       /\ \A i \in 1 .. Len(ranked) : ranked[i] = list(cats)[i]
  <2> HIDE DEF S
  <2> QED
    BY <1>5, <1>7, TopOf
<1> HIDE DEF S, all
<1>11. DOMAIN ranked = 1 .. Len(ranked) /\ Len(ranked) \in Nat
  BY <1>10
<1>12. ASSUME NEW r \in all \ Range(ranked)
       PROVE  /\ Len(ranked) = Limit(limit)
              /\ \A s \in Range(ranked) : s \in all /\ Above(view, s, r)
  <2>1. PICK k \in 1 .. Len(list(cats)) : list(cats)[k] = r
    BY <1>5, <1>9, <1>12
  <2>2. ~(k <= Len(ranked))
    BY <1>10, <1>11, <1>12, <2>1 DEF Range
  <2>3. Len(ranked) = Limit(limit)
    BY <1>5, <1>10, <1>11, <2>1, <2>2
  <2>4. ASSUME NEW s \in Range(ranked) PROVE s \in all /\ Above(view, s, r)
    <3>1. PICK i \in 1 .. Len(ranked) : s = ranked[i]
      BY <1>11, <2>4 DEF Range
    <3>2. s = list(cats)[i] /\ i \in 1 .. Len(list(cats)) /\ i < k
      <4>1. Len(list(cats)) \in Nat /\ s = list(cats)[i]
        BY <1>5, <1>10, <3>1
      <4> QED
        BY <1>10, <1>11, <2>2, <4>1
    <3>3. Above(view, s, r)
      BY <1>5, <2>1, <3>2
    <3>4. s \in all
      BY <1>9, <1>10, <1>11, <3>1
    <3> QED
      BY <3>3, <3>4
  <2> QED
    BY <2>3, <2>4
<1> QED
  BY <1>12 DEF all, whole, ranked, n

(* No rows, no rates.                                                      *)
LEMMA NoRowsNoRates ==
    ASSUME NEW base, NEW via
    PROVE  DOMAIN currencyRatesFrom({}, base) = {} /\ DOMAIN RatesByID({}, base, via) = {}
<1>1. DOMAIN currencyRatesFrom({}, base) = {}
  BY DEF currencyRatesFrom
<1> DEFINE direct   == currencyRatesFrom({}, base)
           onward   == [i \in {j \in DOMAIN via : via[j] \in DOMAIN direct} |->
                           currencyRatesFrom({}, via[i])]
           reach(i) == DOMAIN onward[i] \ {base}
<1>2. DOMAIN RatesByID({}, base, via) = DOMAIN direct \union UNION {reach(i) : i \in DOMAIN onward}
  BY DEF RatesByID
<1>3. DOMAIN onward = {}
  BY <1>1
<1> QED
  BY <1>1, <1>2, <1>3

(* What an answer says of one currency: its rate, and a trend whose points *)
(* are the rates of the hours read, the last of them the rate itself and   *)
(* that of the hour before the rate it is compared with.                   *)
LEMMA AnswerRate ==
    ASSUME AnswerHolds, hour \in Int, byHour \subseteq Hours,
           NEW view \in Views, NEW limit \in Nat, NEW cats,
           NEW r \in Range(Response(view, limit, cats))
    PROVE  /\ r.vwap \in Fractions /\ r.low \in Bounds /\ r.high \in Bounds
           /\ ~Less(r.high, r.low)
           /\ r.prev \in Fractions \union {Zero}
           /\ DOMAIN r.trend = 1 .. trendHours
           /\ Last(r.trend) = r.vwap /\ r.trend[trendHours] = r.vwap
           /\ \A i \in 1 .. trendHours :
                  /\ r.trend[i] \in Fractions \union {Zero}
                  /\ TrendHours[i] \notin byHour => r.trend[i] = Zero
                  /\ TrendHours[i] = prev /\ prev \in byHour => r.trend[i] = r.prev
<1> DEFINE ranked == Ranked(view, limit, cats)
           rates  == RatesFor(view)
           S      == filtered(rates, cats)
           at(h)  == RatesByID(rowsByHour[h], Base, quotes)
<1>1. PICK k \in DOMAIN ranked : r = RankedRate(ranked[k], previousRates)
  BY DEF Response, Range
<1>2. ranked[k] \in S /\ RatesOf(rates)
  <2>1. /\ RatesOf(rates) /\ ranked = Top(ListFor(view, cats), Limit(limit))
        /\ Limit(limit) \in Nat \ {0} /\ ListFor(view, cats) \in SetToSeqs(S)
    BY RankedIsTop
  <2>2. IsFiniteSet(S)
    BY <2>1, FilteredOf DEF Rankable
  <2> HIDE DEF S, rates
  <2>3. ListFor(view, cats) \in Seq(S)
    BY <2>1, <2>2, SeqOfSet
  <2>4. ranked \in Seq(S)
    BY <2>1, <2>3, TopOf
  <2> HIDE DEF ranked
  <2> QED
    BY <2>1, <2>4
<1>3. PICK id \in DOMAIN rates : ranked[k] = rates[id]
  BY <1>2 DEF filtered
<1>4. rates[id].quote = id
  BY <1>2 DEF RatesOf
<1> HIDE DEF ranked, rates
<1>5. /\ r.vwap = rates[id].vwap /\ r.low = rates[id].low /\ r.high = rates[id].high
      /\ r.prev = VwapOf(previousRates, id)
      /\ r.trend = Trend(rowsByHour, TrendHours, Base, quotes, id)
  BY <1>1, <1>3, <1>4 DEF RankedRate
<1>6. /\ DOMAIN TrendHours = 1 .. trendHours /\ TrendHours[trendHours] = hour
      /\ trendHours \in Nat \ {0}
  BY RatesAssumption DEF TrendHours
<1>7. /\ DOMAIN r.trend = 1 .. trendHours
      /\ \A i \in 1 .. trendHours :
             r.trend[i] = IF TrendHours[i] \in DOMAIN rowsByHour
                          THEN VwapOf(at(TrendHours[i]), id) ELSE Zero
  BY <1>5, <1>6 DEF Trend
<1>8. Last(r.trend) = r.trend[trendHours]
  <2>1. r.trend = [i \in 1 .. trendHours |->
                      IF TrendHours[i] \in DOMAIN rowsByHour
                      THEN VwapOf(at(TrendHours[i]), id) ELSE Zero]
    BY <1>5, <1>6 DEF Trend
  <2> DEFINE V == {r.trend[i] : i \in 1 .. trendHours}
  <2>2. r.trend \in [1 .. trendHours -> V]
    BY <2>1
  <2>3. Len(r.trend) = trendHours
    <3> HIDE DEF V
    <3> QED
      BY <1>6, <2>2
  <2> QED
    BY <2>3 DEF Last
<1>9. hour \in byHour
  <2>1. RowsIn(rowsByHour, hour) # {}
    BY NoRowsNoRates DEF rates, RatesFor
  <2> QED
    BY <2>1 DEF RowsIn, AnswerHolds
<1>10. id \in DOMAIN at(hour) /\ at(hour)[id] = rates[id]
  <2>1. RowsIn(rowsByHour, hour) = rowsByHour[hour] /\ rowsByHour[hour] \in SUBSET Rows
    BY <1>9 DEF RowsIn, AnswerHolds
  <2>2. \A i \in DOMAIN currencyRatesFrom(rowsByHour[hour], Base) :
            i \in DOMAIN at(hour) /\ at(hour)[i] = currencyRatesFrom(rowsByHour[hour], Base)[i]
    BY <2>1, RatesByIDOf, AnswersAssumption DEF AnswerHolds
  <2> HIDE DEF at
  <2>3. CASE view = "PRICE"
    BY <2>1, <2>3 DEF rates, RatesFor, at
  <2>4. CASE view # "PRICE"
    BY <2>1, <2>2, <2>4 DEF rates, RatesFor
  <2> QED
    BY <2>3, <2>4
<1> HIDE DEF at
<1>11. Last(r.trend) = r.vwap /\ r.trend[trendHours] = r.vwap
  <2>1. r.trend[trendHours] = VwapOf(at(hour), id)
    BY <1>6, <1>7, <1>9 DEF AnswerHolds
  <2>2. r.trend[trendHours] = r.vwap
    BY <1>5, <1>10, <2>1 DEF VwapOf
  <2> QED
    BY <1>8, <2>2
<1>12. ASSUME NEW i \in 1 .. trendHours, TrendHours[i] = prev, prev \in byHour
       PROVE  r.trend[i] = r.prev
  <2>1. prev # NoHour
    BY <1>12 DEF Hours, NoHour
  <2>2. previousRates = at(prev)
    BY <1>12, <2>1 DEF previousRates, AnswerHolds, at
  <2>3. r.trend[i] = VwapOf(at(prev), id)
    BY <1>7, <1>12 DEF AnswerHolds
  <2> QED
    BY <1>5, <2>2, <2>3
<1>13. ASSUME NEW any, RatesOf(any) PROVE VwapOf(any, id) \in Fractions \union {Zero}
  BY <1>13 DEF VwapOf, RatesOf, IsRate
<1>14. ASSUME NEW i \in 1 .. trendHours
       PROVE  /\ r.trend[i] \in Fractions \union {Zero}
              /\ TrendHours[i] \notin byHour => r.trend[i] = Zero
  <2>1. CASE TrendHours[i] \in byHour
    <3>1. rowsByHour[TrendHours[i]] \in SUBSET Rows
      BY <2>1 DEF AnswerHolds
    <3>2. RatesOf(at(TrendHours[i]))
      BY <3>1, RatesByIDOf, AnswersAssumption DEF at, AnswerHolds
    <3> QED
      BY <1>7, <1>13, <2>1, <3>2 DEF AnswerHolds
  <2>2. CASE TrendHours[i] \notin byHour
    BY <1>7, <2>2 DEF AnswerHolds
  <2> QED
    BY <2>1, <2>2
<1>15. r.prev \in Fractions \union {Zero}
  <2>1. CASE prev = NoHour
    BY <1>5, <2>1 DEF previousRates, VwapOf
  <2>2. CASE prev # NoHour
    <3> DEFINE rows == IF prev \in DOMAIN rowsByHour THEN rowsByHour[prev]
                                                     ELSE RowsIn(olderRows, prev)
    <3>1. rows \in SUBSET Rows
      BY DEF AnswerHolds, RowsIn
    <3>2. previousRates = RatesByID(rows, Base, quotes)
      BY <2>2 DEF previousRates
    <3> HIDE DEF rows
    <3>3. RatesOf(previousRates)
      BY <3>1, <3>2, RatesByIDOf, AnswersAssumption DEF AnswerHolds
    <3> QED
      BY <1>5, <1>13, <3>3
  <2> QED
    BY <2>1, <2>2
<1>16. IsRate(rates[id])
  BY <1>2 DEF RatesOf, rates
<1> QED
  BY <1>5, <1>7, <1>11, <1>12, <1>14, <1>15, <1>16 DEF IsRate

-----------------------------------------------------------------------------
(* A row of the tables: the ids of two paths, and int64 numbers.           *)
Recorded(row) ==
    /\ \E p, q \in Paths : row.itemA = ids[p] /\ row.itemB = ids[q]
    /\ row.sideA.amount \in [Fields -> Int] /\ row.sideB.amount \in [Fields -> Int]

(* The invariant behind AnswersCoherent: what the rates are computed from. *)
AnswerKnows ==
    /\ ids \in IdOrders /\ quotes \in PairOrders
    /\ \A row \in table : Recorded(row)
    /\ AnswerHolds

(* A row of the tables reads as a row of the rates: whatever the stored    *)
(* numbers are, those that are read are not negative.                      *)
LEMMA RowRead ==
    ASSUME ids \in IdOrders, NEW row, Recorded(row)
    PROVE  toSnapshotRow(row) \in Rows
<1>1. ids \in [Paths -> Nat \ {0}] /\ \A p, q \in Paths : ids[p] = ids[q] => p = q
  BY AnswersAssumption DEF Injection, IsInjective
<1>2. \A p \in Paths : (CHOOSE q \in Paths : ids[q] = ids[p]) \in Paths
  OBVIOUS
<1>3. PICK p, q \in Paths : row.itemA = ids[p] /\ row.itemB = ids[q]
  BY DEF Recorded
<1>4. ASSUME NEW amount \in [Fields -> Int] PROVE Converted(amount, Uint64) \in AmountsRead
  <2>1. \A n \in Int : Uint64(n) \in Nat
    <3>1. 2 * HalfRange \in Nat \ {0}
      BY AnswersAssumption
    <3> QED
      BY <3>1 DEF Uint64
  <2> QED
    BY <2>1 DEF Converted, AmountsRead
<1> QED
  BY <1>2, <1>3, <1>4 DEF toSnapshotRow, Rows, Recorded

(* So does every hour that is read.                                        *)
LEMMA HoursRead ==
    ASSUME AnswerKnows, NEW hours
    PROVE  /\ DOMAIN toSnapshotRowsByHour(hours) = hours
           /\ \A h \in hours : toSnapshotRowsByHour(hours)[h] \subseteq Rows
<1>1. \A row \in Rateable(table, placeholder) : toSnapshotRow(row) \in Rows
  BY RowRead DEF Rateable, AnswerKnows
<1> QED
  BY <1>1 DEF toSnapshotRowsByHour

(* An ingest of a digest leaves such rows in the tables.                   *)
LEMMA IngestRecords ==
    ASSUME AnswerKnows, NEW h \in Hours, NEW digest \in Digests, IngestHour(h, digest)
    PROVE  \A row \in table' : Recorded(row)
<1> DEFINE kept == AsStored(digest)
<1>1. /\ ids' = ids
      /\ table' = Store!UpsertRows(table, Store!FinalRows(h, kept, ids))
  BY DEF IngestHour, Store!Ingest
<1>2. ids \in [Paths -> Nat \ {0}]
  BY AnswersAssumption DEF Injection, AnswerKnows
<1>3. ASSUME NEW i \in Store!Accepted(kept)
      PROVE  Recorded(Store!RowOf(h, kept[i], ids))
  <2>1. /\ i \in DOMAIN digest /\ digest[i].pair \in Seq(Paths)
        /\ digest[i].amounts \in [Paths -> [Fields -> Numbers]]
        /\ DOMAIN digest[i] = {"league", "pair", "amounts"}
    <3>1. i \in DOMAIN digest
      BY <1>3 DEF Store!Accepted, AsStored
    <3> DEFINE M == [league : {League}, pair : Seq(Paths),
                     amounts : [Paths -> [Fields -> Numbers]]]
    <3>2. digest \in Seq(M)
      BY AnswersAssumption
    <3>3. digest[i] \in M
      <4> HIDE DEF M
      <4> QED
        BY <3>1, <3>2
    <3> QED
      BY <3>1, <3>3
  <2>2. /\ kept[i].pair = digest[i].pair /\ Len(kept[i].pair) = 2
        /\ kept[i].amounts = [p \in Paths |-> Converted(digest[i].amounts[p], Int64)]
    BY <1>3, <2>1 DEF Store!Accepted, Store!WellFormed, AsStored
  <2>3. PICK p, q \in Paths : kept[i].pair[1] = p /\ kept[i].pair[2] = q
    BY <2>1, <2>2
  <2>4. \A x \in Paths : kept[i].amounts[x] \in [Fields -> Int]
    <3>1. \A n \in Numbers : Int64(n) \in Int
      BY AnswersAssumption DEF Numbers, Int64
    <3> QED
      BY <2>1, <2>2, <3>1 DEF Converted
  <2>5. PICK m : m = kept[i]
    OBVIOUS
  <2>6. PICK row : row = Store!RowOf(h, m, ids)
    OBVIOUS
  <2> HIDE DEF kept
  <2>7. /\ m.pair[1] = p /\ m.pair[2] = q
        /\ m.amounts[p] \in [Fields -> Int] /\ m.amounts[q] \in [Fields -> Int]
    BY <2>3, <2>4, <2>5
  <2>8. CASE ids[p] > ids[q]
    <3>1. /\ row.itemA = ids[q] /\ row.itemB = ids[p]
          /\ row.sideA.amount = m.amounts[q] /\ row.sideB.amount = m.amounts[p]
      BY <2>6, <2>7, <2>8 DEF Store!RowOf, Store!Side
    <3> QED
      BY <2>5, <2>6, <2>7, <3>1 DEF Recorded
  <2>9. CASE ~(ids[p] > ids[q])
    <3>1. /\ row.itemA = ids[p] /\ row.itemB = ids[q]
          /\ row.sideA.amount = m.amounts[p] /\ row.sideB.amount = m.amounts[q]
      BY <2>6, <2>7, <2>9 DEF Store!RowOf, Store!Side
    <3> QED
      BY <2>5, <2>6, <2>7, <3>1 DEF Recorded
  <2> QED
    BY <2>8, <2>9
<1>4. \A row \in table' : row \in table \/ \E i \in Store!Accepted(kept) :
                                                row = Store!RowOf(h, kept[i], ids)
  BY <1>1 DEF Store!UpsertRows, Store!FinalRows
<1> QED
  BY <1>3, <1>4 DEF AnswerKnows

LEMMA AnswerInit == AnswersInit => AnswerKnows
BY AnswersAssumption DEF AnswersInit, Init, AnswerKnows, AnswerHolds, NoRows

LEMMA AnswerStep == AnswerKnows /\ [AnswersNext]_answersVars => AnswerKnows'
<1> SUFFICES ASSUME AnswerKnows, [AnswersNext]_answersVars PROVE AnswerKnows'
  OBVIOUS
<1>1. CASE LoadRatePairs
  <2>1. byHour' = {} /\ older' = {} /\ rowsByHour' = NoRows /\ olderRows' = NoRows
    BY <1>1 DEF LoadRatePairs, Begin
  <2>2. ids' = ids /\ quotes' = quotes /\ table' = table
    BY <1>1 DEF LoadRatePairs, book
  <2> QED
    BY <2>1, <2>2 DEF AnswerKnows, AnswerHolds, NoRows, Recorded
<1>2. CASE ReadRange
  <2>1. /\ rowsByHour' = toSnapshotRowsByHour(byHour') /\ older' = older
        /\ olderRows' = olderRows /\ ids' = ids /\ quotes' = quotes /\ table' = table
    BY <1>2 DEF ReadRange, ListSnapshotRates, book
  <2>2. DOMAIN rowsByHour' = byHour' /\ \A h \in byHour' : rowsByHour'[h] \subseteq Rows
    BY <2>1, HoursRead
  <2> QED
    BY <2>1, <2>2 DEF AnswerKnows, AnswerHolds, Recorded
<1>3. CASE ReadOlder
  <2>1. /\ olderRows' = toSnapshotRowsByHour(older') /\ byHour' = byHour
        /\ rowsByHour' = rowsByHour /\ ids' = ids /\ quotes' = quotes /\ table' = table
    BY <1>3 DEF ReadOlder, ListOlderRates, book
  <2>2. DOMAIN olderRows' = older' /\ \A h \in older' : olderRows'[h] \subseteq Rows
    BY <2>1, HoursRead
  <2> QED
    BY <2>1, <2>2 DEF AnswerKnows, AnswerHolds, Recorded
<1>4. CASE OtherStep
  <2>1. byHour' = byHour /\ older' = older
    BY <1>4 DEF OtherStep, LatestSnapshotHour, PreviousSnapshotHour, Respond, Fail
  <2>2. UNCHANGED <<ids, quotes, table, rowsByHour, olderRows>>
    BY <1>4 DEF OtherStep, book, answer
  <2> QED
    BY <2>1, <2>2 DEF AnswerKnows, AnswerHolds, Recorded
<1>5. ASSUME NEW h \in Hours, NEW digest \in Digests, IngestHour(h, digest)
      PROVE  AnswerKnows'
  <2>1. UNCHANGED <<ids, quotes, byHour, older, rowsByHour, olderRows>>
    BY <1>5 DEF IngestHour, Commit, request, answer
  <2>2. \A row \in table' : Recorded(row)
    BY <1>5, IngestRecords
  <2> QED
    BY <2>1, <2>2 DEF AnswerKnows, AnswerHolds, Recorded
<1>6. ASSUME NEW p \in Tradables, DescribeCurrency(p) PROVE AnswerKnows'
  <2>1. byHour' = byHour /\ older' = older
    BY <1>6 DEF DescribeCurrency, Describe, vars, request
  <2>2. UNCHANGED <<ids, quotes, table, rowsByHour, olderRows>>
    BY <1>6 DEF DescribeCurrency, Store!Describe, answer
  <2> QED
    BY <2>1, <2>2 DEF AnswerKnows, AnswerHolds, Recorded
<1>7. CASE UNCHANGED answersVars
  BY <1>7 DEF answersVars, vars, request, book, answer, AnswerKnows, AnswerHolds, Recorded
<1> QED
  BY <1>1, <1>2, <1>3, <1>4, <1>5, <1>6, <1>7 DEF AnswersNext

(* For any currencies, ids, digests, pairs, limits and categories: nothing *)
(* that was left out of an answer ranks above what is in it, and its       *)
(* trend, its rates and the rates of the hour before fit together.         *)
THEOREM AnswersAlwaysCoherent == AnswersSpec => []AnswersCoherent
<1>1. ASSUME AnswerKnows, TypeOK PROVE AnswersCoherent
  <2>1. hour \in Int /\ byHour \subseteq Hours
    BY <1>1, RatesAssumption DEF TypeOK, Hours, NoHour
  <2> SUFFICES ASSUME NEW view \in Views, NEW limit \in Limits, NEW cats \in CategoryFilters
               PROVE  LET ranked == Ranked(view, limit, cats)
                          rates  == Response(view, limit, cats)
                          all    == {r \in Range(Ranked(view, Cardinality(Paths), {})) :
                                        keep(cats, r.quote)}
                          above(x, y) == IF view = "PRICE" THEN Dearer(x, y)
                                                           ELSE MoreTraded(x, y)
                      IN  /\ \A r \in all \ Range(ranked) :
                                 /\ Len(ranked) = Limit(limit)
                                 /\ \A s \in Range(ranked) : s \in all /\ above(s, r)
                          /\ \A r \in Range(rates) :
                                 /\ Same(Last(r.trend), r.vwap)
                                 /\ \A i \in DOMAIN TrendHours :
                                        TrendHours[i] = prev /\ prev \in byHour
                                            => Same(r.trend[i], r.prev)
    BY DEF AnswersCoherent
  <2>2. limit \in Nat
    BY DEF Limits
  <2>3. LET ranked == Ranked(view, limit, cats)
            all    == {r \in Range(Ranked(view, Cardinality(Paths), {})) : keep(cats, r.quote)}
        IN  \A r \in all \ Range(ranked) :
                /\ Len(ranked) = Limit(limit)
                /\ \A s \in Range(ranked) : s \in all /\ Above(view, s, r)
    BY <1>1, <2>2, NothingAbove DEF AnswerKnows
  <2>4. ASSUME NEW r \in Range(Response(view, limit, cats))
        PROVE  /\ Same(Last(r.trend), r.vwap)
               /\ \A i \in DOMAIN TrendHours :
                      TrendHours[i] = prev /\ prev \in byHour => Same(r.trend[i], r.prev)
    <3>1. /\ Last(r.trend) = r.vwap
          /\ \A i \in 1 .. trendHours :
                 TrendHours[i] = prev /\ prev \in byHour => r.trend[i] = r.prev
      BY <1>1, <2>1, <2>2, AnswerRate DEF AnswerKnows
    <3>2. DOMAIN TrendHours = 1 .. trendHours
      BY DEF TrendHours
    <3> QED
      BY <3>1, <3>2 DEF Same
  <2> QED
    BY <2>3, <2>4 DEF Above
<1>2. AnswersSpec => []AnswerKnows
  BY AnswerInit, AnswerStep, PTL DEF AnswersSpec
<1>3. AnswersSpec => []TypeOK
  BY AnswersImplementRates, TypeCorrect, PTL
<1> QED
  BY <1>1, <1>2, <1>3, PTL

-----------------------------------------------------------------------------
(* Division rounds down, so it is monotonic in the fraction it is of.      *)
LEMMA RoundedDown ==
    ASSUME NEW n \in Int, NEW d \in Positives
    PROVE  /\ n \div d \in Int
           /\ (n \div d) * d <= n /\ n < ((n \div d) + 1) * d
BY DEF Positives

LEMMA RoundedMonotonic ==
    ASSUME NEW p \in Int, NEW q \in Positives, NEW r \in Int, NEW s \in Positives,
           p * s <= r * q
    PROVE  p \div q <= r \div s
<1>1. PICK k \in Int, l \in Int : k = p \div q /\ l = r \div s
  BY RoundedDown
<1>2. k * q <= p /\ r < (l + 1) * s
  BY <1>1, RoundedDown
<1> SUFFICES ASSUME l + 1 <= k PROVE FALSE
  BY <1>1
<1>3. (k * q) * s <= p * s
  BY <1>2 DEF Positives
<1>4. r * q < ((l + 1) * s) * q
  BY <1>2 DEF Positives
<1>5. (l + 1) * (q * s) <= k * (q * s)
  BY DEF Positives
<1>6. (k * q) * s = k * (q * s) /\ ((l + 1) * s) * q = (l + 1) * (q * s)
  BY DEF Positives
<1>7. /\ (k * q) * s \in Int /\ p * s \in Int /\ r * q \in Int
      /\ ((l + 1) * s) * q \in Int /\ k * (q * s) \in Int /\ (l + 1) * (q * s) \in Int
  BY DEF Positives
<1> QED
  BY <1>3, <1>4, <1>5, <1>6, <1>7

(* A larger value is not drawn lower.                                      *)
LEMMA BlockMonotonic ==
    ASSUME NEW v \in Fractions, NEW w \in Fractions, NEW lo \in Fractions, NEW hi \in Fractions,
           Less(lo, hi), ~Less(w, v)
    PROVE  Block(v, lo, hi) <= Block(w, lo, hi)
<1>1. PICK a, b, c, d, e, f, g, h \in Positives :
          v = <<a, b>> /\ w = <<c, d>> /\ lo = <<e, f>> /\ hi = <<g, h>>
  BY DEF Fractions
<1>2. a * d <= c * b /\ e * h < g * f
  <2>1. a * d \in Int /\ c * b \in Int /\ ~(c * b < a * d) /\ e * h < g * f
    BY <1>1 DEF Less, Positives
  <2> QED
    BY <2>1
<1>3. PICK A \in Positives : A = g * f - e * h
  BY <1>2 DEF Positives
<1>4. PICK B \in Positives : B = h * f
  BY DEF Positives
<1>5. PICK p \in Int, q \in Positives : p = 7 * ((a * f - e * b) * B) /\ q = (b * f) * A
  BY DEF Positives
<1>6. PICK r \in Int, s \in Positives : r = 7 * ((c * f - e * d) * B) /\ s = (d * f) * A
  BY DEF Positives
<1>7. Block(v, lo, hi) = (2 * p + q) \div (2 * q)
  <2>1. Minus(hi, lo) = <<A, B>>
    BY <1>1, <1>3, <1>4 DEF Minus
  <2>2. Times(Minus(v, lo), Inverted(Minus(hi, lo))) = <<(a * f - e * b) * B, (b * f) * A>>
    BY <1>1, <2>1 DEF Minus, Times, Inverted
  <2>3. Times(<<Blocks - 1, 1>>, Times(Minus(v, lo), Inverted(Minus(hi, lo)))) = <<p, q>>
    BY <1>5, <2>2 DEF Times, Blocks
  <2> QED
    BY <2>3 DEF Block
<1>8. Block(w, lo, hi) = (2 * r + s) \div (2 * s)
  <2>1. Minus(hi, lo) = <<A, B>>
    BY <1>1, <1>3, <1>4 DEF Minus
  <2>2. Times(Minus(w, lo), Inverted(Minus(hi, lo))) = <<(c * f - e * d) * B, (d * f) * A>>
    BY <1>1, <2>1 DEF Minus, Times, Inverted
  <2>3. Times(<<Blocks - 1, 1>>, Times(Minus(w, lo), Inverted(Minus(hi, lo)))) = <<r, s>>
    BY <1>6, <2>2 DEF Times, Blocks
  <2> QED
    BY <2>3 DEF Block
<1>9. p * s <= r * q
  <2>1. PICK K \in Nat : K = 7 * (((B * A) * f) * f)
    BY DEF Positives
  <2>2. r * q - p * s = K * (c * b - a * d)
    BY <1>5, <1>6, <2>1 DEF Positives
  <2>3. c * b - a * d \in Nat
    BY <1>2 DEF Positives
  <2>4. K * (c * b - a * d) \in Nat
    BY <2>3
  <2>5. p * s \in Int /\ r * q \in Int
    BY DEF Positives
  <2> QED
    BY <2>2, <2>4, <2>5
<1>10. (2 * p + q) * (2 * s) <= (2 * r + s) * (2 * q)
  <2>1. p * s \in Int /\ r * q \in Int /\ q * s \in Int
    BY DEF Positives
  <2>2. /\ (2 * p + q) * (2 * s) = 4 * (p * s) + 2 * (q * s)
        /\ (2 * r + s) * (2 * q) = 4 * (r * q) + 2 * (q * s)
    BY DEF Positives
  <2> QED
    BY <1>9, <2>1, <2>2
<1>11. /\ 2 * p + q \in Int /\ 2 * r + s \in Int
       /\ 2 * q \in Positives /\ 2 * s \in Positives
  BY DEF Positives
<1> QED
  BY <1>7, <1>8, <1>10, <1>11, RoundedMonotonic

-----------------------------------------------------------------------------
(* Turning two positive fractions round turns their order round.           *)
LEMMA InvertedOrder ==
    ASSUME NEW x \in Fractions, NEW y \in Fractions
    PROVE  /\ Inverted(x) \in Fractions
           /\ Less(Inverted(x), Inverted(y)) <=> Less(y, x)
<1>1. PICK a, b, c, d \in Positives : x = <<a, b>> /\ y = <<c, d>>
  BY DEF Fractions
<1>2. b * c = c * b /\ d * a = a * d
  BY DEF Positives
<1> QED
  BY <1>1, <1>2 DEF Inverted, Less, Fractions

(* An arrow up or down is a comparison of two rates.                       *)
LEMMA ChangeCompares ==
    ASSUME NEW cur \in Fractions, NEW old, old \in Fractions \/ ~Positive(old)
    PROVE  /\ formatChange(cur, old) \in {"up", "down"} => old \in Fractions
           /\ formatChange(cur, old) = "up" => ~Less(cur, old)
           /\ formatChange(cur, old) = "down" => ~Less(old, cur)
<1>1. CASE ~Positive(old)
  BY <1>1 DEF formatChange
<1>2. CASE old \in Fractions
  <2>1. PICK a, b, c, d \in Positives : cur = <<a, b>> /\ old = <<c, d>>
    BY <1>2 DEF Fractions
  <2>2. PICK x \in Nat, y \in Nat : x = a * d /\ y = c * b
    BY DEF Positives
  <2>3. /\ Less(cur, Times(old, <<2001, 2000>>)) <=> 2000 * x < 2001 * y
        /\ Less(Times(old, <<1999, 2000>>), cur) <=> 1999 * y < 2000 * x
        /\ Less(cur, old) <=> x < y
        /\ Less(old, cur) <=> y < x
    <3>1. /\ a * (d * 2000) = 2000 * x /\ (c * 2001) * b = 2001 * y
          /\ a * (d * 2000) = 2000 * x /\ (c * 1999) * b = 1999 * y
      BY <2>2 DEF Positives
    <3> QED
      BY <2>1, <2>2, <3>1 DEF Less, Times
  <2>4. /\ formatChange(cur, old) = "up" => ~(2000 * x < 2001 * y)
        /\ formatChange(cur, old) = "down" => ~(1999 * y < 2000 * x)
    BY <2>3 DEF formatChange
  <2> QED
    BY <1>2, <2>2, <2>3, <2>4
<1> QED
  BY <1>1, <1>2

(* A value of a trend, as it is shown.                                     *)
Turned(x, flip) == IF flip THEN Inverted(x) ELSE x

(* The last two blocks of a sparkline are those of the last two points     *)
(* that are known, in their order.                                         *)
LEMMA SparkEnds ==
    ASSUME NEW n \in Nat, NEW trend, DOMAIN trend = 1 .. n, NEW flip,
           \A i \in 1 .. n : trend[i] \in Fractions \/ ~Positive(trend[i]),
           NEW p \in 1 .. n, p < n, trend[p] \in Fractions, trend[n] \in Fractions,
           \A i \in 1 .. n : p < i /\ i < n => ~Positive(trend[i])
    PROVE  LET spark == sparkline(trend, flip)
           IN  /\ Len(spark) = n
               /\ ~Less(Turned(trend[n], flip), Turned(trend[p], flip))
                      => spark[n - 1] <= spark[n]
               /\ ~Less(Turned(trend[p], flip), Turned(trend[n], flip))
                      => spark[n] <= spark[n - 1]
<1> DEFINE points  == {i \in DOMAIN trend : Positive(trend[i])}
           val(i)  == IF flip THEN Inverted(trend[i]) ELSE trend[i]
           last(i) == val(Max({j \in points : j <= i}))
           vals    == {val(i) : i \in points}
           lo      == Least(vals)
           hi      == Greatest(vals)
           spark   == sparkline(trend, flip)
<1>1. points \in SUBSET (1 .. n) /\ p \in points /\ n \in points
  <2>1. \A x \in Fractions : Positive(x)
    BY DEF Fractions, Positives, Positive
  <2> QED
    BY <2>1
<1>2. \A i \in points : val(i) \in Fractions
  BY InvertedOrder
<1>3. IsFiniteSet(points) /\ Cardinality(points) \in Nat /\ ~(Cardinality(points) < 2)
  <2>1. IsFiniteSet(1 .. n)
    BY FS_Interval
  <2> HIDE DEF points
  <2>2. IsFiniteSet(points)
    BY <1>1, <2>1, FS_Subset
  <2>3. IsFiniteSet({p}) /\ Cardinality({p}) = 1 /\ n \notin {p}
    <3>1. n # p
      OBVIOUS
    <3> QED
      BY <3>1, FS_Singleton
  <2>4. PICK both : both = {p} \union {n}
    OBVIOUS
  <2>5. IsFiniteSet(both) /\ Cardinality(both) = Cardinality({p}) + 1
    BY <2>3, <2>4, FS_AddElement
  <2>6. Cardinality(both) <= Cardinality(points)
    <3>1. both \in SUBSET points
      BY <1>1, <2>4
    <3> QED
      BY <2>2, <3>1, FS_Subset
  <2>7. Cardinality(points) \in Nat
    BY <2>2, FS_CardinalityType
  <2>8. 2 <= Cardinality(points)
    BY <2>3, <2>5, <2>6
  <2> QED
    BY <2>2, <2>7, <2>8
<1>4. IsFiniteSet(vals) /\ vals # {} /\ vals \subseteq Fractions
  <2> DEFINE f == [i \in points |-> val(i)]
  <2> HIDE DEF points
  <2>1. f \in Surjection(points, vals)
    BY DEF Surjection
  <2>2. IsFiniteSet(vals)
    <3> HIDE DEF f, vals
    <3> QED
      BY <1>3, <2>1, FS_Surjection
  <2> QED
    BY <1>1, <1>2, <2>2
<1>5. /\ lo \in Fractions /\ hi \in Fractions /\ lo \in vals
      /\ ~Less(hi, lo)
  <2>1. Fractions \subseteq Bounds
    BY DEF Fractions, Bounds, Positives
  <2> HIDE DEF vals
  <2>2. /\ lo \in vals /\ hi \in vals /\ \A y \in vals : ~Less(hi, y)
    BY <1>4, <2>1, Extremes
  <2> QED
    BY <1>4, <2>2
<1>6. spark = [i \in 1 .. n |->
                  IF \A j \in points : j > i THEN Blank
                  ELSE IF Same(lo, hi) THEN Blocks \div 2 - 1
                  ELSE Block(last(i), lo, hi)]
  BY <1>3 DEF sparkline
<1>7. Len(spark) = n
  <2> DEFINE V == {spark[i] : i \in 1 .. n}
  <2>1. spark \in [1 .. n -> V]
    BY <1>6
  <2> HIDE DEF V, spark
  <2> QED
    BY <2>1
<1>8. last(n) = val(n) /\ last(n - 1) = val(p)
  <2> DEFINE till(i) == {j \in points : j <= i}
  <2>1. n \in till(n) /\ \A j \in till(n) : j \in Nat /\ n >= j
    BY <1>1
  <2>2. Max(till(n)) = n
    <3> HIDE DEF till
    <3>1. Max(till(n)) \in till(n) /\ \A j \in till(n) : Max(till(n)) >= j
      BY <2>1 DEF Max
    <3> QED
      BY <2>1, <3>1
  <2>3. p \in till(n - 1) /\ \A j \in till(n - 1) : j \in Nat /\ p >= j
    <3>1. \A j \in till(n - 1) : j \in 1 .. n /\ j < n /\ Positive(trend[j])
      BY <1>1
    <3>2. \A j \in till(n - 1) : j \in Nat /\ ~(p < j)
      <4> HIDE DEF till
      <4> QED
        BY <3>1
    <3> QED
      BY <1>1, <3>2
  <2>4. Max(till(n - 1)) = p
    <3>1. PICK T : T = till(n - 1)
      OBVIOUS
    <3> HIDE DEF till
    <3>2. p \in T /\ \A j \in T : j \in Nat /\ p >= j
      BY <2>3, <3>1
    <3>3. Max(T) \in T /\ \A j \in T : Max(T) >= j
      BY <3>2 DEF Max
    <3>4. PICK m \in T : m = Max(T)
      BY <3>3
    <3>5. m \in Nat /\ p \in Nat /\ p >= m /\ m >= p
      BY <3>2, <3>3, <3>4
    <3>6. m = p
      BY <3>5
    <3> QED
      BY <3>1, <3>4, <3>6
  <2> QED
    BY <2>2, <2>4
<1>9. val(n) = Turned(trend[n], flip) /\ val(p) = Turned(trend[p], flip)
  BY DEF Turned
<1>10. val(n) \in Fractions /\ val(p) \in Fractions
  BY <1>1, <1>2
<1>11. /\ n - 1 \in 1 .. n /\ ~(\A j \in points : j > n) /\ ~(\A j \in points : j > n - 1)
  BY <1>1
<1> HIDE DEF points, val, last, lo, hi, spark
<1>12. CASE Same(lo, hi)
  <2>1. spark[n] = Blocks \div 2 - 1 /\ spark[n - 1] = Blocks \div 2 - 1
    BY <1>6, <1>11, <1>12
  <2> QED
    BY <1>7, <2>1 DEF spark, Blocks
<1>13. CASE ~Same(lo, hi)
  <2>1. Less(lo, hi)
    BY <1>5, <1>13, LessIsOrder DEF Fractions, Bounds, Positives
  <2>2. spark[n] = Block(val(n), lo, hi) /\ spark[n - 1] = Block(val(p), lo, hi)
    BY <1>6, <1>8, <1>11, <1>13
  <2>3. /\ ~Less(val(n), val(p)) => spark[n - 1] <= spark[n]
        /\ ~Less(val(p), val(n)) => spark[n] <= spark[n - 1]
    BY <1>5, <1>10, <2>1, <2>2, BlockMonotonic
  <2> QED
    BY <1>7, <1>9, <2>3 DEF spark
<1> QED
  BY <1>12, <1>13

-----------------------------------------------------------------------------
(* The hours that were read lie in the range, and none of them lies        *)
(* between the hour before and the hour.                                   *)
Ranged == /\ byHour \subseteq stored
          /\ pc \in {"prev", "older", "done"} => \A h \in byHour : hour - trendHours < h
          /\ pc \in {"older", "done"} => \A h \in byHour : h < hour => h <= prev

LEMMA RangedStep == TypeOK /\ Ranged /\ [Next]_vars => Ranged'
<1> SUFFICES ASSUME TypeOK, Ranged, [Next]_vars PROVE Ranged'
  OBVIOUS
<1>1. ASSUME NEW h \in Hours, Commit(h) PROVE Ranged'
  BY <1>1 DEF Commit, request, Ranged
<1>2. CASE Describe
  BY <1>2 DEF Describe, request, Ranged
<1>3. CASE Begin
  BY <1>3 DEF Begin, tables, Ranged
<1>4. CASE LatestSnapshotHour
  BY <1>4 DEF LatestSnapshotHour, tables, Ranged
<1>5. CASE ListSnapshotRates
  <2>1. byHour' = {h \in priced : hour - trendHours < h /\ h <= hour}
    BY <1>5 DEF ListSnapshotRates, InRange
  <2> QED
    BY <1>5, <2>1 DEF ListSnapshotRates, tables, Ranged, TypeOK
<1>6. CASE PreviousSnapshotHour
  <2>1. prev' = LatestBefore(hour) /\ byHour' = byHour /\ hour' = hour /\ stored' = stored
        /\ pc = "prev"
    BY <1>6 DEF PreviousSnapshotHour, tables
  <2> DEFINE S == {g \in stored : g < hour}
  <2>2. S \in SUBSET Hours
    BY DEF TypeOK
  <2>3. \A h \in S : h <= Latest(S)
    <3> HIDE DEF S
    <3> QED
      BY <2>2, LatestIsNewest
  <2>4. \A h \in byHour : h < hour => h <= prev'
    BY <2>1, <2>3 DEF LatestBefore, Ranged
  <2> QED
    BY <2>1, <2>4 DEF Ranged
<1>7. CASE ListOlderRates
  BY <1>7 DEF ListOlderRates, tables, Ranged
<1>8. CASE Respond \/ Fail
  BY <1>8 DEF Respond, Fail, tables, Ranged
<1>9. CASE UNCHANGED vars
  BY <1>9 DEF vars, tables, request, Ranged
<1> QED
  BY <1>1, <1>2, <1>3, <1>4, <1>5, <1>6, <1>7, <1>8, <1>9 DEF Next, Query

(* For any digests, ids and hours: a message shows a value of at least 1,  *)
(* a range in order, and an arrow that does not contradict the last two    *)
(* blocks of the sparkline, also when the rate is turned round and when    *)
(* hours without rates lie between.                                        *)
THEOREM ShownAlwaysFaithfully == AnswersSpec => []ShownFaithfully
<1>1. ASSUME AnswerKnows, Consistent, Ranged, pc = "done",
             NEW r \in Range(Response("PRICE", Cardinality(Paths), {}))
      PROVE  LET shown == Shown(r)
                 n     == Len(shown.spark)
             IN  /\ ~Less(shown.value, <<1, 1>>)
                 /\ Positive(r.low) => ~Less(shown.high, shown.low)
                 /\ n > 1 /\ prev \in byHour =>
                        /\ shown.change = "up" => shown.spark[n - 1] <= shown.spark[n]
                        /\ shown.change = "down" => shown.spark[n] <= shown.spark[n - 1]
  <2> DEFINE flip    == Less(r.vwap, <<1, 1>>)
             turn(x) == IF flip /\ Positive(x) THEN Inverted(x) ELSE x
             shown   == Shown(r)
             n       == trendHours
  <2>1. /\ hour \in Int /\ byHour \subseteq Hours /\ prev \in Int /\ hour \in Hours \union {NoHour}
        /\ prev < hour
    BY <1>1, RatesAssumption DEF Consistent, TypeOK, Compared, Hours, NoHour
  <2>2. Cardinality(Paths) \in Nat /\ "PRICE" \in Views
    BY FS_CardinalityType, AnswersAssumption DEF Views
  <2>3. /\ r.vwap \in Fractions /\ r.low \in Bounds /\ r.high \in Bounds
        /\ ~Less(r.high, r.low)
        /\ r.prev \in Fractions \union {Zero}
        /\ DOMAIN r.trend = 1 .. n
        /\ r.trend[n] = r.vwap
        /\ \A i \in 1 .. n :
               /\ r.trend[i] \in Fractions \union {Zero}
               /\ TrendHours[i] \notin byHour => r.trend[i] = Zero
               /\ TrendHours[i] = prev /\ prev \in byHour => r.trend[i] = r.prev
    BY <1>1, <2>1, <2>2, AnswerRate DEF AnswerKnows
  <2>4. /\ shown.value = turn(r.vwap)
        /\ shown.low = IF flip /\ Positive(r.high) THEN Inverted(r.high) ELSE r.low
        /\ shown.high = IF flip /\ Positive(r.low) THEN Inverted(r.low) ELSE r.high
        /\ shown.change = formatChange(turn(r.vwap), turn(r.prev))
        /\ shown.spark = sparkline(r.trend, flip)
    BY DEF Shown
  <2>5. /\ \A x \in Fractions : Positive(x) /\ turn(x) = Turned(x, flip)
        /\ ~Positive(Zero) /\ turn(Zero) = Zero
    BY DEF Positive, Fractions, Positives, Turned, Zero
  <2> HIDE DEF shown
  <2>6. ~Less(shown.value, <<1, 1>>)
    <3>1. PICK a, b \in Positives : r.vwap = <<a, b>>
      BY <2>3 DEF Fractions
    <3>2. /\ Less(<<a, b>>, <<1, 1>>) <=> a < b
          /\ Less(<<b, a>>, <<1, 1>>) <=> b < a
      BY DEF Less, Positives
    <3>3. shown.value = IF a < b THEN <<b, a>> ELSE <<a, b>>
      BY <2>3, <2>4, <2>5, <3>1, <3>2 DEF Turned, Inverted
    <3> QED
      BY <3>2, <3>3 DEF Positives
  <2>7. ASSUME Positive(r.low) PROVE ~Less(shown.high, shown.low)
    <3>1. PICK a, c \in Nat, b, d \in Positives : r.low = <<a, b>> /\ r.high = <<c, d>>
      BY <2>3 DEF Bounds
    <3>2. a # 0 /\ ~(c * b < a * d)
      BY <2>3, <2>7, <3>1 DEF Positive, Less
    <3>3. c # 0
      BY <3>2 DEF Positives
    <3>4. r.low \in Fractions /\ r.high \in Fractions
      BY <3>1, <3>2, <3>3 DEF Fractions, Positives
    <3>5. ~Less(Inverted(r.low), Inverted(r.high))
      BY <2>3, <3>4, InvertedOrder
    <3> QED
      BY <2>3, <2>4, <2>5, <3>4, <3>5
  <2>8. ASSUME prev \in byHour, shown.change \in {"up", "down"}
        PROVE  /\ Len(shown.spark) = n
               /\ shown.change = "up" => shown.spark[n - 1] <= shown.spark[n]
               /\ shown.change = "down" => shown.spark[n] <= shown.spark[n - 1]
    <3>1. n \in Nat \ {0} /\ TrendHours = [i \in 1 .. n |-> hour - (n - i)]
      BY RatesAssumption DEF TrendHours
    <3>2. PICK p \in Int : p = n - (hour - prev)
      BY <2>1, <3>1
    <3>3. hour - n < prev /\ \A h \in byHour : h < hour => h <= prev
      BY <1>1, <2>8 DEF Ranged
    <3>4. p \in 1 .. n /\ p < n /\ TrendHours[p] = prev
      BY <2>1, <3>1, <3>2, <3>3
    <3>5. \A i \in 1 .. n : p < i /\ i < n => TrendHours[i] \notin byHour
      <4> SUFFICES ASSUME NEW i \in 1 .. n, p < i, i < n PROVE TrendHours[i] \notin byHour
        OBVIOUS
      <4>1. TrendHours[i] = hour - (n - i)
        BY <3>1
      <4>2. prev < hour - (n - i) /\ hour - (n - i) < hour
        BY <2>1, <3>1, <3>2
      <4>3. hour - (n - i) \in Int
        BY <2>1, <3>1
      <4> QED
        BY <2>1, <3>3, <4>1, <4>2, <4>3
    <3>6. \A i \in 1 .. n : p < i /\ i < n => ~Positive(r.trend[i])
      BY <2>3, <2>5, <3>5
    <3>7. r.trend[p] = r.prev
      BY <2>3, <2>8, <3>4
    <3>8. turn(r.vwap) \in Fractions /\ turn(r.vwap) = Turned(r.vwap, flip)
      BY <2>3, <2>5, InvertedOrder DEF Turned
    <3>9. r.prev \in Fractions
      <4> SUFFICES ASSUME r.prev = Zero PROVE FALSE
        BY <2>3
      <4>1. shown.change = formatChange(turn(r.vwap), Zero)
        BY <2>4, <2>5
      <4>2. shown.change = "none"
        BY <2>5, <4>1 DEF formatChange
      <4> QED
        BY <2>8, <4>2
    <3>10. turn(r.prev) \in Fractions /\ turn(r.prev) = Turned(r.prev, flip)
      BY <2>5, <3>9, InvertedOrder DEF Turned
    <3> HIDE DEF turn
    <3>11. /\ shown.change = "up" => ~Less(Turned(r.vwap, flip), Turned(r.prev, flip))
           /\ shown.change = "down" => ~Less(Turned(r.prev, flip), Turned(r.vwap, flip))
      BY <2>4, <3>8, <3>10, ChangeCompares
    <3>12. PICK turned : turned = flip
      OBVIOUS
    <3>13. \A i \in 1 .. n : r.trend[i] \in Fractions \/ ~Positive(r.trend[i])
      BY <2>3, <2>5
    <3>14. LET spark == sparkline(r.trend, turned)
           IN  /\ Len(spark) = n
               /\ ~Less(Turned(r.trend[n], turned), Turned(r.trend[p], turned))
                      => spark[n - 1] <= spark[n]
               /\ ~Less(Turned(r.trend[p], turned), Turned(r.trend[n], turned))
                      => spark[n] <= spark[n - 1]
      <4> HIDE DEF n
      <4> QED
        BY <2>3, <3>1, <3>4, <3>6, <3>7, <3>9, <3>13, SparkEnds
    <3> QED
      BY <2>3, <2>4, <3>7, <3>11, <3>12, <3>14
  <2> QED
    BY <2>6, <2>7, <2>8 DEF shown
<1>2. AnswerKnows /\ Consistent /\ Ranged => ShownFaithfully
  BY <1>1 DEF ShownFaithfully
<1>3. AnswersSpec => []AnswerKnows
  BY AnswerInit, AnswerStep, PTL DEF AnswersSpec
<1>4. Spec => []Consistent
  BY ConsistentInit, ConsistentStep, PTL DEF Spec
<1>5. Spec => []Ranged
  <2>1. Init => Ranged
    BY DEF Init, Ranged
  <2> QED
    BY <2>1, RangedStep, TypeCorrect, PTL DEF Spec
<1> QED
  BY <1>2, <1>3, <1>4, <1>5, AnswersImplementRates, PTL

-----------------------------------------------------------------------------
(* The markets of a digest, the row each of them makes, and the rows that  *)
(* a sequence of markets leaves behind: those no later market replaces.    *)
AmountsSent == [Fields -> Numbers]
MarketsSent == [league : {League}, pair : Seq(Paths), amounts : [Paths -> AmountsSent]]

Kept(m) == [m EXCEPT !.amounts = [p \in Paths |-> Converted(m.amounts[p], Int64)]]

RowIn(h, m, id) == Store!RowOf(h, Kept(m), id)
KeyIn(h, m, id) == Store!Key(RowIn(h, m, id))

Taken(s) == {k \in DOMAIN s : Len(s[k].pair) = 2}

Final(h, s, id) == {j \in Taken(s) : \A k \in Taken(s) :
                       k > j => KeyIn(h, s[k], id) # KeyIn(h, s[j], id)}

Lasting(h, s, id) == {RowIn(h, s[j], id) : j \in Final(h, s, id)}

(* They are the rows that an ingest of the sequence puts into the tables.  *)
LEMMA FinalRowsLast ==
    ASSUME NEW h, NEW s \in Seq(MarketsSent), NEW id
    PROVE  Store!FinalRows(h, AsStored(s), id) = Lasting(h, s, id)
<1>1. /\ DOMAIN AsStored(s) = DOMAIN s
      /\ \A k \in DOMAIN s : AsStored(s)[k] = Kept(s[k])
  BY DEF AsStored, Kept
<1>2. \A k \in DOMAIN s : s[k] \in MarketsSent
  <2> HIDE DEF MarketsSent
  <2> QED
    OBVIOUS
<1>3. \A k \in DOMAIN s : Kept(s[k]).pair = s[k].pair
  BY <1>2 DEF Kept, MarketsSent
<1>4. Store!Accepted(AsStored(s)) = Taken(s)
  BY <1>1, <1>3 DEF Store!Accepted, Store!WellFormed, Taken
<1>5. \A k \in Taken(s) : Store!RowOf(h, AsStored(s)[k], id) = RowIn(h, s[k], id)
  BY <1>1 DEF Taken, RowIn
<1> QED
  BY <1>4, <1>5 DEF Store!FinalRows, Lasting, Final, KeyIn

(* Of the markets with one key the last one lasts.                         *)
LEMMA LastOfKey ==
    ASSUME NEW h, NEW s \in Seq(MarketsSent), NEW id, NEW k \in Taken(s)
    PROVE  \E j \in Final(h, s, id) : KeyIn(h, s[j], id) = KeyIn(h, s[k], id)
<1> DEFINE J == {j \in Taken(s) : KeyIn(h, s[j], id) = KeyIn(h, s[k], id)}
<1>1. Len(s) \in Nat /\ Taken(s) \subseteq 1 .. Len(s)
  BY DEF Taken
<1>2. J \in SUBSET (1 .. Len(s)) /\ J # {}
  BY <1>1
<1>3. PICK j \in J : \A i \in J : i <= j
  <2> HIDE DEF J
  <2> QED
    BY <1>1, <1>2, MaxIn
<1>4. \A i \in Taken(s) : i > j => KeyIn(h, s[i], id) # KeyIn(h, s[j], id)
  BY <1>1, <1>3
<1> QED
  BY <1>3, <1>4 DEF Final

(* What two sequences of markets leave behind, one after the other, is     *)
(* what the upsert of the second into the rows of the first leaves.        *)
LEMMA LastingConcat ==
    ASSUME NEW h, NEW s \in Seq(MarketsSent), NEW d \in Seq(MarketsSent), NEW id
    PROVE  Lasting(h, s \o d, id) =
               Store!UpsertRows(Lasting(h, s, id), Lasting(h, d, id))
<1> DEFINE n == Len(s)
           m == Len(d)
           both == s \o d
           key(t, k) == KeyIn(h, t[k], id)
<1>1. /\ n \in Nat /\ m \in Nat
      /\ DOMAIN s = 1 .. n /\ DOMAIN d = 1 .. m /\ DOMAIN both = 1 .. n + m
      /\ \A i \in 1 .. n : both[i] = s[i]
      /\ \A i \in 1 .. m : both[n + i] = d[i]
  <2> HIDE DEF MarketsSent
  <2> QED
    OBVIOUS
<1> HIDE DEF n, m, both
<1>2. /\ Taken(s) \subseteq 1 .. n /\ Taken(d) \subseteq 1 .. m /\ Taken(both) \subseteq 1 .. n + m
      /\ \A i \in 1 .. n : i \in Taken(both) <=> i \in Taken(s)
      /\ \A i \in 1 .. m : n + i \in Taken(both) <=> i \in Taken(d)
  BY <1>1 DEF Taken
<1>3. \A i \in 1 .. m : n + i \in Final(h, both, id) <=> i \in Final(h, d, id)
  <2> SUFFICES ASSUME NEW i \in 1 .. m
               PROVE  n + i \in Final(h, both, id) <=> i \in Final(h, d, id)
    OBVIOUS
  <2>1. ASSUME n + i \in Final(h, both, id) PROVE i \in Final(h, d, id)
    <3>1. i \in Taken(d)
      BY <1>2, <2>1 DEF Final
    <3>2. ASSUME NEW k \in Taken(d), k > i PROVE KeyIn(h, d[k], id) # KeyIn(h, d[i], id)
      <4>1. k \in 1 .. m /\ n + k \in Taken(both) /\ n + k > n + i
        BY <1>1, <1>2, <3>2
      <4>2. KeyIn(h, both[n + k], id) # KeyIn(h, both[n + i], id)
        BY <2>1, <4>1 DEF Final
      <4> QED
        BY <1>1, <4>1, <4>2
    <3> QED
      BY <3>1, <3>2 DEF Final
  <2>2. ASSUME i \in Final(h, d, id) PROVE n + i \in Final(h, both, id)
    <3>1. n + i \in Taken(both)
      BY <1>2, <2>2 DEF Final
    <3>2. ASSUME NEW k \in Taken(both), k > n + i
          PROVE  KeyIn(h, both[k], id) # KeyIn(h, both[n + i], id)
      <4>1. PICK l \in 1 .. m : k = n + l /\ l > i
        <5>1. k \in 1 .. n + m
          BY <1>2
        <5>2. k - n \in 1 .. m /\ k = n + (k - n) /\ k - n > i
          BY <1>1, <3>2, <5>1
        <5> QED
          BY <5>2
      <4>2. l \in Taken(d)
        BY <1>2, <4>1
      <4>3. KeyIn(h, d[l], id) # KeyIn(h, d[i], id)
        BY <2>2, <4>1, <4>2 DEF Final
      <4> QED
        BY <1>1, <4>1, <4>3
    <3> QED
      BY <3>1, <3>2 DEF Final
  <2> QED
    BY <2>1, <2>2
<1>4. ASSUME NEW i \in 1 .. n
      PROVE  i \in Final(h, both, id) <=>
                 /\ i \in Final(h, s, id)
                 /\ \A k \in Taken(d) : KeyIn(h, d[k], id) # KeyIn(h, s[i], id)
  <2>1. ASSUME i \in Final(h, both, id)
        PROVE  /\ i \in Final(h, s, id)
               /\ \A k \in Taken(d) : KeyIn(h, d[k], id) # KeyIn(h, s[i], id)
    <3>1. i \in Taken(s)
      BY <1>2, <2>1 DEF Final
    <3>2. ASSUME NEW k \in Taken(s), k > i PROVE KeyIn(h, s[k], id) # KeyIn(h, s[i], id)
      <4>1. k \in 1 .. n /\ k \in Taken(both)
        BY <1>2
      <4> QED
        BY <1>1, <2>1, <3>2, <4>1 DEF Final
    <3>3. ASSUME NEW k \in Taken(d) PROVE KeyIn(h, d[k], id) # KeyIn(h, s[i], id)
      <4>1. k \in 1 .. m /\ n + k \in Taken(both) /\ n + k > i
        BY <1>1, <1>2
      <4>2. KeyIn(h, both[n + k], id) # KeyIn(h, both[i], id)
        BY <2>1, <4>1 DEF Final
      <4> QED
        BY <1>1, <4>1, <4>2
    <3> QED
      BY <3>1, <3>2, <3>3 DEF Final
  <2>2. ASSUME i \in Final(h, s, id),
               \A k \in Taken(d) : KeyIn(h, d[k], id) # KeyIn(h, s[i], id)
        PROVE  i \in Final(h, both, id)
    <3>1. i \in Taken(both)
      BY <1>2, <2>2 DEF Final
    <3>2. ASSUME NEW k \in Taken(both), k > i
          PROVE  KeyIn(h, both[k], id) # KeyIn(h, both[i], id)
      <4>1. CASE k <= n
        <5>1. k \in 1 .. n /\ k \in Taken(s)
          BY <1>1, <1>2, <4>1
        <5> QED
          BY <1>1, <2>2, <3>2, <5>1 DEF Final
      <4>2. CASE ~(k <= n)
        <5>1. PICK l \in 1 .. m : k = n + l
          <6>1. k \in 1 .. n + m
            BY <1>2
          <6>2. k - n \in 1 .. m /\ k = n + (k - n)
            BY <1>1, <4>2, <6>1
          <6> QED
            BY <6>2
        <5>2. l \in Taken(d)
          BY <1>2, <5>1
        <5> QED
          BY <1>1, <2>2, <5>1, <5>2
      <4> QED
        BY <4>1, <4>2
    <3> QED
      BY <3>1, <3>2 DEF Final
  <2> QED
    BY <2>1, <2>2
<1>5. ASSUME NEW row
      PROVE  row \in Lasting(h, both, id) <=>
                 row \in Store!UpsertRows(Lasting(h, s, id), Lasting(h, d, id))
  <2>1. ASSUME row \in Lasting(h, both, id)
        PROVE  row \in Store!UpsertRows(Lasting(h, s, id), Lasting(h, d, id))
    <3>1. PICK j \in Final(h, both, id) : row = RowIn(h, both[j], id)
      BY <2>1 DEF Lasting
    <3>2. j \in 1 .. n + m
      BY <1>2 DEF Final
    <3>3. CASE j <= n
      <4>1. j \in 1 .. n
        BY <1>1, <3>2, <3>3
      <4>2. /\ j \in Final(h, s, id) /\ row = RowIn(h, s[j], id)
            /\ \A k \in Taken(d) : KeyIn(h, d[k], id) # KeyIn(h, s[j], id)
        BY <1>1, <1>4, <3>1, <4>1
      <4>3. \A x \in Lasting(h, d, id) : Store!Key(x) # Store!Key(row)
        BY <4>2 DEF Lasting, Final, KeyIn
      <4> QED
        BY <4>2, <4>3 DEF Store!UpsertRows, Lasting
    <3>4. CASE ~(j <= n)
      <4>1. PICK l \in 1 .. m : j = n + l
        <5>1. j - n \in 1 .. m /\ j = n + (j - n)
          BY <1>1, <3>2, <3>4
        <5> QED
          BY <5>1
      <4>2. l \in Final(h, d, id) /\ row = RowIn(h, d[l], id)
        BY <1>1, <1>3, <3>1, <4>1
      <4> QED
        BY <4>2 DEF Store!UpsertRows, Lasting
    <3> QED
      BY <3>3, <3>4
  <2>2. ASSUME row \in Lasting(h, d, id) PROVE row \in Lasting(h, both, id)
    <3>1. PICK j \in Final(h, d, id) : row = RowIn(h, d[j], id)
      BY <2>2 DEF Lasting
    <3>2. j \in 1 .. m
      BY <1>2 DEF Final
    <3>3. n + j \in Final(h, both, id) /\ row = RowIn(h, both[n + j], id)
      BY <1>1, <1>3, <3>1, <3>2
    <3> QED
      BY <3>3 DEF Lasting
  <2>3. ASSUME row \in Lasting(h, s, id),
               \A x \in Lasting(h, d, id) : Store!Key(x) # Store!Key(row)
        PROVE  row \in Lasting(h, both, id)
    <3>1. PICK j \in Final(h, s, id) : row = RowIn(h, s[j], id)
      BY <2>3 DEF Lasting
    <3>2. j \in 1 .. n
      BY <1>2 DEF Final
    <3>3. ASSUME NEW k \in Taken(d) PROVE KeyIn(h, d[k], id) # KeyIn(h, s[j], id)
      <4>1. PICK l \in Final(h, d, id) : KeyIn(h, d[l], id) = KeyIn(h, d[k], id)
        BY LastOfKey
      <4>2. Store!Key(RowIn(h, d[l], id)) # Store!Key(row)
        BY <2>3 DEF Lasting
      <4> QED
        BY <3>1, <4>1, <4>2 DEF KeyIn
    <3>4. j \in Final(h, both, id) /\ row = RowIn(h, both[j], id)
      BY <1>1, <1>4, <3>1, <3>2, <3>3
    <3> QED
      BY <3>4 DEF Lasting
  <2> QED
    BY <2>1, <2>2, <2>3 DEF Store!UpsertRows
<1> QED
  BY <1>5 DEF both, Store!UpsertRows, Lasting

-----------------------------------------------------------------------------
(* The row of a market: its two paths by their ids, with their numbers.    *)
LEMMA RowOfMarket ==
    ASSUME NEW h, NEW m \in MarketsSent, Len(m.pair) = 2, NEW id \in [Paths -> Nat]
    PROVE  \E p, q \in Paths :
               /\ m.pair \in {<<p, q>>, <<q, p>>} /\ id[p] <= id[q]
               /\ RowIn(h, m, id).hour = h /\ RowIn(h, m, id).league = League
               /\ RowIn(h, m, id).itemA = id[p] /\ RowIn(h, m, id).itemB = id[q]
               /\ RowIn(h, m, id).sideA.amount = Converted(m.amounts[p], Int64)
               /\ RowIn(h, m, id).sideB.amount = Converted(m.amounts[q], Int64)
<1> DEFINE kept == Kept(m)
           row  == RowIn(h, m, id)
<1>1. PICK x, y \in Paths : m.pair = <<x, y>>
  <2>1. m.pair \in Seq(Paths)
    BY DEF MarketsSent
  <2>2. m.pair = <<m.pair[1], m.pair[2]>> /\ m.pair[1] \in Paths /\ m.pair[2] \in Paths
    BY <2>1
  <2> QED
    BY <2>2
<1>2. /\ kept.pair = <<x, y>> /\ kept.league = League
      /\ \A p \in Paths : kept.amounts[p] = Converted(m.amounts[p], Int64)
  BY <1>1 DEF Kept, MarketsSent
<1>3. row = Store!RowOf(h, kept, id)
  BY DEF RowIn
<1> HIDE DEF kept, row
<1>4. id[x] \in Nat /\ id[y] \in Nat
  OBVIOUS
<1>5. CASE id[x] > id[y]
  <2>1. /\ row.hour = h /\ row.league = League /\ row.itemA = id[y] /\ row.itemB = id[x]
        /\ row.sideA.amount = kept.amounts[y] /\ row.sideB.amount = kept.amounts[x]
    BY <1>2, <1>3, <1>5 DEF Store!RowOf, Store!Side
  <2> QED
    BY <1>1, <1>2, <1>4, <1>5, <2>1 DEF row
<1>6. CASE ~(id[x] > id[y])
  <2>1. /\ row.hour = h /\ row.league = League /\ row.itemA = id[x] /\ row.itemB = id[y]
        /\ row.sideA.amount = kept.amounts[x] /\ row.sideB.amount = kept.amounts[y]
    BY <1>2, <1>3, <1>6 DEF Store!RowOf, Store!Side
  <2> QED
    BY <1>1, <1>2, <1>4, <1>6, <2>1 DEF row
<1> QED
  BY <1>5, <1>6

(* Two markets share a key if they are of the same two paths.              *)
LEMMA SameKey ==
    ASSUME NEW h, NEW id \in IdOrders, NEW p \in Paths, NEW q \in Paths,
           NEW m \in MarketsSent, m.pair \in {<<p, q>>, <<q, p>>},
           NEW n \in MarketsSent, Len(n.pair) = 2
    PROVE  KeyIn(h, m, id) = KeyIn(h, n, id) <=> n.pair \in {<<p, q>>, <<q, p>>}
<1>1. id \in [Paths -> Nat] /\ \A x, y \in Paths : id[x] = id[y] => x = y
  BY AnswersAssumption DEF Injection, IsInjective
<1>2. Len(m.pair) = 2
  OBVIOUS
<1>3. PICK x, y \in Paths :
          /\ m.pair \in {<<x, y>>, <<y, x>>} /\ id[x] <= id[y]
          /\ KeyIn(h, m, id) = <<h, League, id[x], id[y]>>
  BY <1>1, <1>2, RowOfMarket DEF KeyIn, Store!Key
<1>4. PICK v, w \in Paths :
          /\ n.pair \in {<<v, w>>, <<w, v>>} /\ id[v] <= id[w]
          /\ KeyIn(h, n, id) = <<h, League, id[v], id[w]>>
  BY <1>1, RowOfMarket DEF KeyIn, Store!Key
<1>5. \/ x = p /\ y = q
      \/ x = q /\ y = p
  BY <1>3
<1>6. KeyIn(h, m, id) = KeyIn(h, n, id) <=> id[x] = id[v] /\ id[y] = id[w]
  BY <1>3, <1>4
<1>7. KeyIn(h, m, id) = KeyIn(h, n, id) <=> x = v /\ y = w
  BY <1>1, <1>6
<1>8. ASSUME n.pair \in {<<p, q>>, <<q, p>>} PROVE x = v /\ y = w
  <2>1. \/ x = v /\ y = w
        \/ x = w /\ y = v
    BY <1>4, <1>5, <1>8
  <2>2. CASE x = w /\ y = v
    <3>1. id[x] \in Nat /\ id[y] \in Nat /\ id[x] <= id[y] /\ id[y] <= id[x]
      BY <1>1, <1>3, <1>4, <2>2
    <3>2. id[x] = id[y]
      BY <3>1
    <3> QED
      BY <1>1, <2>2, <3>2
  <2> QED
    BY <2>1, <2>2
<1> QED
  BY <1>4, <1>5, <1>7, <1>8

-----------------------------------------------------------------------------
(* The invariant behind ReadsMatchDigests: the rows of an hour are those   *)
(* that its markets, in the order they came, leave behind.                 *)
TradesStored ==
    /\ ids \in IdOrders
    /\ ingested \in [Hours -> Seq(MarketsSent)]
    /\ \A h \in Hours : {row \in table : row.hour = h} = Lasting(h, ingested[h], ids)

(* All of them carry that hour.                                            *)
LEMMA LastingHour ==
    ASSUME NEW h, NEW s \in Seq(MarketsSent), NEW id \in IdOrders
    PROVE  \A row \in Lasting(h, s, id) : row.hour = h
<1>1. id \in [Paths -> Nat]
  BY AnswersAssumption DEF Injection
<1>2. \A k \in Taken(s) : s[k] \in MarketsSent /\ Len(s[k].pair) = 2
  <2> HIDE DEF MarketsSent
  <2> QED
    BY DEF Taken
<1>3. \A k \in Taken(s) : RowIn(h, s[k], id).hour = h
  BY <1>1, <1>2, RowOfMarket
<1> QED
  BY <1>3 DEF Lasting, Final

LEMMA TradesInit == AnswersInit => TradesStored
<1> SUFFICES ASSUME AnswersInit PROVE TradesStored
  OBVIOUS
<1>1. table = {} /\ ids \in IdOrders /\ ingested = [h \in Hours |-> <<>>]
  BY DEF AnswersInit
<1>2. <<>> \in Seq(MarketsSent) /\ DOMAIN (<<>>) = {}
  <2> HIDE DEF MarketsSent
  <2> QED
    OBVIOUS
<1>3. \A h \in Hours : Lasting(h, ingested[h], ids) = {}
  BY <1>1, <1>2 DEF Lasting, Final, Taken
<1> QED
  BY <1>1, <1>2, <1>3 DEF TradesStored

LEMMA TradesStep == TradesStored /\ [AnswersNext]_answersVars => TradesStored'
<1> SUFFICES ASSUME TradesStored, [AnswersNext]_answersVars PROVE TradesStored'
  OBVIOUS
<1>1. ASSUME UNCHANGED <<ids, table, ingested>> PROVE TradesStored'
  BY <1>1 DEF TradesStored
<1>2. ASSUME NEW g \in Hours, NEW digest \in Digests, IngestHour(g, digest)
      PROVE  TradesStored'
  <2> DEFINE new == Lasting(g, digest, ids)
  <2>1. digest \in Seq(MarketsSent)
    BY AnswersAssumption DEF MarketsSent, AmountsSent
  <2>2. /\ ids' = ids
        /\ table' = Store!UpsertRows(table, new)
        /\ ingested' = [ingested EXCEPT ![g] = @ \o digest]
    BY <1>2, <2>1, FinalRowsLast DEF IngestHour, Store!Ingest
  <2>3. ids \in IdOrders /\ ingested \in [Hours -> Seq(MarketsSent)]
    BY DEF TradesStored
  <2>4. ingested[g] \o digest \in Seq(MarketsSent)
    <3> HIDE DEF MarketsSent
    <3> QED
      BY <2>1, <2>3
  <2>5. ingested' \in [Hours -> Seq(MarketsSent)]
    <3> HIDE DEF MarketsSent
    <3> QED
      BY <2>2, <2>3, <2>4
  <2>6. \A row \in new : row.hour = g
    BY <2>1, <2>3, LastingHour
  <2> HIDE DEF new
  <2>7. ASSUME NEW h \in Hours
        PROVE  {row \in table' : row.hour = h} = Lasting(h, ingested'[h], ids)
    <3>1. {row \in table : row.hour = h} = Lasting(h, ingested[h], ids)
      BY DEF TradesStored
    <3>2. CASE h = g
      <4>1. {row \in table' : row.hour = h}
                = Store!UpsertRows({row \in table : row.hour = h}, new)
        BY <2>2, <2>6, <3>2 DEF Store!UpsertRows
      <4>2. Lasting(h, ingested[h] \o digest, ids)
                = Store!UpsertRows(Lasting(h, ingested[h], ids), Lasting(h, digest, ids))
        BY <2>1, <2>3, LastingConcat
      <4>3. ingested'[h] = ingested[h] \o digest
        BY <2>2, <2>3, <3>2
      <4> QED
        BY <3>1, <3>2, <4>1, <4>2, <4>3 DEF new
    <3>3. CASE h # g
      <4>1. \A row \in table, n \in new : row.hour = h => Store!Key(n) # Store!Key(row)
        BY <2>6, <3>3 DEF Store!Key
      <4>2. {row \in table' : row.hour = h} = {row \in table : row.hour = h}
        BY <2>2, <2>6, <3>3, <4>1 DEF Store!UpsertRows
      <4>3. ingested'[h] = ingested[h]
        BY <2>2, <2>3, <3>3
      <4> QED
        BY <3>1, <4>2, <4>3
    <3> QED
      BY <3>2, <3>3
  <2> QED
    BY <2>2, <2>3, <2>5, <2>7 DEF TradesStored
<1>3. CASE LoadRatePairs \/ ReadRange \/ ReadOlder \/ OtherStep
  <2>1. UNCHANGED <<ids, table, ingested>>
    BY <1>3 DEF LoadRatePairs, ReadRange, ReadOlder, OtherStep, book, history
  <2> QED
    BY <1>1, <2>1
<1>4. ASSUME NEW p \in Tradables, DescribeCurrency(p) PROVE TradesStored'
  <2>1. UNCHANGED <<ids, table, ingested>>
    BY <1>4 DEF DescribeCurrency, Store!Describe, history
  <2> QED
    BY <1>1, <2>1
<1>5. CASE UNCHANGED answersVars
  <2>1. UNCHANGED <<ids, table, ingested>>
    BY <1>5 DEF answersVars, book, history
  <2> QED
    BY <1>1, <2>1
<1> QED
  BY <1>2, <1>3, <1>4, <1>5 DEF AnswersNext

-----------------------------------------------------------------------------
(* A uint64 comes back as it was after it was stored as an int64.          *)
LEMMA RoundTrip ==
    ASSUME NEW x \in Numbers
    PROVE  Uint64(Int64(x)) = x
<1> DEFINE m == 2 * HalfRange
<1>1. HalfRange \in Nat /\ m \in Positives /\ x \in Int /\ 0 <= x /\ x < m
  BY AnswersAssumption DEF Numbers, Positives
<1> HIDE DEF m
<1>2. \A y \in Int : y % m = y - m * (y \div m) /\ 0 <= y % m /\ y % m < m
  BY <1>1 DEF Positives
<1>3. \A q \in Int : 0 <= x - m * q /\ x - m * q < m => q = 0
  <2> SUFFICES ASSUME NEW q \in Int, 0 <= x - m * q, x - m * q < m PROVE q = 0
    OBVIOUS
  <2>1. CASE q >= 1
    <3>1. m * q >= m * 1
      BY <1>1, <2>1 DEF Positives
    <3> QED
      BY <1>1, <3>1 DEF Positives
  <2>2. CASE q <= -1
    <3>1. m * q <= m * (-1)
      BY <1>1, <2>2 DEF Positives
    <3> QED
      BY <1>1, <3>1 DEF Positives
  <2> QED
    BY <2>1, <2>2
<1>4. x % m = x
  <2>1. PICK q \in Int : q = x \div m
    BY <1>1, RoundedDown
  <2>2. 0 <= x - m * q /\ x - m * q < m
    BY <1>1, <1>2, <2>1
  <2>3. q = 0
    BY <1>3, <2>2
  <2> QED
    BY <1>1, <1>2, <2>1, <2>3 DEF Positives
<1>5. (x - m) % m = x
  <2>1. x - m \in Int
    BY <1>1 DEF Positives
  <2>2. PICK q \in Int : q = (x - m) \div m
    BY <1>1, <2>1, RoundedDown
  <2>3. m * (q + 1) = m * q + m
    BY <1>1 DEF Positives
  <2>4. (x - m) % m = (x - m) - m * q
    BY <1>2, <2>1, <2>2
  <2>5. PICK y \in Int : y = m * q
    BY <1>1 DEF Positives
  <2>6. 0 <= (x - m) - y /\ (x - m) - y < m
    BY <1>2, <2>1, <2>4, <2>5
  <2>7. 0 <= x - m * (q + 1) /\ x - m * (q + 1) < m
    BY <1>1, <2>3, <2>5, <2>6 DEF Positives
  <2>8. q + 1 = 0
    BY <1>3, <2>7
  <2> QED
    BY <1>1, <2>3, <2>4, <2>5, <2>8 DEF Positives
<1> QED
  BY <1>1, <1>4, <1>5 DEF Uint64, Int64, m

(* A market of two currencies, what p buys of q by it, and that a row of   *)
(* an hour reads as that.                                                  *)
PairOf(m, p, q)  == m.pair \in {<<p, q>>, <<q, p>>}
QuoteIn(m, p, q) == [id |-> q, base |-> m.amounts[p], quote |-> m.amounts[q]]

ReadsAs(row, h, m, p, q) ==
    LET read == toSnapshotRow(row)
    IN  /\ row.hour = h /\ {row.itemA, row.itemB} = {ids[p], ids[q]}
        /\ {read.itemA, read.itemB} = {p, q}
        /\ QuoteOf(read, p) = QuoteIn(m, p, q)

(* So the row of a market reads as the market, whatever the order of its   *)
(* ids.                                                                    *)
LEMMA MarketRead ==
    ASSUME ids \in IdOrders, NEW h, NEW p \in Paths, NEW q \in Paths,
           NEW m \in MarketsSent, PairOf(m, p, q)
    PROVE  ReadsAs(RowIn(h, m, ids), h, m, p, q)
<1> DEFINE row  == RowIn(h, m, ids)
           read == toSnapshotRow(row)
<1>1. ids \in [Paths -> Nat] /\ \A x, y \in Paths : ids[x] = ids[y] => x = y
  BY AnswersAssumption DEF Injection, IsInjective
<1>2. m.pair \in {<<p, q>>, <<q, p>>} /\ Len(m.pair) = 2
  BY DEF PairOf
<1>3. PICK x, y \in Paths :
          /\ m.pair \in {<<x, y>>, <<y, x>>}
          /\ row.hour = h /\ row.itemA = ids[x] /\ row.itemB = ids[y]
          /\ row.sideA.amount = Converted(m.amounts[x], Int64)
          /\ row.sideB.amount = Converted(m.amounts[y], Int64)
  BY <1>1, <1>2, RowOfMarket
<1>4. \/ x = p /\ y = q
      \/ x = q /\ y = p
  BY <1>2, <1>3
<1>5. \A z \in Paths : (CHOOSE w \in Paths : ids[w] = ids[z]) = z
  BY <1>1
<1>6. ASSUME NEW z \in Paths, NEW kept, kept = Converted(m.amounts[z], Int64)
      PROVE  Converted(kept, Uint64) = m.amounts[z]
  <2>1. PICK amount \in [Fields -> Numbers] : amount = m.amounts[z]
    BY DEF MarketsSent, AmountsSent
  <2>2. kept = [f \in Fields |-> Int64(amount[f])]
    BY <1>6, <2>1 DEF Converted
  <2>3. \A f \in Fields : Uint64(kept[f]) = amount[f]
    BY <2>1, <2>2, RoundTrip
  <2>4. Converted(kept, Uint64) = [f \in Fields |-> amount[f]]
    BY <2>2, <2>3 DEF Converted
  <2> QED
    BY <2>1, <2>4
<1>7. PICK a, b : a = row.sideA.amount /\ b = row.sideB.amount
  OBVIOUS
<1>8. Converted(a, Uint64) = m.amounts[x] /\ Converted(b, Uint64) = m.amounts[y]
  BY <1>3, <1>6, <1>7
<1> HIDE DEF row
<1>9. /\ (CHOOSE w \in Paths : ids[w] = row.itemA) = x
      /\ (CHOOSE w \in Paths : ids[w] = row.itemB) = y
  BY <1>3, <1>5
<1>10. read = [itemA |-> x, a |-> m.amounts[x], itemB |-> y, b |-> m.amounts[y]]
  BY <1>7, <1>8, <1>9 DEF toSnapshotRow
<1> HIDE DEF read
<1>11. QuoteOf(read, p) = QuoteIn(m, p, q)
  BY <1>4, <1>10 DEF QuoteOf, QuoteIn
<1> QED
  BY <1>3, <1>4, <1>10, <1>11 DEF ReadsAs, row, read

(* Of the markets of two currencies the last one lasts, and it alone.      *)
LEMMA LastTradeLasts ==
    ASSUME ids \in IdOrders, NEW h \in Hours, ingested[h] \in Seq(MarketsSent),
           NEW p \in Paths, NEW q \in Paths
    PROVE  LET s == ingested[h]
           IN  /\ Trades(h, p, q) # {} => /\ Max(Trades(h, p, q)) \in Final(h, s, ids)
                                          /\ Max(Trades(h, p, q)) \in Trades(h, p, q)
               /\ \A j \in Final(h, s, ids) \intersect Trades(h, p, q) :
                      j = Max(Trades(h, p, q))
<1> DEFINE s == ingested[h]
           T == Trades(h, p, q)
           key(k) == KeyIn(h, s[k], ids)
<1>1. /\ Len(s) \in Nat /\ DOMAIN s = 1 .. Len(s)
      /\ \A k \in DOMAIN s : s[k] \in MarketsSent
  <2> HIDE DEF MarketsSent
  <2> QED
    OBVIOUS
<1>2. T \in SUBSET (1 .. Len(s)) /\ T \subseteq Taken(s) /\ Taken(s) \subseteq DOMAIN s
  BY <1>1 DEF Trades, Taken
<1>3. \A j \in T, k \in Taken(s) : key(k) = key(j) <=> k \in T
  <2> SUFFICES ASSUME NEW j \in T, NEW k \in Taken(s) PROVE key(k) = key(j) <=> k \in T
    OBVIOUS
  <2>1. PICK m, n \in MarketsSent : m = s[j] /\ n = s[k]
    BY <1>1, <1>2
  <2>2. m.pair \in {<<p, q>>, <<q, p>>} /\ Len(n.pair) = 2
    BY <2>1 DEF Trades, Taken
  <2>3. KeyIn(h, m, ids) = KeyIn(h, n, ids) <=> n.pair \in {<<p, q>>, <<q, p>>}
    BY <2>2, SameKey
  <2>4. k \in T <=> n.pair \in {<<p, q>>, <<q, p>>}
    BY <1>2, <2>1 DEF Trades
  <2> QED
    BY <2>1, <2>3, <2>4
<1> HIDE DEF T, key
<1>4. ASSUME T # {} PROVE Max(T) \in Final(h, s, ids) /\ Max(T) \in T
  <2>1. Max(T) \in T /\ \A i \in T : i <= Max(T)
    BY <1>1, <1>2, <1>4, MaxIn
  <2>2. PICK j \in T : j = Max(T)
    BY <2>1
  <2>3. \A k \in Taken(s) : k > j => key(k) # key(j)
    BY <1>1, <1>2, <1>3, <2>1, <2>2
  <2> QED
    BY <1>2, <2>2, <2>3 DEF Final, key
<1>5. ASSUME NEW j \in Final(h, s, ids), j \in T PROVE j = Max(T)
  <2>1. PICK l \in T : l = Max(T) /\ j <= l
    BY <1>1, <1>2, <1>5, MaxIn
  <2>2. key(l) = key(j) /\ l \in Taken(s)
    BY <1>2, <1>3, <1>5, <2>1
  <2>3. ~(l > j)
    BY <2>2 DEF Final, key
  <2> QED
    BY <1>1, <1>2, <1>5, <2>1, <2>3
<1> QED
  BY <1>4, <1>5 DEF T

(* The rows that are read of an hour.                                      *)
RowsRead(h) == {toSnapshotRow(row) : row \in {r \in Rateable(table, placeholder) : r.hour = h}}

(* What base buys of one currency, by the last market of the two.          *)
QuoteRead(h, base, p) ==
    [id |-> p, base |-> LastTrade(h, base, p)[base], quote |-> LastTrade(h, base, p)[p]]

Queried(h, base) == {p \in Paths : /\ Trades(h, base, p) # {}
                                   /\ \E t \in {base, p} \intersect Tradables : ~placeholder[t]}

(* Seen from one currency, the rows of an hour are the last markets of     *)
(* that currency with each of the others.                                  *)
LEMMA QuotesRead ==
    ASSUME TradesStored, NEW h \in Hours, NEW base \in Paths
    PROVE  {QuoteOf(row, base) : row \in {r \in RowsRead(h) : base \in {r.itemA, r.itemB}}}
               = {QuoteRead(h, base, p) : p \in Queried(h, base)}
<1> DEFINE s     == ingested[h]
           seen  == {r \in RowsRead(h) : base \in {r.itemA, r.itemB}}
           given == {r \in Rateable(table, placeholder) : r.hour = h}
<1>1. /\ ids \in IdOrders /\ s \in Seq(MarketsSent)
      /\ {row \in table : row.hour = h} = Lasting(h, s, ids)
  BY DEF TradesStored
<1>2. /\ DOMAIN s = 1 .. Len(s)
      /\ \A k \in DOMAIN s : s[k] \in MarketsSent
  <2> HIDE DEF MarketsSent
  <2> QED
    BY <1>1
<1>3. ids \in [Paths -> Nat \ {0}] /\ \A x, y \in Paths : ids[x] = ids[y] => x = y
  BY <1>1, AnswersAssumption DEF Injection, IsInjective
<1>4. \A j \in Final(h, s, ids) : \E x, y \in Paths : s[j].pair = <<x, y>>
  <2> SUFFICES ASSUME NEW j \in Final(h, s, ids) PROVE \E x, y \in Paths : s[j].pair = <<x, y>>
    OBVIOUS
  <2>1. PICK m \in MarketsSent : m = s[j] /\ Len(m.pair) = 2
    BY <1>2 DEF Final, Taken
  <2>2. m.pair \in Seq(Paths)
    BY DEF MarketsSent
  <2>3. m.pair = <<m.pair[1], m.pair[2]>> /\ m.pair[1] \in Paths /\ m.pair[2] \in Paths
    BY <2>1, <2>2
  <2> QED
    BY <2>1, <2>3
<1>5. ASSUME NEW p \in Paths, NEW j \in Final(h, s, ids) \intersect Trades(h, base, p)
      PROVE  LET row == RowIn(h, s[j], ids)
             IN  /\ row \in table /\ row.hour = h
                 /\ row \in Rateable(table, placeholder) <=> p \in Queried(h, base)
                 /\ base \in {toSnapshotRow(row).itemA, toSnapshotRow(row).itemB}
                 /\ QuoteOf(toSnapshotRow(row), base) = QuoteRead(h, base, p)
  <2> DEFINE row == RowIn(h, s[j], ids)
  <2>1. PICK m \in MarketsSent : m = s[j] /\ PairOf(m, base, p)
    BY <1>2 DEF Trades, PairOf
  <2>2. /\ row.hour = h /\ {row.itemA, row.itemB} = {ids[base], ids[p]}
        /\ {toSnapshotRow(row).itemA, toSnapshotRow(row).itemB} = {base, p}
        /\ QuoteOf(toSnapshotRow(row), base) = QuoteIn(m, base, p)
    <3>1. ReadsAs(RowIn(h, m, ids), h, m, base, p)
      <4>1. ids \in IdOrders /\ PairOf(m, base, p)
        BY <1>1, <2>1
      <4> QED
        BY <4>1, MarketRead
    <3>2. ReadsAs(row, h, m, base, p)
      BY <2>1, <3>1
    <3> QED
      BY <3>2 DEF ReadsAs
  <2>3. row \in table
    BY <1>1 DEF Lasting
  <2>4. j = Max(Trades(h, base, p))
    BY <1>1, LastTradeLasts
  <2>5. QuoteOf(toSnapshotRow(row), base) = QuoteRead(h, base, p)
    BY <2>1, <2>2, <2>4 DEF QuoteRead, QuoteIn, LastTrade
  <2> HIDE DEF row
  <2>6. row \in Rateable(table, placeholder) <=> p \in Queried(h, base)
    <3>1. Trades(h, base, p) # {}
      OBVIOUS
    <3>2. \A t \in Tradables : ids[t] \in {row.itemA, row.itemB} <=> t \in {base, p}
      BY <1>3, <2>2, AnswersAssumption
    <3> QED
      BY <2>3, <3>1, <3>2 DEF Rateable, Queried
  <2> QED
    BY <2>2, <2>3, <2>5, <2>6 DEF row
<1>6. ASSUME NEW r \in seen PROVE \E p \in Queried(h, base) : QuoteOf(r, base) = QuoteRead(h, base, p)
  <2>1. PICK row \in given : r = toSnapshotRow(row)
    BY DEF RowsRead
  <2>2. row \in Lasting(h, s, ids)
    BY <1>1 DEF Rateable
  <2>3. PICK j \in Final(h, s, ids) : row = RowIn(h, s[j], ids)
    BY <2>2 DEF Lasting
  <2>4. PICK x, y \in Paths : s[j].pair = <<x, y>>
    BY <1>4
  <2>5. PICK m \in MarketsSent : m = s[j] /\ j \in DOMAIN s
    BY <1>2 DEF Final, Taken
  <2>6. {r.itemA, r.itemB} = {x, y}
    <3>1. row = RowIn(h, m, ids) /\ PairOf(m, x, y)
      BY <2>3, <2>4, <2>5 DEF PairOf
    <3>2. ReadsAs(RowIn(h, m, ids), h, m, x, y)
      BY <1>1, <3>1, MarketRead
    <3>3. ReadsAs(row, h, m, x, y)
      BY <3>1, <3>2
    <3> QED
      BY <2>1, <3>3 DEF ReadsAs
  <2>7. PICK p \in Paths : s[j].pair \in {<<base, p>>, <<p, base>>}
    BY <2>4, <2>6
  <2>8. j \in Trades(h, base, p)
    BY <2>5, <2>7 DEF Trades
  <2> QED
    BY <1>5, <2>1, <2>3, <2>8
<1>7. ASSUME NEW p \in Queried(h, base) PROVE \E r \in seen : QuoteOf(r, base) = QuoteRead(h, base, p)
  <2>1. p \in Paths /\ Trades(h, base, p) # {}
    BY DEF Queried
  <2>2. PICK j \in Final(h, s, ids) \intersect Trades(h, base, p) : TRUE
    BY <1>1, <2>1, LastTradeLasts
  <2>3. PICK row : row = RowIn(h, s[j], ids)
    OBVIOUS
  <2>4. /\ row \in given /\ base \in {toSnapshotRow(row).itemA, toSnapshotRow(row).itemB}
        /\ QuoteOf(toSnapshotRow(row), base) = QuoteRead(h, base, p)
    BY <1>5, <2>1, <2>2, <2>3
  <2>5. toSnapshotRow(row) \in seen
    BY <2>4 DEF RowsRead
  <2> QED
    BY <2>4, <2>5
<1> HIDE DEF seen
<1> QED
  BY <1>6, <1>7 DEF seen

(* The direct rates of the rows are the prices of the last markets.        *)
LEMMA DirectFromDigests ==
    ASSUME TradesStored, NEW h \in Hours, NEW base \in Paths
    PROVE  LET rates == currencyRatesFrom(RowsRead(h), base)
           IN  /\ DOMAIN rates = {p \in Paths : Traded(h, base, p)}
               /\ \A p \in DOMAIN rates : rates[p].vwap = Price(h, base, p)
<1> DEFINE found     == {QuoteOf(row, base) : row \in {r \in RowsRead(h) : base \in {r.itemA, r.itemB}}}
           rated     == {q \in found : Rated(q.base, q.quote)}
           rowOf(id) == CHOOSE q \in rated : q.id = id
           rates     == currencyRatesFrom(RowsRead(h), base)
           traded    == {p \in Paths : Traded(h, base, p)}
<1>1. rates = [id \in {q.id : q \in rated} |-> computeRate(id, rowOf(id).base, rowOf(id).quote)]
  BY DEF currencyRatesFrom
<1>2. found = {QuoteRead(h, base, p) : p \in Queried(h, base)}
  BY QuotesRead
<1>3. \A p \in Paths : QuoteRead(h, base, p).id = p
  BY DEF QuoteRead
<1>4. ASSUME NEW p \in Queried(h, base)
      PROVE  Rated(QuoteRead(h, base, p).base, QuoteRead(h, base, p).quote) <=> p \in traded
  <2>1. p \in Paths /\ Trades(h, base, p) # {}
        /\ \E t \in {base, p} \intersect Tradables : ~placeholder[t]
    BY DEF Queried
  <2>2. PICK m \in MarketsSent : LastTrade(h, base, p) = m.amounts
    <3>1. ids \in IdOrders /\ ingested[h] \in Seq(MarketsSent)
      BY DEF TradesStored
    <3>2. Max(Trades(h, base, p)) \in Trades(h, base, p)
      BY <2>1, <3>1, LastTradeLasts
    <3>3. PICK k \in DOMAIN ingested[h] : k = Max(Trades(h, base, p))
      BY <3>2 DEF Trades
    <3>4. ingested[h][k] \in MarketsSent
      <4> HIDE DEF MarketsSent
      <4> QED
        BY <3>1
    <3> QED
      BY <3>3, <3>4 DEF LastTrade
  <2>3. \A x \in Paths : m.amounts[x].volume \in Nat
    BY AnswersAssumption DEF MarketsSent, AmountsSent, Fields, Numbers
  <2>4. PICK u, v \in Nat : u = m.amounts[base].volume /\ v = m.amounts[p].volume
    BY <2>1, <2>3
  <2>5. p \in traded <=> u > 0 /\ v > 0
    BY <2>1, <2>2, <2>4 DEF Traded
  <2>6. Rated(QuoteRead(h, base, p).base, QuoteRead(h, base, p).quote) <=> u # 0 /\ v # 0
    BY <2>2, <2>4 DEF Rated, QuoteRead
  <2> QED
    BY <2>5, <2>6
<1>5. traded \subseteq Queried(h, base)
  BY DEF Traded, Queried
<1> HIDE DEF found, rates, traded
<1>6. rated = {QuoteRead(h, base, p) : p \in traded}
  BY <1>2, <1>4, <1>5
<1>7. traded \subseteq Paths
  BY DEF traded
<1> HIDE DEF rated
<1>8. {q.id : q \in rated} = traded
  BY <1>3, <1>6, <1>7
<1>9. ASSUME NEW p \in traded PROVE rates[p].vwap = Price(h, base, p)
  <2>1. rowOf(p) = QuoteRead(h, base, p)
    BY <1>3, <1>6, <1>7
  <2>2. rates[p] = computeRate(p, QuoteRead(h, base, p).base, QuoteRead(h, base, p).quote)
    BY <1>1, <1>8, <2>1
  <2> QED
    BY <2>2 DEF computeRate, QuoteRead, Price
<1> QED
  BY <1>1, <1>8, <1>9 DEF rates, traded

(* So are the chained ones, along the same quote.                          *)
LEMMA RatesFromDigests ==
    ASSUME TradesStored, AnswerKnows, NEW h \in Hours
    PROVE  Agree(RatesByID(RowsRead(h), Base, quotes), DigestRates(h))
<1> DEFINE rows     == RowsRead(h)
           via      == quotes
           direct   == currencyRatesFrom(rows, Base)
           firsts   == {j \in DOMAIN via : via[j] \in DOMAIN direct}
           onward   == [i \in firsts |-> currencyRatesFrom(rows, via[i])]
           reach(i) == DOMAIN onward[i] \ {Base}
           legs(id) == {i \in DOMAIN onward : id \in reach(i)}
           rates    == RatesByID(rows, Base, quotes)
           bought   == {p \in Paths : Traded(h, Base, p)}
           chained  == {p \in Paths \ {Base} : \E i \in DOMAIN quotes : Leads(h, i, p)}
           leads(p) == {i \in DOMAIN quotes : Leads(h, i, p)}
           expected == DigestRates(h)
<1>1. /\ quotes \in Seq(Paths) /\ Base \in Paths
      /\ \A i \in DOMAIN quotes : quotes[i] \in Paths
  BY AnswersAssumption DEF AnswerKnows
<1>2. rows \in SUBSET Rows
  BY RowRead DEF RowsRead, Rateable, AnswerKnows
<1>3. rates = [id \in DOMAIN direct \union UNION {reach(i) : i \in DOMAIN onward} |->
                  IF id \in DOMAIN direct THEN direct[id]
                  ELSE Chain(direct[via[Min(legs(id))]], onward[Min(legs(id))][id])]
  BY DEF RatesByID
<1>4. expected = [p \in bought \union chained |->
                     IF p \in bought THEN Price(h, Base, p)
                     ELSE Times(Price(h, Base, quotes[Min(leads(p))]),
                                Price(h, quotes[Min(leads(p))], p))]
  BY DEF DigestRates
<1>5. DOMAIN direct = bought /\ \A p \in bought : direct[p].vwap = Price(h, Base, p)
  BY <1>1, DirectFromDigests
<1>6. ASSUME NEW i \in firsts
      PROVE  LET second == currencyRatesFrom(rows, via[i])
             IN  /\ onward[i] = second /\ RatesOf(second)
                 /\ DOMAIN second = {p \in Paths : Traded(h, quotes[i], p)}
                 /\ \A p \in DOMAIN second : second[p].vwap = Price(h, quotes[i], p)
  BY <1>1, <1>2, DirectFromDigests, DirectRatesOf
<1>7. firsts = {i \in DOMAIN quotes : Traded(h, Base, quotes[i])} /\ DOMAIN onward = firsts
  BY <1>1, <1>5
<1> HIDE DEF direct, firsts, onward, rates, expected, rows
<1>8. \A p \in Paths \ {Base} : legs(p) = leads(p)
  BY <1>6, <1>7 DEF Leads
<1>9. UNION {reach(i) : i \in DOMAIN onward} = chained
  <2>1. \A i \in DOMAIN onward : reach(i) = {p \in Paths \ {Base} : Traded(h, quotes[i], p)}
    BY <1>6, <1>7
  <2> QED
    BY <1>7, <2>1 DEF Leads
<1>10. DOMAIN rates = DOMAIN expected
  BY <1>3, <1>4, <1>5, <1>9
<1>11. ASSUME NEW p \in DOMAIN rates PROVE rates[p].vwap = expected[p]
  <2>1. CASE p \in bought
    BY <1>3, <1>4, <1>5, <2>1
  <2>2. CASE p \notin bought
    <3>1. p \in chained /\ p \in Paths \ {Base}
      BY <1>3, <1>5, <1>9, <2>2
    <3>2. leads(p) \in SUBSET Nat /\ leads(p) # {}
      BY <1>1, <3>1
    <3>3. PICK k \in leads(p) : k = Min(leads(p))
      <4> HIDE DEF leads
      <4> QED
        BY <3>2, MinIn
    <3>4. k \in firsts /\ p \in DOMAIN onward[k] /\ quotes[k] \in bought
      BY <1>1, <1>6, <1>7, <3>1, <3>3 DEF Leads
    <3>5. rates[p] = Chain(direct[quotes[k]], onward[k][p])
      BY <1>3, <1>5, <1>8, <2>2, <3>1, <3>3
    <3>6. expected[p] = Times(Price(h, Base, quotes[k]), Price(h, quotes[k], p))
      BY <1>4, <2>2, <3>1, <3>3
    <3>7. PICK second : second = onward[k][p]
      OBVIOUS
    <3>8. DOMAIN second = RateFields /\ second.vwap = Price(h, quotes[k], p)
      BY <1>6, <3>4, <3>7 DEF RatesOf
    <3>9. Chain(direct[quotes[k]], second).vwap = Times(direct[quotes[k]].vwap, second.vwap)
      BY <3>8 DEF Chain, RateFields
    <3> QED
      BY <1>5, <3>4, <3>5, <3>6, <3>7, <3>8, <3>9
  <2> QED
    BY <2>1, <2>2
<1> QED
  BY <1>10, <1>11 DEF Agree, Same, rates, expected, rows

(* For any digests, ids, numbers and default pairs, however often an hour  *)
(* is ingested: the rates of the rows that GetRates reads are those of the *)
(* digests, the last market of a pair first and on the right side.         *)
THEOREM ReadsAlwaysMatch == AnswersSpec => ReadsMatchDigests
<1> DEFINE Matches ==
        /\ ReadRange => \A h \in DOMAIN rowsByHour' :
                            Agree(RatesByID(rowsByHour'[h], Base, quotes), DigestRates(h))
        /\ ReadOlder => \A h \in DOMAIN olderRows' :
                            Agree(RatesByID(olderRows'[h], Base, quotes), DigestRates(h))
<1>1. \A hours : toSnapshotRowsByHour(hours) = [h \in hours |-> RowsRead(h)]
  BY DEF toSnapshotRowsByHour, RowsRead
<1>2. ASSUME TradesStored, AnswerKnows, TypeOK PROVE Matches
  <2>1. ASSUME ReadRange
        PROVE  /\ rowsByHour' = [h \in byHour' |-> RowsRead(h)]
               /\ byHour' \subseteq Hours
    BY <1>1, <1>2, <2>1 DEF ReadRange, ListSnapshotRates, InRange, TypeOK
  <2>2. ASSUME ReadOlder
        PROVE  /\ olderRows' = [h \in older' |-> RowsRead(h)]
               /\ older' \subseteq Hours
    BY <1>1, <1>2, <2>2 DEF ReadOlder, ListOlderRates, InRange, TypeOK
  <2> QED
    BY <1>2, <2>1, <2>2, RatesFromDigests
<1>3. AnswersSpec => []TradesStored
  BY TradesInit, TradesStep, PTL DEF AnswersSpec
<1>4. AnswersSpec => []AnswerKnows
  BY AnswerInit, AnswerStep, PTL DEF AnswersSpec
<1>5. AnswersSpec => []TypeOK
  BY AnswersImplementRates, TypeCorrect, PTL
<1> QED
  BY <1>2, <1>3, <1>4, <1>5, PTL DEF ReadsMatchDigests
=============================================================================
