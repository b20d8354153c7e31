----------------------- MODULE DemandEvaluationProofs -----------------------
(***************************************************************************)
(* What holds of the evaluation of every daily series: which folds the     *)
(* methods share, that the boards have a winner when they can, and what    *)
(* the evidence against zero is worth.                                     *)
(***************************************************************************)
EXTENDS DemandEvaluation, FiniteSetTheorems, WellFoundedInduction, TLAPS

-----------------------------------------------------------------------------
\* An inhabited set of numbers has a least one.
LEMMA LeastNumber ==
    ASSUME NEW S, S \subseteq Nat, S # {}
    PROVE  \E m \in S : \A n \in S : m <= n
<1> DEFINE Less == {pair \in Nat \X Nat : pair[1] < pair[2]}
<1>1. IsWellFoundedOn(Less, Nat)
  BY NatLessThanWellFounded DEF OpToRel
<1>2. PICK m \in S : \A n \in S : ~ (<<n, m>> \in Less)
  BY <1>1, WFMin
<1>3. \A n \in S : ~ (n < m)
  BY <1>2
<1> QED
  BY <1>3

\* The image of a finite set under a function is finite.
LEMMA FiniteImage ==
    ASSUME NEW S, IsFiniteSet(S), NEW f
    PROVE  IsFiniteSet({f[x] : x \in S})
<1> DEFINE T == {f[x] : x \in S}
           g == [x \in S |-> f[x]]
<1>1. g \in Surjection(S, T)
  BY DEF Surjection
<1> QED
  BY <1>1, FS_Surjection

\* A finite set of numbers lies below some number: the numbers up to one of its
\* members are together a finite set, and so miss one.
LEMMA BoundOf ==
    ASSUME NEW S, S \subseteq Nat, IsFiniteSet(S)
    PROVE  \E n \in Nat : \A m \in S : m <= n
<1> DEFINE upTo == [m \in S |-> 0 .. m]
           All == UNION {upTo[m] : m \in S}
           n == Cardinality(All)
<1>1. IsFiniteSet(All)
  <2>1. IsFiniteSet({upTo[m] : m \in S})
    BY FiniteImage
  <2>2. \A m \in S : IsFiniteSet(upTo[m])
    <3> SUFFICES ASSUME NEW m \in S PROVE IsFiniteSet(0 .. m)
      OBVIOUS
    <3>1. 0 \in Int /\ m \in Int
      OBVIOUS
    <3> QED
      BY <3>1, FS_Interval
  <2>3. \A T \in {upTo[m] : m \in S} : IsFiniteSet(T)
    BY <2>2
  <2> HIDE DEF upTo
  <2> QED
    BY <2>1, <2>3, FS_UNION
<1>2. n \in Nat
  BY <1>1, FS_CardinalityType
<1>3. n \notin All
  <2> SUFFICES ASSUME n \in All PROVE FALSE
    OBVIOUS
  <2>1. PICK m \in S : n \in 0 .. m
    OBVIOUS
  <2>2. 0 .. n \subseteq All
    <3>1. 0 .. n \subseteq upTo[m]
      BY <2>1, <1>2
    <3> QED
      BY <3>1
  <2>3. Cardinality(0 .. n) = n + 1
    BY <1>2, FS_Interval
  <2>4. Cardinality(0 .. n) <= n
    BY <1>1, <2>2, FS_Subset
  <2> HIDE DEF n
  <2> QED
    BY <1>2, <2>3, <2>4
<1>4. \A m \in S : m <= n
  <2> SUFFICES ASSUME NEW m \in S, n < m PROVE FALSE
    BY <1>2
  <2>1. n \in upTo[m]
    BY <1>2
  <2> QED
    BY <1>3, <2>1
<1> QED
  BY <1>2, <1>4

\* A finite inhabited set of numbers has a first and a last one.
LEMMA MinAndMax ==
    ASSUME NEW S, S \subseteq Nat, IsFiniteSet(S), S # {}
    PROVE  /\ Min(S) \in S /\ \A m \in S : Min(S) <= m
           /\ Max(S) \in S /\ \A m \in S : m <= Max(S)
<1>1. \E f \in S : \A m \in S : f <= m
  BY LeastNumber
<1>2. \E l \in S : \A m \in S : m <= l
  <2>1. PICK n \in Nat : \A m \in S : m <= n
    BY BoundOf
  <2> DEFINE T == {n - m : m \in S}
  <2>2. T \subseteq Nat /\ T # {}
    <3>1. ASSUME NEW m \in S PROVE n - m \in Nat
      <4>1. m \in Nat /\ m <= n
        BY <2>1
      <4> QED
        BY <4>1
    <3> QED
      BY <3>1
  <2>3. PICK t \in T : \A u \in T : t <= u
    <3> HIDE DEF T
    <3> QED
      BY <2>2, LeastNumber
  <2>4. PICK l \in S : t = n - l
    OBVIOUS
  <2>5. ASSUME NEW m \in S PROVE m <= l
    <3>1. n - l <= n - m
      BY <2>3, <2>4
    <3>2. l \in Nat /\ m \in Nat
      OBVIOUS
    <3> HIDE DEF T
    <3> QED
      BY <3>1, <3>2
  <2> QED
    BY <2>5
<1> QED
  BY <1>1, <1>2 DEF Min, Max

-----------------------------------------------------------------------------
(***************************************************************************)
(* Sums.                                                                   *)
(***************************************************************************)
\* The units that a sum counts.
Parts(f) == UNION {{x} \X (1 .. f[x]) : x \in DOMAIN f}
Sums(f) == IsFiniteSet(DOMAIN f) /\ \A x \in DOMAIN f : f[x] \in Nat

LEMMA SumType ==
    ASSUME NEW f, Sums(f)
    PROVE  IsFiniteSet(Parts(f)) /\ Sum(f) \in Nat
<1> DEFINE part == [x \in DOMAIN f |-> {x} \X (1 .. f[x])]
<1>1. Parts(f) = UNION {part[x] : x \in DOMAIN f}
  BY DEF Parts
<1>2. IsFiniteSet({part[x] : x \in DOMAIN f})
  <2>1. IsFiniteSet(DOMAIN f)
    BY DEF Sums
  <2> HIDE DEF part
  <2> QED
    BY <2>1, FiniteImage
<1>3. ASSUME NEW x \in DOMAIN f PROVE IsFiniteSet(part[x])
  <2>1. IsFiniteSet(1 .. f[x])
    BY FS_Interval DEF Sums
  <2>2. IsFiniteSet({x} \X (1 .. f[x]))
    BY <2>1, FS_Singleton, FS_Product
  <2> QED
    BY <2>2
<1>4. \A T \in {part[x] : x \in DOMAIN f} : IsFiniteSet(T)
  BY <1>3
<1>5. IsFiniteSet(Parts(f))
  <2> HIDE DEF part
  <2> QED
    BY <1>1, <1>2, <1>4, FS_UNION
<1> QED
  BY <1>5, FS_CardinalityType DEF Sum, Parts

LEMMA SumOfZeros ==
    ASSUME NEW f, \A x \in DOMAIN f : f[x] = 0
    PROVE  Sum(f) = 0
<1>1. UNION {{x} \X (1 .. f[x]) : x \in DOMAIN f} = {}
  BY SMT
<1> QED
  BY <1>1, FS_EmptySet DEF Sum

\* The sum over two separate sets is the sum of the sums.
LEMMA SumAdds ==
    ASSUME NEW f, Sums(f), NEW A, NEW B, DOMAIN f = A \cup B, A \cap B = {}
    PROVE  Sum(f) = Sum([x \in A |-> f[x]]) + Sum([x \in B |-> f[x]])
<1> DEFINE g == [x \in A |-> f[x]]
           h == [x \in B |-> f[x]]
<1>1. Sums(g) /\ Sums(h)
  BY FS_Subset DEF Sums
<1>2. IsFiniteSet(Parts(g)) /\ IsFiniteSet(Parts(h))
  BY <1>1, SumType
<1>3. Parts(f) = Parts(g) \cup Parts(h)
  BY DEF Parts
<1>4. Parts(g) \cap Parts(h) = {}
  BY DEF Parts
<1>5. Cardinality(Parts(f)) = Cardinality(Parts(g)) + Cardinality(Parts(h)) - 0
  BY <1>2, <1>3, <1>4, FS_Union, FS_EmptySet
<1>6. Cardinality(Parts(g)) \in Nat /\ Cardinality(Parts(h)) \in Nat
  BY <1>2, FS_CardinalityType
<1> HIDE DEF g, h
<1>7. Sum(f) = Sum(g) + Sum(h)
  BY <1>5, <1>6 DEF Sum, Parts
<1> QED
  BY <1>7 DEF g, h

LEMMA SumTypeOn ==
    ASSUME NEW D, IsFiniteSet(D), NEW f, DOMAIN f = D, \A x \in D : f[x] \in Nat
    PROVE  Sum(f) \in Nat
BY SumType DEF Sums

-----------------------------------------------------------------------------
(***************************************************************************)
(* Series, and what is predicted from them.                                *)
(***************************************************************************)
IsSeries(s) ==
    /\ Len(s) \in Nat \ {0}
    /\ DOMAIN s = 1 .. Len(s)
    /\ \A i \in 1 .. Len(s) : /\ IsKnown(s[i]) => s[i].units \in Nat
                              /\ ~IsKnown(s[i]) => s[i].units = None
                              /\ s[i].status = "confirmed_zero" => s[i].units = 0

\* croston gives a total wherever sba_croston is tried, or forecasts from the end.
IsCroston(s, croston) ==
    \A o \in 1 .. Len(s) : CanForecast(s, o, "sba_croston")
        /\ (o \in Folds(s, "sba_croston") \/ o = Len(s)) => croston[o] \in Nat

LEMMA ScaleType == Scale \in Nat \ {0} /\ HorizonDays <= Scale /\ Scale <= MinTraining
<1>1. MeanWeeks \in Nat /\ MeanWeeks >= 1 /\ HorizonDays \in Nat /\ HorizonDays >= 1
  BY EvaluationAssumption
<1>2. MeanWeeks * HorizonDays \in Nat /\ MeanWeeks * HorizonDays >= HorizonDays
  BY <1>1
<1> QED
  BY <1>1, <1>2, EvaluationAssumption DEF Scale

LEMMA HistoryBounds ==
    ASSUME NEW c
    PROVE  /\ History(c) \in Nat \ {0}
           /\ History(c) <= MinTraining
<1>1. History(c) \in {1, HorizonDays, Scale}
  BY DEF History, Scale
<1> QED
  BY <1>1, ScaleType, EvaluationAssumption

LEMMA FirstOriginIs ==
    ASSUME NEW c
    PROVE  FirstOrigin(c) = MinTraining
<1>1. History(c) \in Nat /\ MinTraining \in Nat /\ History(c) <= MinTraining
  BY HistoryBounds, EvaluationAssumption
<1> DEFINE S == {MinTraining, History(c)}
<1>2. \A x \in S : (\A y \in S : x >= y) => x = MinTraining
  BY <1>1
<1>3. MinTraining \in S /\ \A y \in S : MinTraining >= y
  BY <1>1
<1> QED
  BY <1>2, <1>3 DEF FirstOrigin, Max

\* Where a fold of a method begins, and the days it reads and tests.
LEMMA OriginRange ==
    ASSUME NEW s, IsSeries(s), NEW c, NEW o \in Origins(s, c)
    PROVE  /\ o \in Nat /\ o >= MinTraining /\ o >= 1 /\ o >= History(c)
           /\ o + HorizonDays <= Len(s)
           /\ TestDays(o) \subseteq 1 .. Len(s)
           /\ 1 .. o \subseteq 1 .. Len(s)
<1>1. o \in MinTraining .. (Len(s) - HorizonDays)
  BY FirstOriginIs DEF Origins
<1>2. MinTraining \in Nat /\ HorizonDays \in Nat /\ Len(s) \in Nat
  BY EvaluationAssumption DEF IsSeries
<1>3. MinTraining >= History(c) /\ History(c) >= 1 /\ History(c) \in Nat
  BY HistoryBounds
<1> QED
  BY <1>1, <1>2, <1>3 DEF TestDays

LEMMA NeededRange ==
    ASSUME NEW s, IsSeries(s), NEW c, NEW o \in 1 .. Len(s), o >= History(c)
    PROVE  Needed(c, o) \subseteq 1 .. o
<1>1. History(c) \in Nat \ {0} /\ o \in Nat
  BY HistoryBounds DEF IsSeries
<1> QED
  BY <1>1 DEF Needed

LEMMA UnitsType ==
    ASSUME NEW s, IsSeries(s), NEW days, days \subseteq 1 .. Len(s), AllKnown(s, days)
    PROVE  Units(s, days) \in Nat
<1>1. IsFiniteSet(days)
  <2>1. IsFiniteSet(1 .. Len(s))
    BY FS_Interval DEF IsSeries
  <2> QED
    BY <2>1, FS_Subset
<1>2. \A d \in days : s[d].units \in Nat
  BY DEF IsSeries, AllKnown
<1> DEFINE f == [d \in days |-> s[d].units]
<1>3. Sum(f) \in Nat
  BY <1>1, <1>2, SumTypeOn
<1> QED
  BY <1>3 DEF Units

LEMMA DayType ==
    ASSUME NEW s, IsSeries(s), NEW c \in Daily, NEW o \in 1 .. Len(s), CanForecast(s, o, c),
           NEW i \in 1 .. HorizonDays
    PROVE  PredictedDay(s, o, c, i) \in Nat
<1>1. Scale \in Nat /\ MeanWeeks \in Nat /\ HorizonDays \in Nat /\ o \in Nat /\ i \in Nat
  BY ScaleType, EvaluationAssumption DEF IsSeries
<1>2. Needed(c, o) \subseteq 1 .. o /\ o >= History(c)
  BY NeededRange DEF CanForecast
<1>3. Units(s, Needed(c, o)) \in Nat
  BY <1>1, <1>2, UnitsType DEF CanForecast, IsSeries
<1>4. \A d \in Needed(c, o) : s[d].units \in Nat
  BY <1>2 DEF IsSeries, CanForecast, AllKnown
<1>5. CASE c = "zero"
  BY <1>5 DEF PredictedDay
<1>6. CASE c = "latest_value"
  <2>1. o \in Needed(c, o)
    BY <1>6, <1>1 DEF Needed, History
  <2> QED
    BY <1>1, <1>4, <1>6, <2>1 DEF PredictedDay
<1>7. CASE c = "seasonal_naive_7"
  <2>1. o - HorizonDays + i \in Needed(c, o)
    BY <1>7, <1>1 DEF Needed, History
  <2> QED
    BY <1>1, <1>4, <1>7, <2>1 DEF PredictedDay
<1>8. CASE c = "moving_average_7"
  BY <1>1, <1>3, <1>8 DEF PredictedDay
<1>9. CASE c = "moving_average_28"
  BY <1>1, <1>3, <1>9 DEF PredictedDay
<1> QED
  BY <1>5, <1>6, <1>7, <1>8, <1>9 DEF Daily

\* A forecast that can be made is a number of units.
LEMMA TotalType ==
    ASSUME NEW s, IsSeries(s), NEW c \in Candidates, NEW o \in 1 .. Len(s), CanForecast(s, o, c),
           NEW croston, c = "sba_croston" => croston[o] \in Nat
    PROVE  PredictedTotal(s, o, c, croston) \in Nat
<1>1. Scale \in Nat /\ MeanWeeks \in Nat /\ HorizonDays \in Nat
  BY ScaleType, EvaluationAssumption
<1>2. CASE c = "zero"
  BY <1>2 DEF PredictedTotal
<1>3. CASE c \in {"last_week_total", "mean_4_weekly_totals"}
  <2>1. Needed(c, o) \subseteq 1 .. Len(s)
    BY NeededRange DEF CanForecast, IsSeries
  <2>2. Units(s, Needed(c, o)) \in Nat
    BY <2>1, UnitsType DEF CanForecast
  <2> QED
    BY <1>1, <1>3, <2>2 DEF PredictedTotal, Daily
<1>4. CASE c = "sba_croston"
  BY <1>4 DEF PredictedTotal, Daily
<1>5. CASE c \in Daily \ {"zero"}
  <2> DEFINE f == [i \in 1 .. HorizonDays |-> PredictedDay(s, o, c, i)]
  <2>1. \A i \in 1 .. HorizonDays : f[i] \in Nat
    BY <1>5, DayType
  <2>2. IsFiniteSet(1 .. HorizonDays)
    BY <1>1, FS_Interval
  <2>3. Sum(f) \in Nat
    <3>1. DOMAIN f = 1 .. HorizonDays
      OBVIOUS
    <3> HIDE DEF f
    <3> QED
      BY <2>1, <2>2, <3>1, SumTypeOn
  <2>4. PredictedTotal(s, o, c, croston) = Sum(f)
    BY <1>5 DEF PredictedTotal, Daily
  <2> QED
    BY <2>3, <2>4
<1> QED
  BY <1>2, <1>3, <1>4, <1>5 DEF Candidates, Weekly, Daily

-----------------------------------------------------------------------------
(***************************************************************************)
(* Errors.                                                                 *)
(***************************************************************************)
LEMMA ErrorTypes ==
    ASSUME NEW e, IsFiniteSet(DOMAIN e), \A x \in DOMAIN e : e[x] \in Int
    PROVE  AbsoluteError(e) \in Nat /\ SquaredError(e) \in Nat /\ Bias(e) \in Nat
<1> DEFINE over == [x \in DOMAIN e |-> IF e[x] > 0 THEN e[x] ELSE 0]
           under == [x \in DOMAIN e |-> IF e[x] < 0 THEN -e[x] ELSE 0]
           absolute == [x \in DOMAIN e |-> Abs(e[x])]
           squared == [x \in DOMAIN e |-> e[x] * e[x]]
<1>1. \A x \in DOMAIN e : /\ over[x] \in Nat /\ under[x] \in Nat
                          /\ absolute[x] \in Nat
  BY DEF Abs
<1>2. \A x \in DOMAIN e : squared[x] \in Nat
  <2>1. \A n \in Int : n * n \in Nat
    OBVIOUS
  <2> QED
    BY <2>1
<1>3. /\ DOMAIN over = DOMAIN e /\ DOMAIN under = DOMAIN e
      /\ DOMAIN absolute = DOMAIN e /\ DOMAIN squared = DOMAIN e
  OBVIOUS
<1> HIDE DEF over, under, absolute, squared
<1>4. Sum(over) \in Nat /\ Sum(under) \in Nat /\ Sum(absolute) \in Nat /\ Sum(squared) \in Nat
  BY <1>1, <1>2, <1>3, SumTypeOn
<1>5. Abs(Sum(over) - Sum(under)) \in Nat
  BY <1>4 DEF Abs
<1> QED
  BY <1>4, <1>5 DEF AbsoluteError, SquaredError, Bias, Over, Under, over, under, absolute, squared

LEMMA FoldFacts ==
    ASSUME NEW s, IsSeries(s), NEW c, NEW o \in Folds(s, c)
    PROVE  /\ o \in Origins(s, c) /\ o \in 1 .. Len(s)
           /\ CanForecast(s, o, c) /\ AllKnown(s, TestDays(o))
           /\ Units(s, TestDays(o)) \in Nat
<1>1. o \in Origins(s, c) /\ CanForecast(s, o, c) /\ AllKnown(s, TestDays(o))
  BY DEF Folds
<1>2. o \in 1 .. Len(s) /\ TestDays(o) \subseteq 1 .. Len(s)
  BY <1>1, OriginRange
<1> QED
  BY <1>1, <1>2, UnitsType

LEMMA FoldsFinite ==
    ASSUME NEW s, IsSeries(s), NEW c
    PROVE  IsFiniteSet(Folds(s, c)) /\ Cardinality(Folds(s, c)) \in Nat
<1>1. IsFiniteSet(1 .. Len(s))
  BY FS_Interval DEF IsSeries
<1>2. Folds(s, c) \subseteq 1 .. Len(s)
  BY FoldFacts
<1> QED
  BY <1>1, <1>2, FS_Subset, FS_CardinalityType

LEMMA TotalErrorTypes ==
    ASSUME NEW s, IsSeries(s), NEW croston, IsCroston(s, croston),
           NEW c \in Candidates, NEW folds, folds \subseteq Folds(s, c)
    PROVE  LET e == TotalErrors(s, folds, c, croston)
           IN  /\ IsFiniteSet(folds) /\ DOMAIN e = folds /\ \A o \in folds : e[o] \in Int
               /\ AbsoluteError(e) \in Nat /\ Bias(e) \in Nat
<1> DEFINE e == TotalErrors(s, folds, c, croston)
<1>1. IsFiniteSet(folds) /\ DOMAIN e = folds
  BY FoldsFinite, FS_Subset DEF TotalErrors
<1>2. ASSUME NEW o \in folds PROVE e[o] \in Int
  <2>1. o \in 1 .. Len(s) /\ CanForecast(s, o, c) /\ Units(s, TestDays(o)) \in Nat
    BY FoldFacts
  <2>2. PredictedTotal(s, o, c, croston) \in Nat
    BY <2>1, TotalType DEF IsCroston
  <2>3. Scale \in Nat
    BY ScaleType
  <2> QED
    BY <2>1, <2>2, <2>3 DEF TotalErrors
<1> HIDE DEF e
<1>3. AbsoluteError(e) \in Nat /\ Bias(e) \in Nat
  BY <1>1, <1>2, ErrorTypes
<1> QED
  BY <1>1, <1>2, <1>3 DEF e

LEMMA DayErrorTypes ==
    ASSUME NEW s, IsSeries(s), NEW c \in Daily, NEW folds, folds \subseteq Folds(s, c)
    PROVE  LET e == DayErrors(s, folds, c)
           IN  AbsoluteError(e) \in Nat /\ SquaredError(e) \in Nat /\ Bias(e) \in Nat
<1> DEFINE e == DayErrors(s, folds, c)
<1>1. HorizonDays \in Nat /\ Scale \in Nat
  BY ScaleType, EvaluationAssumption
<1>2. DOMAIN e = folds \X (1 .. HorizonDays)
  BY DEF DayErrors
<1>3. IsFiniteSet(DOMAIN e)
  <2> HIDE DEF e
  <2>1. IsFiniteSet(folds)
    BY FoldsFinite, FS_Subset
  <2>2. IsFiniteSet(1 .. HorizonDays)
    BY <1>1, FS_Interval
  <2>3. IsFiniteSet(folds \X (1 .. HorizonDays))
    BY <2>1, <2>2, FS_Product
  <2> QED
    BY <1>2, <2>3
<1>4. ASSUME NEW x \in DOMAIN e PROVE e[x] \in Int
  <2>1. x[1] \in folds /\ x[2] \in 1 .. HorizonDays /\ x \in folds \X (1 .. HorizonDays)
    BY <1>2
  <2>2. /\ x[1] \in 1 .. Len(s) /\ CanForecast(s, x[1], c) /\ AllKnown(s, TestDays(x[1]))
        /\ x[1] \in Origins(s, c)
    BY <2>1, FoldFacts
  <2>3. PredictedDay(s, x[1], c, x[2]) \in Nat
    BY <2>1, <2>2, DayType
  <2>4. x[1] + x[2] \in TestDays(x[1]) /\ TestDays(x[1]) \subseteq 1 .. Len(s)
    BY <1>1, <2>1, <2>2, OriginRange DEF TestDays, IsSeries
  <2>5. s[x[1] + x[2]].units \in Nat
    BY <2>2, <2>4 DEF IsSeries, AllKnown
  <2> QED
    BY <1>1, <2>1, <2>3, <2>5 DEF DayErrors
<1> HIDE DEF e
<1>5. AbsoluteError(e) \in Nat /\ SquaredError(e) \in Nat /\ Bias(e) \in Nat
  BY <1>3, <1>4, ErrorTypes
<1> QED
  BY <1>5 DEF e

-----------------------------------------------------------------------------
(***************************************************************************)
(* The winner of a board.                                                  *)
(***************************************************************************)
LEMMA SmallestValue ==
    ASSUME NEW S, S # {}, NEW f, \A x \in S : f[x] \in Nat
    PROVE  \E x \in S : \A y \in S : f[x] <= f[y]
<1> DEFINE T == {f[x] : x \in S}
<1>1. T \subseteq Nat /\ T # {}
  OBVIOUS
<1>2. PICK t \in T : \A u \in T : t <= u
  <2> HIDE DEF T
  <2> QED
    BY <1>1, LeastNumber
<1> QED
  BY <1>2

LEMMA RankIsOrder ==
    ASSUME NEW c \in Candidates
    PROVE  Rank(c) \in Nat /\ \A d \in Candidates : Rank(c) = Rank(d) => c = d
<1>1. \A x \in Candidates : \E i \in 1 .. Len(Simplest) : Simplest[i] = x
  BY SMTT(30) DEF Candidates, Daily, Weekly, Simplest
<1>2. \A x \in Candidates : Rank(x) \in 1 .. Len(Simplest) /\ Simplest[Rank(x)] = x
  BY <1>1 DEF Rank
<1>3. Len(Simplest) = 8
  BY DEF Simplest
<1> QED
  BY <1>2, <1>3

\* The order of the leaderboards always has a first: least error, then least bias,
\* then the simplest method.
LEMMA BestIsContender ==
    ASSUME NEW contenders, contenders \subseteq Candidates, contenders # {},
           NEW error, NEW bias, \A c \in contenders : error[c] \in Nat /\ bias[c] \in Nat
    PROVE  Best(contenders, error, bias) \in contenders
<1> DEFINE Closest == {c \in contenders : \A d \in contenders : error[c] <= error[d]}
           Fair == {c \in Closest : \A d \in Closest : bias[c] <= bias[d]}
           rank == [c \in Candidates |-> Rank(c)]
<1>1. Closest # {}
  BY SmallestValue
<1>2. Fair # {}
  <2>1. \A c \in Closest : bias[c] \in Nat
    OBVIOUS
  <2> HIDE DEF Closest
  <2> QED
    BY <1>1, <2>1, SmallestValue
<1>3. PICK c \in Fair : \A d \in Fair : rank[c] <= rank[d]
  <2>1. \A x \in Fair : rank[x] \in Nat
    BY RankIsOrder
  <2> HIDE DEF Fair, rank
  <2> QED
    BY <1>2, <2>1, SmallestValue
<1>4. c \in contenders
  OBVIOUS
<1>5. ASSUME NEW d \in contenders \ {c} PROVE Before(c, d, error, bias)
  <2>1. error[c] < error[d] \/ error[c] = error[d]
    OBVIOUS
  <2>2. CASE error[c] < error[d]
    BY <2>2 DEF Before
  <2>3. CASE error[c] = error[d]
    <3>1. d \in Closest
      BY <2>3
    <3>2. bias[c] < bias[d] \/ bias[c] = bias[d]
      BY <3>1
    <3>3. CASE bias[c] < bias[d]
      BY <2>3, <3>3 DEF Before
    <3>4. CASE bias[c] = bias[d]
      <4>1. d \in Fair
        BY <3>1, <3>4
      <4>2. Rank(c) <= Rank(d)
        BY <1>3, <4>1
      <4>3. Rank(c) \in Nat /\ Rank(d) \in Nat /\ Rank(c) # Rank(d)
        BY RankIsOrder
      <4>4. Rank(c) < Rank(d)
        BY <4>2, <4>3
      <4> QED
        BY <2>3, <3>4, <4>4 DEF Before
    <3> QED
      BY <3>2, <3>3, <3>4
  <2> QED
    BY <2>1, <2>2, <2>3
<1> HIDE DEF Closest, Fair, rank
<1> QED
  BY <1>4, <1>5 DEF Best

-----------------------------------------------------------------------------
(***************************************************************************)
(* The folds of the weekly methods and of zero are nested.                 *)
(***************************************************************************)
LEMMA LessNeeded ==
    ASSUME NEW s, NEW c, NEW d, History(d) <= History(c),
           \A o \in Nat : o >= History(c) => Needed(d, o) \subseteq Needed(c, o)
    PROVE  Folds(s, c) \subseteq Folds(s, d)
<1> SUFFICES ASSUME NEW o \in Folds(s, c) PROVE o \in Folds(s, d)
  OBVIOUS
<1>1. Origins(s, c) = Origins(s, d)
  BY FirstOriginIs DEF Origins
<1>2. o \in Origins(s, c) /\ CanForecast(s, o, c) /\ AllKnown(s, TestDays(o))
  BY DEF Folds
<1>3. o \in Nat
  BY <1>2, FirstOriginIs, EvaluationAssumption DEF Origins
<1>4. History(c) \in Nat /\ History(d) \in Nat
  BY HistoryBounds
<1>5. CanForecast(s, o, d)
  BY <1>2, <1>3, <1>4 DEF CanForecast, AllKnown
<1> QED
  BY <1>1, <1>2, <1>5 DEF Folds

LEMMA FoldsNested ==
    ASSUME NEW s
    PROVE  /\ Folds(s, "sba_croston") \subseteq Folds(s, "mean_4_weekly_totals")
           /\ Folds(s, "mean_4_weekly_totals") \subseteq Folds(s, "last_week_total")
           /\ \A c \in Candidates : Folds(s, c) \subseteq Folds(s, "zero")
<1>1. HorizonDays \in Nat /\ HorizonDays >= 1 /\ Scale \in Nat /\ Scale >= HorizonDays
  BY ScaleType, EvaluationAssumption
<1>2. /\ History("sba_croston") = Scale /\ History("mean_4_weekly_totals") = Scale
      /\ History("last_week_total") = HorizonDays /\ History("zero") = 1
  BY DEF History, Scale
<1>3. \A o \in Nat : /\ Needed("sba_croston", o) = 1 .. o
                     /\ Needed("mean_4_weekly_totals", o) = (o - Scale + 1) .. o
                     /\ Needed("last_week_total", o) = (o - HorizonDays + 1) .. o
                     /\ Needed("zero", o) = {}
  BY <1>2 DEF Needed
<1>4. Folds(s, "sba_croston") \subseteq Folds(s, "mean_4_weekly_totals")
  <2>1. \A o \in Nat : o >= Scale => (o - Scale + 1) .. o \subseteq 1 .. o
    BY <1>1
  <2> QED
    BY <1>1, <1>2, <1>3, <2>1, LessNeeded
<1>5. Folds(s, "mean_4_weekly_totals") \subseteq Folds(s, "last_week_total")
  <2>1. \A o \in Nat : (o - HorizonDays + 1) .. o \subseteq (o - Scale + 1) .. o
    BY <1>1
  <2> QED
    BY <1>1, <1>2, <1>3, <2>1, LessNeeded
<1>6. ASSUME NEW c \in Candidates PROVE Folds(s, c) \subseteq Folds(s, "zero")
  <2>1. History("zero") <= History(c)
    BY <1>2, HistoryBounds
  <2>2. \A o \in Nat : Needed("zero", o) \subseteq Needed(c, o)
    BY <1>3
  <2> QED
    BY <2>1, <2>2, LessNeeded
<1> QED
  BY <1>4, <1>5, <1>6

FoldsOf(s) == [c \in Candidates |-> Folds(s, c)]

LEMMA EvaluatedFolds ==
    ASSUME NEW s, IsSeries(s), NEW c \in EvaluatedOn(FoldsOf(s))
    PROVE  c \in Candidates /\ Folds(s, c) # {} /\ Cardinality(Folds(s, c)) >= MinFolds
<1>1. c \in Candidates /\ Cardinality(Folds(s, c)) >= MinFolds
  BY DEF EvaluatedOn, FoldsOf
<1>2. MinFolds >= 1 /\ MinFolds \in Nat
  BY EvaluationAssumption
<1> QED
  BY <1>1, <1>2, FS_EmptySet

\* What the weekly methods share are the folds of the most demanding one.
LEMMA WeeklyShare ==
    ASSUME NEW s, IsSeries(s), NEW E, E \subseteq Weekly, E # {}
    PROVE  \E c \in E : Common(FoldsOf(s), E) = Folds(s, c)
<1>1. E \subseteq {"last_week_total", "mean_4_weekly_totals", "sba_croston"}
  BY DEF Weekly
<1>2. \A c \in E : FoldsOf(s)[c] = Folds(s, c)
  BY DEF FoldsOf, Candidates
<1>3. Common(FoldsOf(s), E) = {o \in UNION {Folds(s, c) : c \in E} : \A c \in E : o \in Folds(s, c)}
  BY <1>2 DEF Common
<1>4. ASSUME NEW c \in E, \A d \in E : Folds(s, c) \subseteq Folds(s, d)
      PROVE  Common(FoldsOf(s), E) = Folds(s, c)
  BY <1>3, <1>4
<1>5. CASE "sba_croston" \in E
  BY <1>1, <1>4, <1>5, FoldsNested
<1>6. CASE "sba_croston" \notin E /\ "mean_4_weekly_totals" \in E
  BY <1>1, <1>4, <1>6, FoldsNested
<1>7. CASE "sba_croston" \notin E /\ "mean_4_weekly_totals" \notin E
  <2>1. PICK c \in E : TRUE
    OBVIOUS
  <2>2. \A d \in E : d = c
    BY <1>1, <1>7
  <2> QED
    BY <1>4, <2>2
<1> QED
  BY <1>5, <1>6, <1>7

-----------------------------------------------------------------------------
(***************************************************************************)
(* The boards.                                                             *)
(***************************************************************************)
LEMMA NoneIsNoMethod == None \notin Candidates /\ None # "zero"
BY MethodAssumption DEF Candidates, Daily

LEMMA CommonFolds ==
    ASSUME NEW s, NEW E, E \subseteq Candidates, NEW c \in E
    PROVE  Common(FoldsOf(s), E) \subseteq Folds(s, c)
BY DEF Common, FoldsOf

LEMMA WeeklyWinner ==
    ASSUME NEW s, IsSeries(s), NEW croston, IsCroston(s, croston),
           NEW E, E \subseteq Weekly, E # {}
    PROVE  WeeklyBoard(s, E, Common(FoldsOf(s), E), croston).winner \in E
<1> DEFINE common == Common(FoldsOf(s), E)
           errors == [c \in E |-> TotalErrors(s, common, c, croston)]
           error == [c \in E |-> AbsoluteError(errors[c])]
           bias == [c \in E |-> Bias(errors[c])]
<1>1. E \subseteq Candidates
  BY DEF Candidates
<1>2. ASSUME NEW c \in E PROVE error[c] \in Nat /\ bias[c] \in Nat
  <2>1. common \subseteq Folds(s, c) /\ c \in Candidates
    BY <1>1, CommonFolds
  <2> HIDE DEF common
  <2>2. AbsoluteError(TotalErrors(s, common, c, croston)) \in Nat
        /\ Bias(TotalErrors(s, common, c, croston)) \in Nat
    BY <2>1, TotalErrorTypes
  <2> QED
    BY <2>2
<1>3. WeeklyBoard(s, E, common, croston).winner = Best(E, error, bias)
  BY DEF WeeklyBoard
<1> HIDE DEF error, bias, common
<1>4. Best(E, error, bias) \in E
  BY <1>1, <1>2, BestIsContender
<1> QED
  BY <1>3, <1>4 DEF common

LEMMA DailyWinner ==
    ASSUME NEW s, IsSeries(s), NEW E, E \subseteq Daily
    PROVE  LET winner == DailyBoard(s, E, Common(FoldsOf(s), E)).winner
           IN  winner # None => winner \in E \ {"zero"}
<1> DEFINE common == Common(FoldsOf(s), E)
           F == E \ {"zero"}
           errors == [c \in E |-> DayErrors(s, common, c)]
           scaled == ScaleDefined(s, common)
           error == [c \in E |-> IF scaled THEN SquaredError(errors[c])
                                 ELSE AbsoluteError(errors[c])]
           bias == [c \in E |-> Bias(errors[c])]
<1>1. E \subseteq Candidates
  BY DEF Candidates
<1>2. ASSUME NEW c \in F PROVE error[c] \in Nat /\ bias[c] \in Nat
  <2>1. common \subseteq Folds(s, c) /\ c \in Daily
    BY <1>1, CommonFolds
  <2> HIDE DEF common
  <2>2. /\ AbsoluteError(DayErrors(s, common, c)) \in Nat
        /\ SquaredError(DayErrors(s, common, c)) \in Nat
        /\ Bias(DayErrors(s, common, c)) \in Nat
    BY <2>1, DayErrorTypes
  <2> HIDE DEF scaled
  <2> QED
    BY <2>2
<1>3. DailyBoard(s, E, common).winner = Best(F, error, bias)
  BY DEF DailyBoard
<1> HIDE DEF error, bias, common
<1>4. CASE F = {}
  BY <1>3, <1>4 DEF Best, common
<1>5. CASE F # {}
  <2>1. F \subseteq Candidates
    BY <1>1
  <2>2. Best(F, error, bias) \in F
    <3> HIDE DEF F
    <3> QED
      BY <1>2, <1>5, <2>1, BestIsContender
  <2> QED
    BY <1>3, <2>2 DEF common
<1> QED
  BY <1>4, <1>5

\* What a report says of its boards.
ReportFacts(s, report) ==
    LET evaluated == EvaluatedOn(report.folds)
    IN  /\ report.folds = FoldsOf(s)
        /\ evaluated \cap Weekly # {} => report.weekly.winner # None
        /\ report.weekly.winner # None =>
             report.weekly.winner \in report.weekly.entries \cap evaluated \cap Weekly
        /\ report.daily.winner # None =>
             report.daily.winner \in (report.daily.entries \cap evaluated \cap Daily) \ {"zero"}

\* The evaluation of any series compares its methods on shared folds, enough of them,
\* and names winners that were evaluated (rolling_evaluation.py).
THEOREM ReportIsSound ==
    ASSUME NEW s, IsSeries(s), NEW croston, IsCroston(s, croston)
    PROVE  ReportFacts(s, Report(s, croston))
<1> DEFINE folds == FoldsOf(s)
           evaluated == EvaluatedOn(folds)
           Shared(kind) == Common(folds, evaluated \cap kind)
           few(kind) == Cardinality(Shared(kind)) < MinFolds
           weekly == IF few(Weekly) THEN NoBoard("mean_absolute_total_error")
                     ELSE WeeklyBoard(s, evaluated \cap Weekly, Shared(Weekly), croston)
           daily == IF few(Daily) THEN NoBoard("rmsse")
                    ELSE DailyBoard(s, evaluated \cap Daily, Shared(Daily))
           report == Report(s, croston)
<1>1. report.folds = folds /\ report.weekly = weekly /\ report.daily = daily
  BY DEF Report, FoldsOf
<1>2. ASSUME evaluated \cap Weekly # {} PROVE ~few(Weekly)
  <2> DEFINE E == evaluated \cap Weekly
  <2>1. PICK c \in E : Common(folds, E) = Folds(s, c)
    <3>1. E \subseteq Weekly /\ E # {}
      BY <1>2
    <3> HIDE DEF E
    <3> QED
      BY <3>1, WeeklyShare
  <2>2. Cardinality(Folds(s, c)) >= MinFolds
    BY <2>1, EvaluatedFolds
  <2>3. Cardinality(Folds(s, c)) \in Nat /\ MinFolds \in Nat
    BY FoldsFinite, EvaluationAssumption
  <2> HIDE DEF folds, evaluated
  <2> QED
    BY <2>1, <2>2, <2>3
<1>3. ASSUME ~few(Weekly) PROVE weekly.winner \in weekly.entries \cap evaluated \cap Weekly
  <2> DEFINE E == evaluated \cap Weekly
  <2>1. E # {}
    <3> SUFFICES ASSUME E = {} PROVE FALSE
      OBVIOUS
    <3>1. Shared(Weekly) = {}
      BY DEF Common
    <3>2. Cardinality(Shared(Weekly)) = 0
      BY <3>1, FS_EmptySet
    <3> HIDE DEF Shared
    <3> QED
      BY <1>3, <3>2, EvaluationAssumption
  <2>2. E \subseteq Weekly
    OBVIOUS
  <2>3. WeeklyBoard(s, E, Common(folds, E), croston).winner \in E
    <3> HIDE DEF E
    <3> QED
      BY <2>1, <2>2, WeeklyWinner
  <2>4. weekly.entries = E
    BY <1>3 DEF WeeklyBoard
  <2>5. weekly.winner = WeeklyBoard(s, E, Common(folds, E), croston).winner
    BY <1>3
  <2> HIDE DEF weekly, folds
  <2> QED
    BY <2>3, <2>4, <2>5
<1>4. ASSUME few(Weekly) PROVE weekly.winner = None
  BY <1>4 DEF NoBoard
<1>5. ASSUME daily.winner # None
      PROVE  daily.winner \in (daily.entries \cap evaluated \cap Daily) \ {"zero"}
  <2> DEFINE E == evaluated \cap Daily
  <2>1. ~few(Daily)
    BY <1>5 DEF NoBoard
  <2>2. E \subseteq Daily
    OBVIOUS
  <2>3. daily = DailyBoard(s, E, Common(folds, E))
    BY <2>1
  <2>4. daily.winner \in E \ {"zero"}
    <3> HIDE DEF E, daily
    <3> QED
      BY <1>5, <2>2, <2>3, DailyWinner
  <2>5. daily.entries = E
    BY <2>1 DEF DailyBoard
  <2> HIDE DEF daily
  <2> QED
    BY <2>4, <2>5
<1> HIDE DEF weekly, daily, folds
<1>6. /\ evaluated \cap Weekly # {} => weekly.winner # None
      /\ weekly.winner # None => weekly.winner \in weekly.entries \cap evaluated \cap Weekly
  <2>1. \A c \in Weekly : c # None
    BY NoneIsNoMethod DEF Candidates
  <2> QED
    BY <1>2, <1>3, <1>4, <2>1
<1> QED
  BY <1>1, <1>5, <1>6 DEF ReportFacts, folds

-----------------------------------------------------------------------------
(***************************************************************************)
(* The evidence against zero.                                              *)
(***************************************************************************)
\* Zero is evaluated whenever a method is, on every fold of the method.
LEMMA ZeroIsEvaluated ==
    ASSUME NEW s, IsSeries(s), NEW c \in EvaluatedOn(FoldsOf(s))
    PROVE  /\ "zero" \in EvaluatedOn(FoldsOf(s))
           /\ FoldsOf(s)[c] \cap FoldsOf(s)["zero"] = Folds(s, c)
<1>1. c \in Candidates /\ Cardinality(Folds(s, c)) >= MinFolds /\ "zero" \in Candidates
  BY EvaluatedFolds DEF Candidates, Daily
<1>2. Folds(s, c) \subseteq Folds(s, "zero")
  BY <1>1, FoldsNested
<1>3. Cardinality(Folds(s, c)) <= Cardinality(Folds(s, "zero"))
  BY <1>2, FoldsFinite, FS_Subset
<1>4. /\ Cardinality(Folds(s, c)) \in Nat /\ Cardinality(Folds(s, "zero")) \in Nat
      /\ MinFolds \in Nat
  BY FoldsFinite, EvaluationAssumption
<1>5. Cardinality(FoldsOf(s)["zero"]) >= MinFolds
  BY <1>1, <1>3, <1>4 DEF FoldsOf
<1> QED
  BY <1>1, <1>2, <1>5 DEF EvaluatedOn, FoldsOf

\* What evidence there is, when the board has a winner and when it has none.
EvidenceFacts(s, report, e, croston) ==
    LET c == report.weekly.winner
    IN  /\ e.selected = c
        /\ c = None => e.status = "unavailable"
        /\ c # None =>
             /\ e.status \in {"passed", "failed"}
             /\ DOMAIN e.weeks = Folds(s, c) /\ Folds(s, c) # {}
             /\ \A o \in Folds(s, c) : e.weeks[o] = PredictedTotal(s, o, c, croston)
             /\ e.error = AbsoluteError(TotalErrors(s, Folds(s, c), c, croston))
             /\ e.zero_error = AbsoluteError(TotalErrors(s, Folds(s, c), "zero", croston))
             /\ e.error \in Nat /\ e.zero_error \in Nat
             /\ e.status = "passed" <=> e.zero_error # 0 /\ e.error < e.zero_error

\* The skill against zero is measured on the folds of the winner, and passes exactly
\* when the winner's error is the smaller one and zero was wrong (trust_gate.py).
THEOREM EvidenceIsSound ==
    ASSUME NEW s, IsSeries(s), NEW croston, IsCroston(s, croston)
    PROVE  LET report == Report(s, croston)
           IN  EvidenceFacts(s, report, ZeroSkill(s, report, croston), croston)
<1> DEFINE report == Report(s, croston)
           c == report.weekly.winner
           e == ZeroSkill(s, report, croston)
<1>1. report.folds = FoldsOf(s)
  BY ReportIsSound DEF ReportFacts
<1>2. CASE c = None
  BY <1>2 DEF ZeroSkill, NoEvidence, EvidenceFacts
<1>3. CASE c # None
  <2>1. c \in EvaluatedOn(FoldsOf(s)) /\ c \in Candidates
    BY <1>1, <1>3, ReportIsSound, EvaluatedFolds DEF ReportFacts
  <2>2. "zero" \in EvaluatedOn(FoldsOf(s)) /\ "zero" \in Candidates
    BY <2>1, ZeroIsEvaluated DEF Candidates, Daily
  <2>3. FoldsOf(s)[c] \cap FoldsOf(s)["zero"] = Folds(s, c)
    BY <2>1, ZeroIsEvaluated
  <2>4. Folds(s, c) # {} /\ Folds(s, c) \subseteq Folds(s, "zero")
    BY <2>1, EvaluatedFolds, FoldsNested
  <2> DEFINE folds == Folds(s, c)
             error == AbsoluteError(TotalErrors(s, folds, c, croston))
             zero_error == AbsoluteError(TotalErrors(s, folds, "zero", croston))
  <2>5. error \in Nat
    BY <2>1, TotalErrorTypes
  <2>6. zero_error \in Nat
    BY <2>2, <2>4, TotalErrorTypes
  <2>7. e = [status |-> IF zero_error # 0 /\ error < zero_error THEN "passed" ELSE "failed",
             selected |-> c, weeks |-> [o \in folds |-> PredictedTotal(s, o, c, croston)],
             error |-> error, zero_error |-> zero_error]
    BY <1>1, <1>3, <2>1, <2>2, <2>3, <2>4 DEF ZeroSkill
  <2>8. EvidenceFacts(s, report, e, croston)
    <3> HIDE DEF error, zero_error, report, e
    <3>1. DOMAIN e.weeks = folds /\ \A o \in folds : e.weeks[o] = PredictedTotal(s, o, c, croston)
      BY <2>7
    <3>2. e.selected = c /\ e.error = error /\ e.zero_error = zero_error
      BY <2>7
    <3>3. /\ e.status \in {"passed", "failed"}
          /\ e.status = "passed" <=> zero_error # 0 /\ error < zero_error
      BY <2>7
    <3> HIDE <2>7
    <3> QED
      BY <1>3, <2>4, <2>5, <2>6, <3>1, <3>2, <3>3 DEF EvidenceFacts, error, zero_error
  <2> QED
    BY <2>8
<1> QED
  BY <1>2, <1>3

-----------------------------------------------------------------------------
(***************************************************************************)
(* The weeks of different folds have no day in common.                     *)
(***************************************************************************)
LEMMA Apart ==
    ASSUME NEW h \in Nat \ {0}, NEW a \in Nat, NEW b \in Nat, a % h = 0, b % h = 0, a < b
    PROVE  a + h <= b
<1> DEFINE i == a \div h
           j == b \div h
<1>1. i \in Int /\ j \in Int /\ a = h * i /\ b = h * j
  OBVIOUS
<1> HIDE DEF i, j
<1>2. i < j
  <2> SUFFICES ASSUME j <= i PROVE FALSE
    BY <1>1
  <2>1. h * j <= h * i
    BY <1>1
  <2> QED
    BY <1>1, <2>1
<1>3. h * (i + 1) <= h * j
  BY <1>1, <1>2
<1>4. h * (i + 1) = h * i + h
  BY <1>1
<1> QED
  BY <1>1, <1>3, <1>4

LEMMA WeeksApart ==
    ASSUME NEW s, IsSeries(s), NEW c, NEW o \in Origins(s, c), NEW q \in Origins(s, c), o # q
    PROVE  TestDays(o) \cap TestDays(q) = {}
<1>1. /\ o \in Nat /\ q \in Nat /\ o >= MinTraining /\ q >= MinTraining
      /\ MinTraining \in Nat /\ HorizonDays \in Nat \ {0}
  BY OriginRange, EvaluationAssumption
<1>2. (o - MinTraining) % HorizonDays = 0 /\ (q - MinTraining) % HorizonDays = 0
  BY FirstOriginIs DEF Origins
<1>3. o - MinTraining \in Nat /\ q - MinTraining \in Nat
  BY <1>1
<1>4. CASE o < q
  <2>1. (o - MinTraining) + HorizonDays <= q - MinTraining
    <3>1. o - MinTraining < q - MinTraining
      BY <1>1, <1>4
    <3> QED
      BY <1>1, <1>2, <1>3, <3>1, Apart
  <2> QED
    BY <1>1, <2>1 DEF TestDays
<1>5. CASE q < o
  <2>1. (q - MinTraining) + HorizonDays <= o - MinTraining
    <3>1. q - MinTraining < o - MinTraining
      BY <1>1, <1>5
    <3> QED
      BY <1>1, <1>2, <1>3, <3>1, Apart
  <2> QED
    BY <1>1, <2>1 DEF TestDays
<1> QED
  BY <1>1, <1>4, <1>5
=============================================================================
