------------------------ MODULE ProductDemandProofs ------------------------
(***************************************************************************)
(* What holds of every demand request and every study of the policy: an    *)
(* estimate is shown only where it was earned, no result class refuses     *)
(* what was put together, a stricter policy that passes its gate is an     *)
(* improvement, and the independent evaluation scores what was shown.      *)
(***************************************************************************)
EXTENDS DemandStudies, DemandEvaluationProofs

-----------------------------------------------------------------------------
(***************************************************************************)
(* Calendars.                                                              *)
(***************************************************************************)
IsCalendar(f) ==
    \E m, n \in Nat :
        /\ m <= n
        /\ DOMAIN f = m .. n
        /\ \A d \in m .. n : /\ IsKnown(f[d]) => f[d].units \in Nat
                             /\ ~IsKnown(f[d]) => f[d].units = None
                             /\ f[d].status = "confirmed_zero" => f[d].units = 0

LEMMA SeriesOfCalendar ==
    ASSUME NEW f, IsCalendar(f)
    PROVE  IsSeries(Series(f))
<1>1. PICK m \in Nat, n \in Nat :
        /\ m <= n
        /\ DOMAIN f = m .. n
        /\ \A d \in m .. n : /\ IsKnown(f[d]) => f[d].units \in Nat
                             /\ ~IsKnown(f[d]) => f[d].units = None
                             /\ f[d].status = "confirmed_zero" => f[d].units = 0
  BY DEF IsCalendar
<1>2. Cardinality(m .. n) = n - m + 1 /\ IsFiniteSet(m .. n)
  BY <1>1, FS_Interval
<1>3. Min(m .. n) = m
  <2>1. m .. n \subseteq Nat /\ m \in m .. n
    BY <1>1
  <2>2. Min(m .. n) \in m .. n /\ \A d \in m .. n : Min(m .. n) <= d
    BY <1>2, <2>1, MinAndMax
  <2> QED
    BY <2>1, <2>2
<1> DEFINE count == n - m + 1
<1>4. count \in Nat \ {0}
  BY <1>1
<1>5. Series(f) = [i \in 1 .. count |-> f[m + i - 1]]
  BY <1>1, <1>2, <1>3 DEF Series
<1>6. ASSUME NEW i \in 1 .. count PROVE m + i - 1 \in m .. n
  BY <1>1, <1>6
<1> HIDE DEF count
<1>7. DOMAIN Series(f) = 1 .. count /\ Len(Series(f)) = count
  BY <1>4, <1>5
<1> QED
  BY <1>1, <1>4, <1>5, <1>6, <1>7 DEF IsSeries

LEMMA FulfilledType ==
    ASSUME NEW sales, ProperRows(sales)
    PROVE  Fulfilled(sales) \in Nat /\ (sales = {} => Fulfilled(sales) = 0)
<1> DEFINE sold == {r \in sales : /\ r.quantity # None /\ r.quantity > 0
                                  /\ r.status \in {"completed", "returned"}}
           f == [r \in sold |-> r.quantity]
<1>1. IsFiniteSet(sold)
  BY FS_Subset DEF ProperRows
<1>2. \A r \in sold : f[r] \in Nat
  BY DEF ProperRows
<1>3. DOMAIN f = sold
  OBVIOUS
<1>4. Fulfilled(sales) = Sum(f)
  BY DEF Fulfilled
<1>5. sales = {} => sold = {}
  OBVIOUS
<1> HIDE DEF f, sold
<1>6. Sum(f) \in Nat
  BY <1>1, <1>2, <1>3, SumTypeOn
<1>7. sold = {} => Sum(f) = 0
  BY <1>3, SumOfZeros
<1> QED
  BY <1>4, <1>5, <1>6, <1>7

LEMMA SpanOf ==
    ASSUME NEW days, days \subseteq Nat, IsFiniteSet(days), days # {}
    PROVE  \E m, n \in Nat : m <= n /\ Span(days) = m .. n
<1>1. /\ Min(days) \in days /\ Max(days) \in days
      /\ Min(days) <= Max(days)
  BY MinAndMax
<1> QED
  BY <1>1 DEF Span

\* The calendar of an identified product is a calendar.
LEMMA CalendarIsProper ==
    ASSUME NEW rows, ProperRows(rows), NEW a, NEW k \in Keys(rows, a)
    PROVE  IsCalendar(Calendar(rows, a, k))
<1> DEFINE sales == RowsOf(rows, a, k)
           On(d) == {r \in sales : r.day = d}
           state(d) == DayStatus(On(d), d \in a.business_closed_dates,
                                  <<k, d>> \in a.stockout_dates, a)
           f == Calendar(rows, a, k)
<1>1. sales \subseteq rows /\ sales # {}
  BY DEF RowsOf, Keys
<1>2. IsFiniteSet(Days(sales)) /\ Days(sales) \subseteq Nat /\ Days(sales) # {}
  <2>1. IsFiniteSet(sales)
    BY <1>1, FS_Subset DEF ProperRows
  <2> DEFINE day == [r \in sales |-> r.day]
  <2>2. Days(sales) = {day[r] : r \in sales}
    BY DEF Days
  <2>3. IsFiniteSet({day[r] : r \in sales})
    <3> HIDE DEF day, sales
    <3> QED
      BY <2>1, FiniteImage
  <2>4. \A r \in sales : r.day \in Nat
    BY <1>1 DEF ProperRows
  <2> HIDE DEF sales
  <2> QED
    BY <1>1, <2>2, <2>3, <2>4 DEF Days
<1>3. PICK m \in Nat, n \in Nat : m <= n /\ Span(Days(sales)) = m .. n
  <2> HIDE DEF sales
  <2> QED
    BY <1>2, SpanOf
<1>4. f = [d \in m .. n |-> Point(state(d), Fulfilled(On(d)))]
  BY <1>3 DEF Calendar
<1>5. ASSUME NEW d
      PROVE  /\ Fulfilled(On(d)) \in Nat
             /\ state(d) = "confirmed_zero" => Fulfilled(On(d)) = 0
  <2>1. ProperRows(On(d))
    <3>1. On(d) \subseteq rows
      BY <1>1
    <3> HIDE DEF On
    <3> QED
      BY <3>1, FS_Subset DEF ProperRows
  <2>2. state(d) = "confirmed_zero" => On(d) = {}
    <3> HIDE DEF On
    <3> QED
      BY DEF DayStatus
  <2> HIDE DEF On, state
  <2> QED
    BY <2>1, <2>2, FulfilledType
<1> HIDE DEF state, On
<1>6. DOMAIN f = m .. n
  BY <1>4
<1>7. ASSUME NEW d \in m .. n
      PROVE  /\ IsKnown(f[d]) => f[d].units \in Nat
             /\ ~IsKnown(f[d]) => f[d].units = None
             /\ f[d].status = "confirmed_zero" => f[d].units = 0
  <2>1. f[d] = Point(state(d), Fulfilled(On(d)))
    BY <1>4
  <2> HIDE DEF f
  <2> QED
    BY <1>5, <2>1 DEF Point, IsKnown, Known
<1> HIDE DEF f
<1>8. IsCalendar(f)
  BY <1>3, <1>6, <1>7 DEF IsCalendar
<1> QED
  BY <1>8 DEF f

\* The series of a category whose members have calendars is one too.
LEMMA CategorySeriesIsProper ==
    ASSUME NEW members, IsFiniteSet(members), members # {}, NEW f,
           \A k \in members : IsCalendar(f[k]), NEW a
    PROVE  IsCalendar(CategorySeries(f, members, a))
<1> DEFINE On(d) == {k \in members : d \in DOMAIN f[k]}
           Sells(d) == {k \in On(d) : f[k][d].status \in Known}
           units(d) == [k \in Sells(d) |-> f[k][d].units]
           statuses(d) == {f[k][d].status : k \in On(d)}
           state(d) == CategoryStatus(statuses(d), d \in a.business_closed_dates)
           dates == [k \in members |-> DOMAIN f[k]]
           days == UNION {dates[k] : k \in members}
           s == CategorySeries(f, members, a)
<1>1. ASSUME NEW k \in members
      PROVE  /\ IsFiniteSet(dates[k]) /\ dates[k] \subseteq Nat /\ dates[k] # {}
             /\ \A d \in dates[k] : /\ IsKnown(f[k][d]) => f[k][d].units \in Nat
                                    /\ f[k][d].status = "confirmed_zero" => f[k][d].units = 0
  <2>1. PICK m \in Nat, n \in Nat :
        /\ m <= n
        /\ DOMAIN f[k] = m .. n
        /\ \A d \in m .. n : /\ IsKnown(f[k][d]) => f[k][d].units \in Nat
                             /\ ~IsKnown(f[k][d]) => f[k][d].units = None
                             /\ f[k][d].status = "confirmed_zero" => f[k][d].units = 0
    BY DEF IsCalendar
  <2>2. IsFiniteSet(m .. n)
    BY FS_Interval
  <2>3. m .. n \subseteq Nat /\ m \in m .. n
    BY <2>1
  <2> QED
    BY <2>1, <2>2, <2>3
<1>2. IsFiniteSet(days) /\ days \subseteq Nat /\ days # {}
  <2>1. IsFiniteSet({dates[k] : k \in members})
    <3> HIDE DEF dates
    <3> QED
      BY FiniteImage
  <2>2. \A T \in {dates[k] : k \in members} : IsFiniteSet(T)
    BY <1>1
  <2> HIDE DEF dates
  <2>3. IsFiniteSet(days)
    BY <2>1, <2>2, FS_UNION
  <2>4. days \subseteq Nat /\ days # {}
    BY <1>1
  <2> QED
    BY <2>3, <2>4
<1>3. PICK m \in Nat, n \in Nat : m <= n /\ Span(days) = m .. n
  <2> HIDE DEF days
  <2> QED
    BY <1>2, SpanOf
<1>4. s = [d \in m .. n |-> Point(state(d), Sum(units(d)))]
  <2>1. days = UNION {DOMAIN f[k] : k \in members}
    OBVIOUS
  <2> HIDE DEF days
  <2> QED
    BY <1>3, <2>1 DEF CategorySeries
<1>5. ASSUME NEW d
      PROVE  /\ Sum(units(d)) \in Nat
             /\ state(d) = "confirmed_zero" => Sum(units(d)) = 0
  <2>1. \A k \in Sells(d) : k \in members /\ d \in dates[k] /\ IsKnown(f[k][d])
    BY DEF IsKnown
  <2>2. IsFiniteSet(Sells(d))
    <3>1. Sells(d) \subseteq members
      OBVIOUS
    <3> HIDE DEF Sells
    <3> QED
      BY <3>1, FS_Subset
  <2>3. DOMAIN units(d) = Sells(d) /\ \A k \in Sells(d) : units(d)[k] = f[k][d].units
    OBVIOUS
  <2>4. \A k \in Sells(d) : units(d)[k] \in Nat
    <3> HIDE DEF Sells, units, dates
    <3> QED
      BY <1>1, <2>1, <2>3
  <2>5. Sum(units(d)) \in Nat
    <3> HIDE DEF Sells, units
    <3> QED
      BY <2>2, <2>3, <2>4, SumTypeOn
  <2>6. ASSUME state(d) = "confirmed_zero" PROVE Sum(units(d)) = 0
    <3>1. "observed" \notin statuses(d)
      <4> HIDE DEF statuses
      <4> QED
        BY <2>6 DEF CategoryStatus
    <3>2. \A k \in Sells(d) : f[k][d].status = "confirmed_zero"
      BY <3>1 DEF Known
    <3>3. \A k \in Sells(d) : units(d)[k] = 0
      <4> HIDE DEF Sells, units, dates
      <4> QED
        BY <1>1, <2>1, <2>3, <3>2
    <3> HIDE DEF Sells, units
    <3> QED
      BY <2>3, <3>3, SumOfZeros
  <2> QED
    BY <2>5, <2>6
<1> HIDE DEF state, units
<1>6. DOMAIN s = m .. n
  BY <1>4
<1>7. ASSUME NEW d \in m .. n
      PROVE  /\ IsKnown(s[d]) => s[d].units \in Nat
             /\ ~IsKnown(s[d]) => s[d].units = None
             /\ s[d].status = "confirmed_zero" => s[d].units = 0
  <2>1. s[d] = Point(state(d), Sum(units(d)))
    BY <1>4
  <2> HIDE DEF s
  <2> QED
    BY <1>5, <2>1 DEF Point, IsKnown, Known
<1> HIDE DEF s
<1>8. IsCalendar(s)
  BY <1>3, <1>6, <1>7 DEF IsCalendar
<1> QED
  BY <1>8 DEF s

-----------------------------------------------------------------------------
(***************************************************************************)
(* One analysis.                                                           *)
(***************************************************************************)
LEMMA CrostonIsProper ==
    ASSUME NEW s, IsSeries(s), NEW croston \in Croston(s)
    PROVE  IsCroston(s, croston)
<1> DEFINE O == {o \in Folds(s, "sba_croston") \cup {Len(s)} : CanForecast(s, o, "sba_croston")}
<1>1. croston \in [O -> CrostonTotals]
  BY DEF Croston
<1>2. \A o \in O : croston[o] \in Nat
  BY <1>1, PreviewAssumption
<1> QED
  BY <1>2 DEF IsCroston

LEMMA SeriesIsAccepted ==
    ASSUME NEW s, IsSeries(s)
    PROVE  SeriesContract(s)
<1>1. s # <<>>
  BY DEF IsSeries
<1>2. ASSUME NEW i \in DOMAIN s
      PROVE  /\ s[i].status \in Known <=> s[i].units # None
             /\ s[i].status \in Known => s[i].units >= 0
             /\ s[i].status = "confirmed_zero" => s[i].units = 0
  BY NoneAssumption DEF IsSeries, IsKnown
<1> QED
  BY <1>1, <1>2 DEF SeriesContract

LEMMA FoldsAreAccepted ==
    ASSUME NEW s, IsSeries(s), NEW c \in Candidates, NEW o \in Folds(s, c)
    PROVE  FoldContract(s, o, c)
<1>1. /\ o \in 1 .. Len(s) /\ o \in Origins(s, c) /\ CanForecast(s, o, c)
      /\ AllKnown(s, TestDays(o)) /\ TestDays(o) \subseteq 1 .. Len(s)
  BY FoldFacts, OriginRange
<1>2. \A d \in TestDays(o) : s[d].units >= 0
  BY <1>1 DEF IsSeries, AllKnown
<1>3. c # "sba_croston" => PredictedTotal(s, o, c, NoWeeks) \in Nat
  BY <1>1, TotalType
<1>4. ASSUME c \in Daily
      PROVE  LET predictions == [i \in 1 .. HorizonDays |-> PredictedDay(s, o, c, i)]
             IN  /\ \A i \in 1 .. HorizonDays : predictions[i] >= 0
                 /\ Sum(predictions) = PredictedTotal(s, o, c, NoWeeks)
  <2> DEFINE predictions == [i \in 1 .. HorizonDays |-> PredictedDay(s, o, c, i)]
  <2>1. \A i \in 1 .. HorizonDays : predictions[i] >= 0
    BY <1>1, <1>4, DayType
  <2>2. CASE c = "zero"
    <3>1. \A i \in DOMAIN predictions : predictions[i] = 0
      BY <2>2 DEF PredictedDay
    <3>2. Sum(predictions) = 0
      <4> HIDE DEF predictions
      <4> QED
        BY <3>1, SumOfZeros
    <3> QED
      BY <2>1, <2>2, <3>2 DEF PredictedTotal
  <2>3. CASE c # "zero"
    BY <1>4, <2>1, <2>3 DEF PredictedTotal, Daily
  <2> QED
    BY <2>2, <2>3
<1> QED
  BY <1>2, <1>3, <1>4 DEF FoldContract

LEMMA SkippedAreExcused ==
    ASSUME NEW s, IsSeries(s), NEW c \in Candidates, NEW o \in Origins(s, c) \ Folds(s, c)
    PROVE  Excuses(s, o, c) # {}
<1>1. o \in Nat /\ o >= 1 /\ o >= History(c)
  BY OriginRange
<1> DEFINE Unknown(days) == {d \in days : ~IsKnown(s[d])}
<1>2. CASE ~AllKnown(s, TestDays(o))
  BY <1>2 DEF Excuses, AllKnown
<1>3. CASE AllKnown(s, TestDays(o)) /\ Unknown(1 .. o) = 1 .. o
  <2>1. 1 .. o # {}
    BY <1>1
  <2> QED
    BY <1>3, <2>1 DEF Excuses
<1>4. CASE AllKnown(s, TestDays(o)) /\ Unknown(1 .. o) # 1 .. o
  <2>1. ~CanForecast(s, o, c)
    BY <1>4 DEF Folds
  <2>2. ~AllKnown(s, Needed(c, o))
    BY <1>1, <1>4, <2>1 DEF CanForecast
  <2>3. Unknown(Needed(c, o)) # {}
    BY <2>2 DEF AllKnown
  <2> QED
    BY <1>4, <2>3 DEF Excuses
<1> QED
  BY <1>2, <1>3, <1>4

\* What the result classes ask of an analysis, what makes its evidence comparable,
\* and what earns its estimate.
Sound(x, s) ==
    /\ AnalysisContract(x, s)
    /\ Comparable(x, s)
    /\ x.reason = None => Earned(x, s)

LEMMA ReasonIsNone ==
    ASSUME NEW ready, NEW report, NEW evidence, PolicyReason(ready, report, evidence) = None
    PROVE  /\ report # None /\ report.weekly.winner # None
           /\ evidence.status \notin {"unavailable", "failed"}
           /\ ~(Cardinality(DOMAIN evidence.weeks) < MinPreviewFolds)
BY ReasonAssumption DEF PolicyReason, PolicyReasons

\* Evidence that passed, over enough weeks, earns the estimate.
LEMMA PassedIsEarned ==
    ASSUME NEW s, IsSeries(s), NEW croston, IsCroston(s, croston),
           NEW c \in Candidates, NEW x, DOMAIN x.evidence.weeks = Folds(s, c),
           \A o \in Folds(s, c) : x.evidence.weeks[o] = PredictedTotal(s, o, c, croston),
           AbsoluteError(TotalErrors(s, Folds(s, c), c, croston))
             < AbsoluteError(TotalErrors(s, Folds(s, c), "zero", croston)),
           Cardinality(Folds(s, c)) >= MinPreviewFolds
    PROVE  Earned(x, s)
<1> DEFINE folds == Folds(s, c)
           Actual(o) == Scale * Units(s, TestDays(o))
           own == TotalErrors(s, folds, c, croston)
           zero == TotalErrors(s, folds, "zero", croston)
<1>1. \A o \in folds : o >= MinTraining /\ o + HorizonDays <= Len(s) /\ AllKnown(s, TestDays(o))
  BY FoldFacts, OriginRange
<1>2. \A o, q \in folds : o # q => TestDays(o) \cap TestDays(q) = {}
  BY FoldFacts, WeeksApart
<1>3. [o \in folds |-> Abs(x.evidence.weeks[o] - Actual(o))]
        = [o \in DOMAIN own |-> Abs(own[o])]
  BY DEF TotalErrors
<1>4. [o \in folds |-> Abs(0 - Actual(o))] = [o \in DOMAIN zero |-> Abs(zero[o])]
  <2>1. \A o \in folds : PredictedTotal(s, o, "zero", croston) = 0
    BY DEF PredictedTotal
  <2> QED
    BY <2>1 DEF TotalErrors
<1>5. Sum([o \in folds |-> Abs(x.evidence.weeks[o] - Actual(o))]) = AbsoluteError(own)
  <2> HIDE DEF own
  <2> QED
    BY <1>3 DEF AbsoluteError
<1>6. Sum([o \in folds |-> Abs(0 - Actual(o))]) = AbsoluteError(zero)
  <2> HIDE DEF zero
  <2> QED
    BY <1>4 DEF AbsoluteError
<1> HIDE DEF own, zero
<1>7. Sum([o \in folds |-> Abs(x.evidence.weeks[o] - Actual(o))])
        < Sum([o \in folds |-> Abs(0 - Actual(o))])
  BY <1>5, <1>6 DEF own, zero
<1> QED
  BY <1>1, <1>2, <1>7 DEF Earned

\* An analysis that was not made is acceptable, and shows nothing.
LEMMA NothingIsSound ==
    ASSUME NEW x, NEW s, x.report = None, x.forecast = None, x.reason # None
    PROVE  Sound(x, s)
BY DEF Sound, AnalysisContract, TrustContract, Comparable

\* The analysis of any series satisfies what the result models demand of it, so that
\* none is refused (contracts.py).
THEOREM AnalysisIsSound ==
    ASSUME NEW ready, NEW s, IsSeries(s), NEW croston \in Croston(s)
    PROVE  Sound(Analysis(ready, s, croston), s)
<1> DEFINE report == Report(s, croston)
           e == ZeroSkill(s, report, croston)
           c == report.weekly.winner
           reason == PolicyReason(ready, report, e)
           x == Analysis(ready, s, croston)
<1>1. IsCroston(s, croston)
  BY CrostonIsProper
<1>2. ReportFacts(s, report)
  BY <1>1, ReportIsSound
<1>3. EvidenceFacts(s, report, e, croston)
  BY <1>1, EvidenceIsSound
<1>4. /\ x.report = report /\ x.evidence = e
      /\ x.reason = IF reason = None /\ ~CanForecast(s, Len(s), e.selected)
                    THEN "final_forecast_unavailable" ELSE reason
      /\ x.forecast = IF reason = None /\ CanForecast(s, Len(s), e.selected)
                      THEN PredictedTotal(s, Len(s), e.selected, croston) ELSE None
  BY DEF Analysis
<1> HIDE DEF x, e, report
<1>5. e.selected = c /\ (c # None => c \in Candidates /\ c \in Weekly)
  BY <1>2, <1>3 DEF ReportFacts, EvidenceFacts, Candidates
<1>6. ASSUME reason = None
      PROVE  /\ c # None /\ e.status = "passed" /\ e.error < e.zero_error
             /\ ~(Cardinality(DOMAIN e.weeks) < MinPreviewFolds)
             /\ DOMAIN e.weeks = Folds(s, c)
             /\ Cardinality(DOMAIN e.weeks) >= MinPreviewFolds
  <2>1. c # None /\ e.status \notin {"unavailable", "failed"}
        /\ ~(Cardinality(DOMAIN e.weeks) < MinPreviewFolds)
    BY <1>6, ReasonIsNone
  <2>2. e.status = "passed" /\ e.error < e.zero_error /\ DOMAIN e.weeks = Folds(s, c)
    BY <1>3, <2>1 DEF EvidenceFacts
  <2>3. Cardinality(Folds(s, c)) \in Nat /\ MinPreviewFolds \in Nat
    BY FoldsFinite, PreviewAssumption
  <2> QED
    BY <2>1, <2>2, <2>3
<1>7. x.reason = None <=> reason = None /\ CanForecast(s, Len(s), c)
  BY <1>4, <1>5, ReasonAssumption DEF PolicyReasons
<1>8. ASSUME x.reason = None PROVE x.forecast \in Nat
  <2>1. reason = None /\ CanForecast(s, Len(s), c) /\ c \in Candidates
    BY <1>5, <1>6, <1>7, <1>8
  <2>2. Len(s) \in 1 .. Len(s)
    BY DEF IsSeries
  <2>3. c = "sba_croston" => croston[Len(s)] \in Nat
    BY <1>1, <2>1, <2>2 DEF IsCroston
  <2>4. PredictedTotal(s, Len(s), c, croston) \in Nat
    BY <2>1, <2>2, <2>3, TotalType
  <2> QED
    BY <1>4, <1>5, <2>1, <2>4
<1>9. x.reason # None => x.forecast = None
  BY <1>4, <1>5, <1>7
<1>10. EvaluationContract(s, report)
  <2> SUFFICES ASSUME NEW d \in Candidates
               PROVE  /\ \A o \in report.folds[d] : FoldContract(s, o, d)
                      /\ \A o \in Origins(s, d) \ report.folds[d] : Excuses(s, o, d) # {}
                      /\ d \in EvaluatedOn(report.folds) \/ UnavailableReasons(s, d) # {}
    BY DEF EvaluationContract
  <2>1. report.folds[d] = Folds(s, d)
    BY <1>2 DEF ReportFacts, FoldsOf
  <2>2. UnavailableReasons(s, d) # {}
    BY DEF UnavailableReasons
  <2> QED
    BY <2>1, <2>2, FoldsAreAccepted, SkippedAreExcused
<1>11. BoardContract(report.weekly, report, Weekly) /\ BoardContract(report.daily, report, Daily)
  <2>1. \A d \in Weekly : d # "zero"
    BY DEF Weekly
  <2> QED
    BY <1>2, <2>1 DEF ReportFacts, BoardContract
<1>12. EvidenceContract(e)
  <2> SUFFICES ASSUME e.status # "unavailable"
               PROVE  /\ e.selected \notin {None, "zero"}
                      /\ DOMAIN e.weeks # {}
                      /\ e.error >= 0 /\ e.zero_error >= 0
                      /\ e.status = "passed" <=> e.zero_error # 0 /\ e.zero_error - e.error > 0
    BY DEF EvidenceContract
  <2>1. c # None
    BY <1>3 DEF EvidenceFacts
  <2>2. c # "zero"
    BY <1>5, <2>1 DEF Weekly
  <2>3. /\ DOMAIN e.weeks # {} /\ e.error \in Nat /\ e.zero_error \in Nat
        /\ e.status = "passed" <=> e.zero_error # 0 /\ e.error < e.zero_error
    BY <1>3, <2>1 DEF EvidenceFacts
  <2> QED
    BY <1>5, <2>1, <2>2, <2>3
<1>13. TrustContract(x)
  <2>1. ASSUME x.reason = None
        PROVE  /\ e.selected \in Weekly
               /\ Cardinality(DOMAIN e.weeks) >= MinPreviewFolds
               /\ e.zero_error > e.error
    <3>1. e.error \in Nat /\ e.zero_error \in Nat
      BY <1>3, <1>6, <1>7, <2>1 DEF EvidenceFacts
    <3> QED
      BY <1>5, <1>6, <1>7, <2>1, <3>1
  <2> QED
    BY <1>4, <2>1 DEF TrustContract
<1>14. AnalysisContract(x, s)
  <2>1. x.forecast # None <=> x.reason = None
    BY <1>8, <1>9, NoneAssumption
  <2>2. x.forecast # None => x.forecast >= 0
    BY <1>8, <1>9
  <2> QED
    BY <1>4, <1>10, <1>11, <1>12, <1>13, <2>1, <2>2, SeriesIsAccepted DEF AnalysisContract
<1>15. Comparable(x, s)
  BY <1>2, <1>3, <1>4 DEF Comparable, ReportFacts, EvidenceFacts
<1>16. ASSUME x.reason = None PROVE Earned(x, s)
  <2>1. /\ c \in Candidates /\ DOMAIN x.evidence.weeks = Folds(s, c)
        /\ Cardinality(Folds(s, c)) >= MinPreviewFolds
    BY <1>4, <1>5, <1>6, <1>7, <1>16
  <2>2. /\ \A o \in Folds(s, c) : x.evidence.weeks[o] = PredictedTotal(s, o, c, croston)
        /\ AbsoluteError(TotalErrors(s, Folds(s, c), c, croston))
             < AbsoluteError(TotalErrors(s, Folds(s, c), "zero", croston))
    BY <1>3, <1>4, <1>6, <1>7, <1>16 DEF EvidenceFacts
  <2> QED
    BY <1>1, <2>1, <2>2, PassedIsEarned
<1> QED
  BY <1>14, <1>15, <1>16 DEF Sound, x

-----------------------------------------------------------------------------
(***************************************************************************)
(* The request.  Its invariant: the calendars are those of the usable      *)
(* products and proper ones, every result is sound, and no category stands *)
(* beside a product that has its own estimate.                             *)
(***************************************************************************)
ReadinessInv ==
    /\ pc \in {"request", "products", "categories", "done"}
    /\ status \in {None, "unavailable", "partial_preview", "preview_available"}
    /\ pc = "request" => Idle
    /\ DOMAIN calendars = Usable(readiness)
    /\ \A k \in DOMAIN calendars : IsCalendar(calendars[k])

ProductsInv ==
    /\ DOMAIN products \subseteq DOMAIN readiness.products
    /\ pc = "categories" => DOMAIN products = DOMAIN readiness.products
    /\ \A k \in DOMAIN products :
        /\ Sound(products[k], ProductSeries(k))
        /\ k \notin DOMAIN calendars => products[k].reason # None

CandidatesInv ==
    /\ pc \in {"request", "products"} => candidates = Nothing /\ categories = Nothing
    /\ \A c \in DOMAIN candidates :
        /\ candidates[c].members \cap Shown = {}
        /\ CandidateContract(candidates[c])
        /\ candidates[c].reasons = {} => IsCalendar(candidates[c].series)

CategoriesInv ==
    /\ DOMAIN categories \subseteq DOMAIN candidates
    /\ \A c \in DOMAIN categories :
        /\ Sound(categories[c], CandidateSeries(c))
        /\ candidates[c].reasons # {} => categories[c].reason # None

RequestInv == ReadinessInv /\ ProductsInv /\ CandidatesInv /\ CategoriesInv

LEMMA IdleIsProper ==
    ASSUME Idle
    PROVE  RequestInv
<1>1. /\ readiness.products = NoProducts /\ calendars = Nothing /\ products = Nothing
      /\ candidates = Nothing /\ categories = Nothing /\ pc = "request" /\ status = None
  BY DEF Idle
<1>2. DOMAIN NoProducts = {} /\ DOMAIN Nothing = {}
  BY DEF NoProducts, Nothing
<1>3. Usable(readiness) = {}
  BY <1>1, <1>2 DEF Usable
<1>4. ReadinessInv
  BY <1>1, <1>2, <1>3, Idle DEF ReadinessInv
<1>5. ProductsInv
  BY <1>1, <1>2 DEF ProductsInv
<1>6. CandidatesInv
  BY <1>1, <1>2 DEF CandidatesInv
<1>7. CategoriesInv
  BY <1>1, <1>2 DEF CategoriesInv
<1> QED
  BY <1>4, <1>5, <1>6, <1>7 DEF RequestInv

LEMMA CandidateIsProper ==
    ASSUME NEW rows, ProperRows(rows), NEW a, NEW c, NEW f, NEW ready,
           \A k \in Usable(ready) : IsCalendar(f[k])
    PROVE  LET x == Candidate(rows, a, ready, f, c)
           IN  x.reasons = {} =>
                 /\ \A k \in x.members : UnitOf(ready, k) # None
                 /\ IsCalendar(x.series)
<1> DEFINE members == Members(rows, a, c)
           x == Candidate(rows, a, ready, f, c)
<1>1. /\ x.members = members /\ x.reasons = CategoryReasons(rows, a, ready, c)
      /\ x.reasons = {} => x.series = CategorySeries(f, members, a)
  BY DEF Candidate
<1> SUFFICES ASSUME x.reasons = {}
             PROVE  /\ \A k \in members : UnitOf(ready, k) # None
                    /\ IsCalendar(CategorySeries(f, members, a))
  BY <1>1
<1>2. /\ ~(Cardinality(members) < 2)
      /\ members \subseteq Usable(ready)
      /\ ~ \E k, l \in members : UnitOf(ready, k) = None \/ UnitOf(ready, k) # UnitOf(ready, l)
  BY <1>1 DEF CategoryReasons
<1>3. \A k \in members : UnitOf(ready, k) # None
  BY <1>2
<1>4. IsFiniteSet(members)
  <2> DEFINE key == [r \in rows |-> ProductKey(r, a)]
  <2>1. IsFiniteSet({key[r] : r \in rows})
    <3> HIDE DEF key
    <3> QED
      BY FiniteImage DEF ProperRows
  <2>2. members \subseteq {key[r] : r \in rows}
    BY DEF Members, Keys
  <2> HIDE DEF key, members
  <2> QED
    BY <2>1, <2>2, FS_Subset
<1>5. members # {}
  <2> HIDE DEF members
  <2> QED
    BY <1>2, FS_EmptySet
<1>6. \A k \in members : IsCalendar(f[k])
  BY <1>2
<1> HIDE DEF members, x
<1>7. IsCalendar(CategorySeries(f, members, a))
  BY <1>4, <1>5, <1>6, CategorySeriesIsProper
<1> QED
  BY <1>3, <1>7

\* The calendars and the series do not change once they are there.
LEMMA ProductSeriesIsProper ==
    ASSUME ReadinessInv, NEW k \in DOMAIN calendars
    PROVE  ProductSeries(k) = Series(calendars[k]) /\ IsSeries(Series(calendars[k]))
BY SeriesOfCalendar DEF ReadinessInv, ProductSeries

LEMMA RefuseStep ==
    ASSUME RequestInv, Refuse
    PROVE  RequestInv'
<1>1. /\ pc' = "done" /\ status' = "unavailable"
      /\ calendars' = Nothing /\ products' = Nothing /\ candidates' = Nothing /\ categories' = Nothing
      /\ readiness'.products = NoProducts
  BY DEF Refuse, RequestInv, ReadinessInv, Idle
<1>2. DOMAIN NoProducts = {} /\ DOMAIN Nothing = {}
  BY DEF NoProducts, Nothing
<1>3. Usable(readiness') = {}
  BY <1>1, <1>2 DEF Usable
<1>4. ReadinessInv'
  BY <1>1, <1>2, <1>3 DEF ReadinessInv
<1>5. ProductsInv'
  BY <1>1, <1>2 DEF ProductsInv
<1>6. CandidatesInv'
  BY <1>1, <1>2 DEF CandidatesInv
<1>7. CategoriesInv'
  BY <1>1, <1>2 DEF CategoriesInv
<1> QED
  BY <1>4, <1>5, <1>6, <1>7 DEF RequestInv

LEMMA BuildCalendarStep ==
    ASSUME RequestInv, ProperRows(data.rows), BuildCalendar
    PROVE  RequestInv'
<1> DEFINE ready == Readiness(data, assumptions)
<1>1. /\ products = Nothing /\ candidates = Nothing /\ categories = Nothing /\ status = None
  BY DEF BuildCalendar, RequestInv, ReadinessInv, Idle
<1>2. /\ readiness' = ready
      /\ calendars' = [k \in Usable(ready) |-> Calendar(data.rows, assumptions, k)]
      /\ pc' = "products"
      /\ products' = Nothing /\ candidates' = Nothing /\ categories' = Nothing /\ status' = None
  BY <1>1 DEF BuildCalendar
<1>3. DOMAIN Nothing = {} /\ DOMAIN NoProducts = {}
  BY DEF Nothing, NoProducts
<1>4. Usable(ready) \subseteq Keys(data.rows, assumptions)
  BY <1>3 DEF Readiness, Usable
<1> HIDE DEF ready
<1>5. \A k \in DOMAIN calendars' : IsCalendar(calendars'[k])
  BY <1>2, <1>4, CalendarIsProper
<1>6. ReadinessInv'
  BY <1>2, <1>5 DEF ReadinessInv
<1>7. ProductsInv'
  BY <1>2, <1>3 DEF ProductsInv
<1>8. CandidatesInv'
  BY <1>2, <1>3 DEF CandidatesInv
<1>9. CategoriesInv'
  BY <1>2, <1>3 DEF CategoriesInv
<1> QED
  BY <1>6, <1>7, <1>8, <1>9 DEF RequestInv

LEMMA AnalyzeProductStep ==
    ASSUME RequestInv, NEW k \in DOMAIN readiness.products, AnalyzeProduct(k)
    PROVE  RequestInv'
<1>1. /\ pc = "products" /\ k \notin DOMAIN products
      /\ UNCHANGED <<pc, readiness, calendars, candidates, categories, status>>
  BY DEF AnalyzeProduct
<1>2. PICK v : products' = With(products, k, v) /\ Sound(v, ProductSeries(k))
                /\ (k \notin DOMAIN calendars => v.reason # None)
  <2>1. CASE k \notin DOMAIN calendars
    <3> DEFINE v == NoAnalysis(readiness.products[k])
    <3>1. products' = With(products, k, v)
      BY <2>1 DEF AnalyzeProduct
    <3>2. v.report = None /\ v.forecast = None /\ v.reason # None
      BY ReasonAssumption DEF NoAnalysis, PolicyReason, PolicyReasons
    <3>3. Sound(v, ProductSeries(k))
      <4> HIDE DEF v
      <4> QED
        BY <3>2, NothingIsSound
    <3> HIDE DEF v
    <3> QED
      BY <3>1, <3>2, <3>3
  <2>2. CASE k \in DOMAIN calendars
    <3> DEFINE s == Series(calendars[k])
    <3>1. PICK croston \in Croston(s) :
                products' = With(products, k, Analysis(readiness.products[k], s, croston))
      BY <2>2 DEF AnalyzeProduct
    <3>2. ProductSeries(k) = s /\ IsSeries(s)
      BY <2>2, ProductSeriesIsProper DEF RequestInv
    <3> HIDE DEF s
    <3>3. Sound(Analysis(readiness.products[k], s, croston), s)
      BY <3>2, AnalysisIsSound
    <3> QED
      BY <2>2, <3>1, <3>2, <3>3
  <2> QED
    BY <2>1, <2>2
<1>3. /\ DOMAIN products' = DOMAIN products \cup {k} /\ products'[k] = v
      /\ \A l \in DOMAIN products : products'[l] = products[l]
  BY <1>1, <1>2 DEF With
<1>4. \A l : ProductSeries(l)' = ProductSeries(l)
  BY <1>1 DEF ProductSeries
<1>5. ReadinessInv'
  BY <1>1 DEF RequestInv, ReadinessInv
<1>6. ProductsInv'
  <2>1. ASSUME NEW l \in DOMAIN products'
        PROVE  /\ Sound(products'[l], ProductSeries(l)')
               /\ l \notin DOMAIN calendars' => products'[l].reason # None
    BY <1>1, <1>2, <1>3, <1>4 DEF RequestInv, ProductsInv
  <2>2. DOMAIN products' \subseteq DOMAIN readiness'.products /\ pc' # "categories"
    BY <1>1, <1>3 DEF RequestInv, ProductsInv
  <2> QED
    BY <2>1, <2>2 DEF ProductsInv
<1>7. candidates = Nothing /\ categories = Nothing /\ DOMAIN Nothing = {}
  BY <1>1 DEF RequestInv, CandidatesInv, Nothing
<1>8. CandidatesInv'
  BY <1>1, <1>7 DEF CandidatesInv
<1>9. CategoriesInv'
  BY <1>1, <1>7 DEF CategoriesInv
<1> QED
  BY <1>5, <1>6, <1>8, <1>9 DEF RequestInv

LEMMA PrepareCategoriesStep ==
    ASSUME RequestInv, ProperRows(data.rows), PrepareCategories
    PROVE  RequestInv'
<1>1. /\ pc = "products" /\ pc' = "categories"
      /\ DOMAIN products = DOMAIN readiness.products
      /\ UNCHANGED <<readiness, calendars, products, categories, status>>
  BY DEF PrepareCategories
<1>2. candidates = Nothing /\ categories = Nothing /\ DOMAIN Nothing = {}
  BY <1>1 DEF RequestInv, CandidatesInv, Nothing
<1>3. ReadinessInv'
  BY <1>1 DEF RequestInv, ReadinessInv
<1>4. ProductsInv'
  BY <1>1 DEF RequestInv, ProductsInv, ProductSeries
<1>5. Shown' = Shown
  BY <1>1 DEF Shown
<1>6. ASSUME NEW c \in DOMAIN candidates'
      PROVE  /\ candidates'[c].members \cap Shown = {}
             /\ CandidateContract(candidates[c])'
             /\ candidates'[c].reasons = {} => IsCalendar(candidates'[c].series)
  <2>1. candidates' = PrepareCandidates(data, assumptions, readiness, calendars, Shown)
    BY <1>2 DEF PrepareCategories
  <2>2. c \in Uncovered(data.rows, assumptions, Shown)
        /\ candidates'[c] = Candidate(data.rows, assumptions, readiness, calendars, c)
    BY <2>1 DEF PrepareCandidates, NoCandidates
  <2>3. candidates'[c].members = Members(data.rows, assumptions, c)
    BY <2>2 DEF Candidate
  <2>4. candidates'[c].members \cap Shown = {}
    BY <2>2, <2>3 DEF Uncovered
  <2>5. \A k \in Usable(readiness) : IsCalendar(calendars[k])
    BY DEF RequestInv, ReadinessInv
  <2>6. candidates'[c].reasons = {} =>
          /\ \A k \in candidates'[c].members : UnitOf(readiness, k) # None
          /\ IsCalendar(candidates'[c].series)
    BY <2>2, <2>5, CandidateIsProper
  <2> QED
    BY <1>1, <2>4, <2>6 DEF CandidateContract
<1>7. CandidatesInv'
  BY <1>1, <1>5, <1>6 DEF CandidatesInv
<1>8. CategoriesInv'
  BY <1>1, <1>2 DEF CategoriesInv
<1> QED
  BY <1>3, <1>4, <1>7, <1>8 DEF RequestInv

LEMMA AnalyzeCategoryStep ==
    ASSUME RequestInv, NEW c \in DOMAIN candidates, AnalyzeCategory(c)
    PROVE  RequestInv'
<1>1. /\ pc = "categories" /\ c \notin DOMAIN categories
      /\ UNCHANGED <<pc, readiness, calendars, products, candidates, status>>
  BY DEF AnalyzeCategory
<1>2. PICK v : categories' = With(categories, c, v) /\ Sound(v, CandidateSeries(c))
                /\ (candidates[c].reasons # {} => v.reason # None)
  <2>1. CASE candidates[c].reasons # {}
    <3>1. categories' = With(categories, c, NotAnalyzed)
      BY <2>1 DEF AnalyzeCategory
    <3>2. NotAnalyzed.report = None /\ NotAnalyzed.forecast = None /\ NotAnalyzed.reason # None
      BY ReasonAssumption DEF NotAnalyzed
    <3> QED
      BY <3>1, <3>2, NothingIsSound
  <2>2. CASE candidates[c].reasons = {}
    <3> DEFINE s == Series(candidates[c].series)
    <3>1. PICK croston \in Croston(s) :
                categories' = With(categories, c, Analysis(CategoryReady, s, croston))
      BY <2>2 DEF AnalyzeCategory
    <3>2. CandidateSeries(c) = s /\ IsSeries(s)
      BY <2>2, SeriesOfCalendar DEF RequestInv, CandidatesInv, CandidateSeries
    <3> HIDE DEF s
    <3>3. Sound(Analysis(CategoryReady, s, croston), s)
      BY <3>2, AnalysisIsSound
    <3> QED
      BY <2>2, <3>1, <3>2, <3>3
  <2> QED
    BY <2>1, <2>2
<1>3. /\ DOMAIN categories' = DOMAIN categories \cup {c} /\ categories'[c] = v
      /\ \A d \in DOMAIN categories : categories'[d] = categories[d]
  BY <1>1, <1>2 DEF With
<1>4. \A d : CandidateSeries(d)' = CandidateSeries(d)
  BY <1>1 DEF CandidateSeries
<1>5. ReadinessInv' /\ ProductsInv'
  BY <1>1 DEF RequestInv, ReadinessInv, ProductsInv, ProductSeries
<1>6. CandidatesInv'
  BY <1>1 DEF RequestInv, CandidatesInv, CandidateContract, Shown
<1>7. CategoriesInv'
  BY <1>1, <1>2, <1>3, <1>4 DEF RequestInv, CategoriesInv
<1> QED
  BY <1>5, <1>6, <1>7 DEF RequestInv

\* When everything is analysed the result classes have nothing to refuse.
LEMMA AnswerStep ==
    ASSUME RequestInv, Answer
    PROVE  RequestInv'
<1>1. /\ pc = "categories" /\ pc' = "done"
      /\ UNCHANGED <<readiness, calendars, products, candidates, categories>>
      /\ status' = IF ResultContract THEN Status ELSE "server_error"
  BY DEF Answer
<1>2. ResultContract
  <2>1. DOMAIN products = DOMAIN readiness.products
        /\ \A k \in DOMAIN products : AnalysisContract(products[k], ProductSeries(k))
    BY <1>1 DEF RequestInv, ProductsInv, Sound
  <2>2. \A c \in DOMAIN candidates : CandidateContract(candidates[c])
    BY DEF RequestInv, CandidatesInv
  <2>3. \A c \in DOMAIN categories : AnalysisContract(categories[c], CandidateSeries(c))
    BY DEF RequestInv, CategoriesInv, Sound
  <2>4. \A c \in ShownCategories : candidates[c].members \cap Shown = {}
    BY DEF RequestInv, CandidatesInv, CategoriesInv, ShownCategories
  <2> QED
    BY <2>1, <2>2, <2>3, <2>4 DEF ResultContract
<1>3. status' \in {"unavailable", "partial_preview", "preview_available"}
  BY <1>1, <1>2 DEF Status
<1>4. ReadinessInv' /\ ProductsInv'
  BY <1>1, <1>3 DEF RequestInv, ReadinessInv, ProductsInv, ProductSeries
<1>5. CandidatesInv' /\ CategoriesInv'
  BY <1>1 DEF RequestInv, CandidatesInv, CategoriesInv, CandidateContract, CandidateSeries, Shown
<1> QED
  BY <1>4, <1>5 DEF RequestInv

LEMMA RequestStep ==
    ASSUME RequestInv, ProperRows(data.rows), Next
    PROVE  RequestInv' /\ input' = input
<1>1. RequestInv'
  BY RefuseStep, BuildCalendarStep, AnalyzeProductStep, PrepareCategoriesStep,
     AnalyzeCategoryStep, AnswerStep DEF Next
<1>2. input' = input
  BY DEF Next, Refuse, BuildCalendar, AnalyzeProduct, PrepareCategories, AnalyzeCategory, Answer
<1> QED
  BY <1>1, <1>2

-----------------------------------------------------------------------------
(***************************************************************************)
(* The cohort evaluation: what is known of the held back weeks.            *)
(***************************************************************************)
LEMMA StudyConstants ==
    /\ HoldoutWeeks \in Nat \ {0} /\ HorizonDays \in Nat \ {0}
    /\ HoldoutDays \in Nat \ {0}
<1>1. HoldoutWeeks \in Nat \ {0} /\ HorizonDays \in Nat \ {0}
  BY StudyAssumption, EvaluationAssumption
<1>2. \A a, b \in Nat \ {0} : a * b \in Nat \ {0}
  OBVIOUS
<1> QED
  BY <1>1, <1>2 DEF HoldoutDays

\* A held back week lies within the held back days.
LEMMA HeldBackWeek ==
    ASSUME NEW o \in Nat \ {0}, NEW w \in 1 .. HoldoutWeeks
    PROVE  /\ Start(o, w) \in Nat /\ Start(o, w) >= o
           /\ Start(o, w) + HorizonDays <= o + HoldoutDays
<1>1. HoldoutWeeks \in Nat /\ HorizonDays \in Nat
  BY StudyConstants
<1>2. w \in Nat /\ w >= 1 /\ w <= HoldoutWeeks
  BY <1>1
<1>3. (w - 1) * HorizonDays \in Nat
  BY <1>1, <1>2
<1>4. w * HorizonDays <= HoldoutWeeks * HorizonDays
  BY <1>1, <1>2
<1>5. (w - 1) * HorizonDays + HorizonDays = w * HorizonDays
  BY <1>1, <1>2
<1> QED
  BY <1>1, <1>3, <1>4, <1>5 DEF Start, HoldoutDays

LEMMA PublicSeriesIsProper ==
    ASSUME NEW f \in Seq(Nat), Sold(f) # {}
    PROVE  /\ IsSeries(PublicSeries(f))
           /\ \A i \in 1 .. Len(PublicSeries(f)) : IsKnown(PublicSeries(f)[i])
           /\ \E S : PublicSeries(f) \in Seq(S)
<1> DEFINE first == Min(Sold(f))
           s == PublicSeries(f)
           n == Active(f)
           point(u) == [status |-> IF u > 0 THEN "observed" ELSE "confirmed_zero", units |-> u]
<1>1. first \in 1 .. Len(f) /\ Len(f) \in Nat
  <2>1. Sold(f) \subseteq 1 .. Len(f) /\ Len(f) \in Nat
    BY DEF Sold
  <2>2. IsFiniteSet(Sold(f))
    <3>1. IsFiniteSet(1 .. Len(f))
      BY <2>1, FS_Interval
    <3> QED
      BY <2>1, <3>1, FS_Subset
  <2>3. Sold(f) \subseteq Nat
    BY <2>1
  <2>4. Min(Sold(f)) \in Sold(f)
    BY <2>2, <2>3, MinAndMax
  <2> QED
    BY <2>1, <2>4
<1>2. n \in Nat \ {0} /\ n = Len(f) - first + 1
  BY <1>1 DEF Active
<1>3. s = [i \in 1 .. n |-> point(f[first + i - 1])]
  BY DEF PublicSeries
<1>4. ASSUME NEW i \in 1 .. n PROVE f[first + i - 1] \in Nat
  <2>1. first + i - 1 \in 1 .. Len(f)
    BY <1>1, <1>2
  <2> QED
    BY <2>1
<1> HIDE DEF first, n
<1>5. DOMAIN s = 1 .. n /\ Len(s) = n
  BY <1>2, <1>3
<1>6. ASSUME NEW i \in 1 .. n
      PROVE  IsKnown(s[i]) /\ s[i].units \in Nat /\ (s[i].status = "confirmed_zero" => s[i].units = 0)
  <2>1. s[i] = point(f[first + i - 1])
    BY <1>3
  <2> HIDE DEF s
  <2> QED
    BY <1>4, <2>1 DEF IsKnown, Known
<1>7. s \in Seq({point(u) : u \in Nat})
  <2>1. \A i \in 1 .. n : point(f[first + i - 1]) \in {point(u) : u \in Nat}
    BY <1>4
  <2> HIDE DEF point
  <2> QED
    BY <1>2, <1>3, <2>1
<1> HIDE DEF s, point
<1>8. IsSeries(s)
  BY <1>2, <1>5, <1>6 DEF IsSeries
<1>9. \A i \in 1 .. Len(s) : IsKnown(s[i])
  BY <1>5, <1>6
<1>10. \E S : s \in Seq(S)
  BY <1>7
<1> QED
  BY <1>8, <1>9, <1>10 DEF s

LEMMA HistoryIsProper ==
    ASSUME NEW S, NEW s \in Seq(S), IsSeries(s), NEW o \in 1 .. Len(s)
    PROVE  IsSeries(SubSeq(s, 1, o)) /\ Len(SubSeq(s, 1, o)) = o
<1> DEFINE h == SubSeq(s, 1, o)
<1>1. o \in Nat /\ o >= 1 /\ o <= Len(s)
  BY DEF IsSeries
<1>2. Len(h) = o /\ DOMAIN h = 1 .. o /\ \A i \in 1 .. o : h[i] = s[i]
  BY <1>1
<1> HIDE DEF h
<1>3. IsSeries(h)
  BY <1>1, <1>2 DEF IsSeries
<1> QED
  BY <1>2, <1>3 DEF h

ProperResult(r) ==
    r.status = "assessed" =>
        \A w \in 1 .. HoldoutWeeks : /\ r.weeks[w].actual \in Nat
                                     /\ r.weeks[w].shown => r.weeks[w].predicted \in Nat

LEMMA HeldBackIsProper ==
    ASSUME NEW f \in Seq(Nat), Sold(f) # {}, NEW t,
           NEW result \in HeldBack(PublicSeries(f), t)
    PROVE  ProperResult(result)
<1> DEFINE s == PublicSeries(f)
           o == Len(s) - HoldoutDays
           history == SubSeq(s, 1, o)
<1>1. IsSeries(s) /\ \A i \in 1 .. Len(s) : IsKnown(s[i])
  BY PublicSeriesIsProper
<1>2. PICK S : s \in Seq(S)
  BY PublicSeriesIsProper
<1>3. Len(s) \in Nat /\ HoldoutDays \in Nat
  BY <1>1, StudyConstants DEF IsSeries
<1>4. CASE o <= 0
  BY <1>4 DEF HeldBack, ProperResult
<1>5. CASE ~(o <= 0)
  <2>1. o \in Nat \ {0} /\ o \in 1 .. Len(s) /\ o + HoldoutDays = Len(s)
    BY <1>3, <1>5
  <2>2. IsSeries(history) /\ Len(history) = o
    <3> HIDE DEF s, o
    <3> QED
      BY <1>1, <1>2, <2>1, HistoryIsProper
  <2> DEFINE Totals == {[q \in 1 .. Len(s) |-> total] : total \in CrostonTotals}
             Against(croston) == ZeroSkill(history, Report(history, croston), croston)
             Chosen(croston) ==
                IF PolicyReason(Ready, Report(history, croston), Against(croston)) = None
                THEN Against(croston).selected ELSE None
             Judged(croston) ==
                [stratum |-> t, sparse |-> Sparse(history),
                 consistent |-> Consistent(history, Report(history, croston), croston),
                 status |-> "assessed", selected |-> Chosen(croston),
                 weeks |-> Weeks(s, o, Chosen(croston), croston)]
  <2>3. PICK croston \in Totals : result = Judged(croston)
    <3>1. HeldBack(s, t) = {Judged(croston) : croston \in Totals}
      BY <1>5 DEF HeldBack
    <3> HIDE DEF Judged, Totals
    <3> QED
      BY <3>1
  <2>4. \A q \in 1 .. Len(s) : croston[q] \in Nat
    BY PreviewAssumption
  <2> DEFINE report == Report(history, croston)
             evidence == Against(croston)
             c == Chosen(croston)
  <2> HIDE DEF Totals
  <2>5. IsCroston(history, croston)
    <3> HIDE DEF history, o, s
    <3> QED
      BY <1>3, <2>1, <2>2, <2>4 DEF IsCroston
  <2>6. c # None => c \in Candidates
    <3>1. ReportFacts(history, report) /\ EvidenceFacts(history, report, evidence, croston)
      <4> HIDE DEF history
      <4> QED
        BY <2>2, <2>5, ReportIsSound, EvidenceIsSound
    <3>2. evidence.selected = report.weekly.winner
          /\ (report.weekly.winner # None => report.weekly.winner \in Candidates)
      <4> HIDE DEF report, evidence
      <4> QED
        BY <3>1 DEF ReportFacts, EvidenceFacts, Candidates
    <3>3. c \in {evidence.selected, None}
      OBVIOUS
    <3> HIDE DEF report, evidence, c
    <3> QED
      BY <3>2, <3>3
  <2>7. result.weeks = Weeks(s, o, c, croston)
    <3> HIDE DEF Chosen
    <3> QED
      BY <2>3
  <2> HIDE DEF c, o, s, Judged
  <2>8. ASSUME NEW w \in 1 .. HoldoutWeeks
        PROVE  /\ result.weeks[w].actual \in Nat
               /\ result.weeks[w].shown => result.weeks[w].predicted \in Nat
    <3> DEFINE q == Start(o, w)
    <3>1. /\ q \in Nat /\ q >= o /\ q + HorizonDays <= Len(s)
          /\ HorizonDays \in Nat \ {0} /\ o >= 1
      <4>1. /\ Start(o, w) \in Nat /\ Start(o, w) >= o
            /\ Start(o, w) + HorizonDays <= o + HoldoutDays
        BY <2>1, HeldBackWeek
      <4> QED
        BY <2>1, <4>1, StudyConstants
    <3>2. q \in 1 .. Len(s) /\ TestDays(q) \subseteq 1 .. Len(s)
      BY <1>3, <2>1, <3>1 DEF TestDays
    <3>3. Units(s, TestDays(q)) \in Nat
      BY <1>1, <3>2, UnitsType DEF AllKnown
    <3>4. CanForecast(s, q, c) /\ c # None => PredictedTotal(s, q, c, croston) \in Nat
      BY <1>1, <2>4, <2>6, <3>2, TotalType
    <3>5. Scale * Units(s, TestDays(q)) \in Nat
      BY <3>3, ScaleType
    <3> DEFINE r == result.weeks[w]
               can == c # None /\ CanForecast(s, q, c)
               predicted == IF can THEN PredictedTotal(s, q, c, croston) ELSE None
               actual == Scale * Units(s, TestDays(q))
    <3>6. r = [shown |-> can, predicted |-> predicted, actual |-> actual]
      BY <2>7 DEF Weeks
    <3>7. can => predicted \in Nat
      BY <3>4
    <3> HIDE DEF q, r, can, predicted, actual
    <3>8. r.shown = can /\ r.predicted = predicted /\ r.actual = actual
      BY <3>6, Zenon
    <3>9. r.actual \in Nat
      BY <3>5, <3>8 DEF actual
    <3>10. r.shown => r.predicted \in Nat
      BY <3>7, <3>8, Zenon
    <3> QED
      BY <3>9, <3>10 DEF r
  <2> QED
    BY <2>8 DEF ProperResult
<1> QED
  BY <1>4, <1>5

-----------------------------------------------------------------------------
(***************************************************************************)
(* Dropping weeks that did not beat zero from weeks that together may.     *)
(***************************************************************************)
LEMMA RelativeError ==
    ASSUME NEW kept \in Nat, NEW removed \in Nat, NEW kept_zero \in Nat, NEW removed_zero \in Nat,
           kept < kept_zero, removed_zero = 0 \/ ~(removed < removed_zero)
    PROVE  kept * (kept_zero + removed_zero) <= (kept + removed) * kept_zero
<1>1. removed_zero <= removed
  OBVIOUS
<1>2. kept * removed_zero <= kept_zero * removed_zero
  OBVIOUS
<1>3. kept_zero * removed_zero <= kept_zero * removed
  BY <1>1
<1>4. kept * (kept_zero + removed_zero) = kept * kept_zero + kept * removed_zero
  OBVIOUS
<1>5. (kept + removed) * kept_zero = kept * kept_zero + kept_zero * removed
  OBVIOUS
<1>6. /\ kept * removed_zero \in Nat /\ kept_zero * removed_zero \in Nat
      /\ kept_zero * removed \in Nat /\ kept * kept_zero \in Nat
  OBVIOUS
<1> QED
  BY <1>2, <1>3, <1>4, <1>5, <1>6

ScoresAreProper ==
    IsFiniteSet(DOMAIN scored) /\ \A p \in DOMAIN scored : ProperResult(scored[p])

LEMMA ErrorsOf ==
    ASSUME ScoresAreProper, NEW scopes, scopes \subseteq DOMAIN scored
    PROVE  LET weeks == ShownWeeks(scopes)
           IN  Error(weeks) \in Nat /\ ZeroError(weeks) \in Nat
<1> DEFINE weeks == ShownWeeks(scopes)
           wrong == [x \in weeks |->
                        Abs(scored[x[1]].weeks[x[2]].predicted - scored[x[1]].weeks[x[2]].actual)]
           sold == [x \in weeks |-> scored[x[1]].weeks[x[2]].actual]
<1>1. IsFiniteSet(weeks)
  <2>1. IsFiniteSet(DOMAIN scored) /\ IsFiniteSet(1 .. HoldoutWeeks)
    BY StudyConstants, FS_Interval DEF ScoresAreProper
  <2>2. IsFiniteSet((DOMAIN scored) \X (1 .. HoldoutWeeks))
    BY <2>1, FS_Product
  <2>3. weeks \subseteq (DOMAIN scored) \X (1 .. HoldoutWeeks)
    BY DEF ShownWeeks
  <2> HIDE DEF weeks
  <2> QED
    BY <2>2, <2>3, FS_Subset
<1>2. ASSUME NEW x \in weeks
      PROVE  /\ scored[x[1]].weeks[x[2]].predicted \in Nat
             /\ scored[x[1]].weeks[x[2]].actual \in Nat
  <2>1. /\ x[1] \in DOMAIN scored /\ scored[x[1]].status = "assessed"
        /\ x[2] \in 1 .. HoldoutWeeks /\ scored[x[1]].weeks[x[2]].shown
    BY DEF ShownWeeks
  <2> QED
    BY <2>1 DEF ScoresAreProper, ProperResult
<1> HIDE DEF weeks
<1>3. \A x \in weeks : wrong[x] \in Nat /\ sold[x] \in Nat
  BY <1>2 DEF Abs
<1>4. DOMAIN wrong = weeks /\ DOMAIN sold = weeks
  OBVIOUS
<1>5. Error(weeks) = Sum(wrong) /\ ZeroError(weeks) = Sum(sold)
  BY DEF Error, ZeroError
<1> HIDE DEF wrong, sold
<1>6. Sum(wrong) \in Nat /\ Sum(sold) \in Nat
  BY <1>1, <1>3, <1>4, SumTypeOn
<1> QED
  BY <1>5, <1>6 DEF weeks

LEMMA ErrorsAdd ==
    ASSUME ScoresAreProper, NEW A, NEW B, A \cup B \subseteq DOMAIN scored, A \cap B = {}
    PROVE  LET all == ShownWeeks(A \cup B)
           IN  /\ Error(all) = Error(ShownWeeks(A)) + Error(ShownWeeks(B))
               /\ ZeroError(all) = ZeroError(ShownWeeks(A)) + ZeroError(ShownWeeks(B))
<1> DEFINE all == ShownWeeks(A \cup B)
           a == ShownWeeks(A)
           b == ShownWeeks(B)
           wrong(x) == Abs(scored[x[1]].weeks[x[2]].predicted - scored[x[1]].weeks[x[2]].actual)
           sold(x) == scored[x[1]].weeks[x[2]].actual
           Wrong(weeks) == [x \in weeks |-> wrong(x)]
           Sells(weeks) == [x \in weeks |-> sold(x)]
<1>1. all = a \cup b /\ a \cap b = {}
  BY DEF ShownWeeks
<1>2. IsFiniteSet(all)
  <2>1. IsFiniteSet(DOMAIN scored) /\ IsFiniteSet(1 .. HoldoutWeeks)
    BY StudyConstants, FS_Interval DEF ScoresAreProper
  <2>2. IsFiniteSet((DOMAIN scored) \X (1 .. HoldoutWeeks))
    BY <2>1, FS_Product
  <2>3. all \subseteq (DOMAIN scored) \X (1 .. HoldoutWeeks)
    BY DEF ShownWeeks
  <2> HIDE DEF all
  <2> QED
    BY <2>2, <2>3, FS_Subset
<1>3. ASSUME NEW x \in all PROVE wrong(x) \in Nat /\ sold(x) \in Nat
  <2>1. /\ x[1] \in DOMAIN scored /\ scored[x[1]].status = "assessed"
        /\ x[2] \in 1 .. HoldoutWeeks /\ scored[x[1]].weeks[x[2]].shown
    BY DEF ShownWeeks
  <2> QED
    BY <2>1 DEF ScoresAreProper, ProperResult, Abs
<1>4. /\ Error(all) = Sum(Wrong(all)) /\ ZeroError(all) = Sum(Sells(all))
      /\ Error(a) = Sum(Wrong(a)) /\ ZeroError(a) = Sum(Sells(a))
      /\ Error(b) = Sum(Wrong(b)) /\ ZeroError(b) = Sum(Sells(b))
  BY DEF Error, ZeroError
<1> HIDE DEF all, a, b, wrong, sold
<1>5. Sums(Wrong(all)) /\ Sums(Sells(all))
  BY <1>2, <1>3 DEF Sums
<1>6. /\ DOMAIN Wrong(all) = a \cup b /\ DOMAIN Sells(all) = a \cup b
      /\ [x \in a |-> Wrong(all)[x]] = Wrong(a) /\ [x \in b |-> Wrong(all)[x]] = Wrong(b)
      /\ [x \in a |-> Sells(all)[x]] = Sells(a) /\ [x \in b |-> Sells(all)[x]] = Sells(b)
  BY <1>1
<1> HIDE DEF Wrong, Sells
<1>7. Sum(Wrong(all)) = Sum(Wrong(a)) + Sum(Wrong(b))
  BY <1>1, <1>5, <1>6, SumAdds
<1>8. Sum(Sells(all)) = Sum(Sells(a)) + Sum(Sells(b))
  BY <1>1, <1>5, <1>6, SumAdds
<1> QED
  BY <1>4, <1>7, <1>8 DEF all, a, b

\* A policy that passes its gate is closer to the truth than the present one.
LEMMA PassedGateImproves ==
    ASSUME ScoresAreProper, NEW policy \in Policies, PolicyGate(policy) = "passed"
    PROVE  LET kept == Retained(policy)
               shown == ShownWeeks(Allowed)
           IN  /\ Error(kept) < ZeroError(kept)
               /\ Error(kept) * ZeroError(shown) <= Error(shown) * ZeroError(kept)
<1> DEFINE A == Permitted(policy)
           B == Allowed \ Permitted(policy)
           kept == ShownWeeks(A)
           removed == ShownWeeks(B)
           shown == ShownWeeks(Allowed)
<1>1. Retained(policy) = kept /\ Removed(policy) = removed
  BY DEF Retained, Removed
<1>2. A \cap B = {} /\ A \cup B = Allowed /\ Allowed \subseteq DOMAIN scored
  BY DEF Permitted, Allowed, Assessments
<1>3. ~KeepsFailures(policy) /\ Skill(removed) # "positive" /\ kept # {} /\ removed # {}
  <2> HIDE DEF kept, removed
  <2> QED
    BY <1>1 DEF PolicyGate
<1>4. Skill(kept) = "positive"
  <2> HIDE DEF kept, removed
  <2> QED
    BY <1>1, <1>3 DEF KeepsFailures, Failing
<1>5. Error(kept) < ZeroError(kept)
  <2> HIDE DEF kept
  <2> QED
    BY <1>3, <1>4 DEF Skill
<1>6. ZeroError(removed) = 0 \/ ~(Error(removed) < ZeroError(removed))
  <2> HIDE DEF removed
  <2> QED
    BY <1>3 DEF Skill
<1>7. /\ Error(kept) \in Nat /\ ZeroError(kept) \in Nat
      /\ Error(removed) \in Nat /\ ZeroError(removed) \in Nat
  <2>1. A \subseteq DOMAIN scored /\ B \subseteq DOMAIN scored
    BY <1>2
  <2> HIDE DEF A, B
  <2> QED
    BY <2>1, ErrorsOf
<1>8. /\ Error(shown) = Error(kept) + Error(removed)
      /\ ZeroError(shown) = ZeroError(kept) + ZeroError(removed)
  <2> HIDE DEF A, B
  <2> QED
    BY <1>2, ErrorsAdd
<1> HIDE DEF kept, removed, shown
<1>9. Error(kept) * ZeroError(shown) <= Error(shown) * ZeroError(kept)
  BY <1>5, <1>6, <1>7, <1>8, RelativeError
<1> QED
  BY <1>1, <1>5, <1>9 DEF shown

-----------------------------------------------------------------------------
(***************************************************************************)
(* The studies.  The request within them keeps its invariant; a cohort is  *)
(* drawn once, scored properly, and judged when it is complete.            *)
(***************************************************************************)
CohortInv ==
    /\ study = [kind |-> "cohort", sales |-> study.sales, drawn |-> study.drawn]
    /\ study.sales \in PublicSales
    /\ study.drawn = None => scored = Nothing /\ outcome = None
    /\ study.drawn # None =>
         /\ study.drawn \subseteq DOMAIN study.sales
         /\ \A p \in study.drawn : Sold(study.sales[p]) # {}
    /\ DOMAIN scored \subseteq DOMAIN study.sales
    /\ \A p \in DOMAIN scored : ProperResult(scored[p])
    /\ outcome # None =>
         /\ study.drawn # None /\ DOMAIN scored = study.drawn
         /\ \A policy \in Policies : outcome.policies[policy] = PolicyGate(policy)

StudyInv ==
    /\ RequestInv
    /\ study.kind # "cohort" => ProperRows(data.rows)
    /\ study.kind = "cohort" => CohortInv

LEMMA StudyInitially ==
    ASSUME StudyInit
    PROVE  StudyInv
<1>1. RequestInv
  BY IdleIsProper DEF StudyInit
<1>2. scored = Nothing /\ outcome = None /\ DOMAIN Nothing = {}
  BY DEF StudyInit, Nothing
<1>3. CASE input \in Inputs /\ study = Request
  <2>1. ProperRows(data.rows) /\ study.kind = "request"
    BY <1>3, PreviewAssumption DEF Request, data
  <2> QED
    BY <1>1, <2>1 DEF StudyInv
<1>4. CASE \E x \in Exports : input = HistoryOf(x) /\ study = [kind |-> "independent", export |-> x]
  <2>1. PICK x \in Exports : input = HistoryOf(x) /\ study = [kind |-> "independent", export |-> x]
    BY <1>4
  <2>2. data.rows = Historical(x.rows) /\ study.kind = "independent"
    BY <2>1 DEF HistoryOf, data
  <2>3. Historical(x.rows) \subseteq x.rows
    BY DEF Historical
  <2>4. ProperRows(x.rows)
    BY StudyAssumption
  <2>5. ProperRows(Historical(x.rows))
    BY <2>3, <2>4, FS_Subset DEF ProperRows
  <2> QED
    BY <1>1, <2>2, <2>5 DEF StudyInv
<1>5. CASE \E f \in PublicSales :
                input = None /\ study = [kind |-> "cohort", sales |-> f, drawn |-> None]
  <2>1. PICK f \in PublicSales : study = [kind |-> "cohort", sales |-> f, drawn |-> None]
    BY <1>5
  <2>2. CohortInv
    BY <1>2, <2>1 DEF CohortInv
  <2> QED
    BY <1>1, <2>1, <2>2 DEF StudyInv
<1> QED
  BY <1>3, <1>4, <1>5 DEF StudyInit

LEMMA RequestStutter ==
    ASSUME RequestInv, UNCHANGED vars
    PROVE  RequestInv' /\ data' = data
BY DEF RequestInv, ReadinessInv, ProductsInv, CandidatesInv, CategoriesInv, ProductSeries,
       CandidateSeries, CandidateContract, Shown, Idle, vars, data

\* A verdict rests on the scores alone.
LEMMA GateStutter ==
    ASSUME scored' = scored, NEW policy
    PROVE  PolicyGate(policy)' = PolicyGate(policy)
BY DEF PolicyGate, Assessments, Allowed, Permitted, Retained, Removed, KeepsFailures, Failing,
       Drawn, InStratum, Skill, ShownWeeks, Error, ZeroError

LEMMA DrawStep ==
    ASSUME CohortInv, study.kind = "cohort", Draw
    PROVE  CohortInv' /\ study'.kind = "cohort"
<1>1. study.drawn = None /\ scored = Nothing /\ outcome = None
      /\ scored' = scored /\ outcome' = outcome
  BY DEF Draw, CohortInv, vars
<1>2. PICK before : \E drawn \in Draws(study.sales, before) :
                        study' = [study EXCEPT !.drawn = drawn]
  BY DEF Draw
<1> PICK drawn \in Draws(study.sales, before) : study' = [study EXCEPT !.drawn = drawn]
  BY <1>2
<1>3. study' = [kind |-> "cohort", sales |-> study.sales, drawn |-> drawn]
  BY DEF CohortInv
<1>4. drawn \subseteq DOMAIN study.sales /\ \A p \in drawn : Stratum(study.sales[p]) \in Strata
  <2> DEFINE Of(t) == {p \in DOMAIN study.sales \ before : Stratum(study.sales[p]) = t}
  <2>1. drawn \subseteq UNION {Of(t) : t \in Strata}
    BY DEF Draws
  <2> QED
    BY <2>1
<1>5. \A p \in drawn : Sold(study.sales[p]) # {}
  <2>1. "all_zero" \notin Strata
    BY DEF Strata
  <2> QED
    BY <1>4, <2>1 DEF Stratum
<1>6. study'.kind = "cohort" /\ study'.sales = study.sales /\ study'.drawn = drawn
  BY <1>3
<1>7. DOMAIN scored' = {}
  BY <1>1 DEF Nothing
<1> QED
  BY <1>1, <1>3, <1>4, <1>5, <1>6, <1>7 DEF CohortInv

LEMMA EvaluateStep ==
    ASSUME CohortInv, NEW p, EvaluateHeldBack(p)
    PROVE  CohortInv' /\ study' = study
<1>1. /\ study.drawn # None /\ p \in study.drawn /\ p \notin DOMAIN scored
      /\ study' = study /\ outcome' = outcome
  BY DEF EvaluateHeldBack
<1>2. PICK result \in HeldBack(PublicSeries(study.sales[p]), Stratum(study.sales[p])) :
        scored' = With(scored, p, result)
  BY DEF EvaluateHeldBack
<1>3. p \in DOMAIN study.sales /\ study.sales[p] \in Seq(Nat) /\ Sold(study.sales[p]) # {}
  BY <1>1, StudyAssumption DEF CohortInv
<1>4. ProperResult(result)
  BY <1>2, <1>3, HeldBackIsProper
<1>5. DOMAIN scored' = DOMAIN scored \cup {p}
      /\ \A q \in DOMAIN scored' : scored'[q] = IF q = p THEN result ELSE scored[q]
  BY <1>2 DEF With
<1>6. \A q \in DOMAIN scored' : ProperResult(scored'[q])
  BY <1>4, <1>5 DEF CohortInv
<1>7. outcome = None
  BY <1>1 DEF CohortInv
<1> QED
  BY <1>1, <1>3, <1>5, <1>6, <1>7 DEF CohortInv, ProperResult

LEMMA ConcludeStep ==
    ASSUME CohortInv, ConcludeCohort
    PROVE  CohortInv' /\ study' = study
<1>1. /\ study' = study /\ scored' = scored /\ study.drawn # None /\ DOMAIN scored = study.drawn
      /\ outcome' = [locked |-> LockedGate,
                     policies |-> [policy \in Policies |-> PolicyGate(policy)]]
  BY DEF ConcludeCohort
<1>2. \A policy \in Policies : outcome'.policies[policy] = PolicyGate(policy)'
  BY <1>1, GateStutter
<1> QED
  BY <1>1, <1>2 DEF CohortInv, ProperResult

LEMMA StudyStep ==
    ASSUME StudyInv, [StudyNext]_<<vars, studyVars>>
    PROVE  StudyInv'
<1>1. CASE Serve
  <2>1. study.kind # "cohort" /\ Next /\ study' = study
    BY <1>1 DEF Serve, studyVars
  <2>2. RequestInv' /\ input' = input
    BY <2>1, RequestStep DEF StudyInv
  <2> QED
    BY <2>1, <2>2 DEF StudyInv, data
<1>2. ASSUME UNCHANGED <<vars, study>>, study.kind # "cohort" PROVE StudyInv'
  BY <1>2, RequestStutter DEF StudyInv
<1>3. CASE Withhold \/ ConcludeIndependent
  BY <1>2, <1>3 DEF Withhold, ConcludeIndependent
<1>4. ASSUME NEW k, ScoreProduct(k) \/ ScoreCategory(k) PROVE StudyInv'
  BY <1>2, <1>4 DEF ScoreProduct, ScoreCategory
<1>5. CASE Draw
  <2>1. CohortInv' /\ study'.kind = "cohort" /\ UNCHANGED vars
    BY <1>5, DrawStep DEF Draw, StudyInv
  <2> QED
    BY <2>1, RequestStutter DEF StudyInv
<1>6. ASSUME NEW p, study.kind = "cohort", EvaluateHeldBack(p) PROVE StudyInv'
  <2>1. CohortInv' /\ study' = study /\ UNCHANGED vars
    BY <1>6, EvaluateStep DEF EvaluateHeldBack, StudyInv
  <2> QED
    BY <1>6, <2>1, RequestStutter DEF StudyInv
<1>7. CASE ConcludeCohort
  <2>1. CohortInv' /\ study' = study /\ UNCHANGED vars /\ study.kind = "cohort"
    BY <1>7, ConcludeStep DEF ConcludeCohort, StudyInv
  <2> QED
    BY <2>1, RequestStutter DEF StudyInv
<1>8. CASE UNCHANGED <<vars, studyVars>>
  <2>1. UNCHANGED vars /\ study' = study /\ scored' = scored /\ outcome' = outcome
    BY <1>8 DEF studyVars
  <2>2. CohortInv => CohortInv'
    BY <2>1, GateStutter DEF CohortInv, ProperResult
  <2> QED
    BY <2>1, <2>2, RequestStutter DEF StudyInv
<1> QED
  BY <1>1, <1>3, <1>4, <1>5, <1>6, <1>7, <1>8 DEF StudyNext

\* Requests and studies keep what they are made of proper, whatever is asked or drawn.
THEOREM StudyInvariant == StudySpec => []StudyInv
<1>1. StudyInit => StudyInv
  BY StudyInitially
<1>2. StudyInv /\ [StudyNext]_<<vars, studyVars>> => StudyInv'
  BY StudyStep
<1> QED
  BY <1>1, <1>2, PTL DEF StudySpec

-----------------------------------------------------------------------------
(***************************************************************************)
(* What follows for every request and every study.                         *)
(***************************************************************************)
\* Results are kept only for products and categories that were identified, and
\* calendars for exactly the usable products (service.py, readiness.py).
THEOREM RequestTypeHolds == StudySpec => []TypeOK
<1>1. StudyInv => TypeOK
  BY DEF StudyInv, RequestInv, ReadinessInv, ProductsInv, CategoriesInv, TypeOK
<1> QED
  BY <1>1, StudyInvariant, PTL

\* No result class refuses what the service has put together: its answer never
\* fails as a whole (contracts.py, evaluation_contracts.py).
THEOREM NoRejectedResultHolds == StudySpec => []NoRejectedResult
<1>1. StudyInv => NoRejectedResult
  BY ReasonAssumption DEF StudyInv, RequestInv, ReadinessInv, NoRejectedResult
<1> QED
  BY <1>1, StudyInvariant, PTL

\* Every estimate shown rests on enough separate, wholly known weeks after the
\* training on which its method beat forecasting zero (trust_policy.py).
THEOREM ShownEstimateIsEarnedHolds == StudySpec => []ShownEstimateIsEarned
<1>1. ASSUME StudyInv PROVE ShownEstimateIsEarned
  <2>1. ASSUME NEW k \in Shown PROVE Earned(products[k], Series(calendars[k]))
    <3>1. k \in DOMAIN products /\ products[k].reason = None
      BY DEF Shown
    <3>2. k \in DOMAIN calendars /\ Sound(products[k], ProductSeries(k))
      BY <1>1, <3>1 DEF StudyInv, RequestInv, ProductsInv
    <3> QED
      BY <3>1, <3>2 DEF Sound, ProductSeries
  <2>2. ASSUME NEW c \in ShownCategories
        PROVE  Earned(categories[c], Series(candidates[c].series))
    <3>1. c \in DOMAIN categories /\ categories[c].reason = None
      BY DEF ShownCategories
    <3>2. candidates[c].reasons = {} /\ Sound(categories[c], CandidateSeries(c))
      BY <1>1, <3>1 DEF StudyInv, RequestInv, CategoriesInv
    <3> QED
      BY <3>1, <3>2 DEF Sound, CandidateSeries
  <2> QED
    BY <2>1, <2>2 DEF ShownEstimateIsEarned
<1> QED
  BY <1>1, StudyInvariant, PTL

\* Whatever days are unknown, a weekly method that could be tried often enough
\* leads to a winner, and the winner to evidence against zero on all its weeks
\* (rolling_evaluation.py, trust_gate.py).
THEOREM EvidenceIsComparableHolds == StudySpec => []EvidenceIsComparable
<1>1. ASSUME StudyInv PROVE EvidenceIsComparable
  <2>1. ASSUME NEW k \in DOMAIN products \cap DOMAIN calendars
        PROVE  Comparable(products[k], Series(calendars[k]))
    <3>1. Sound(products[k], ProductSeries(k)) /\ ProductSeries(k) = Series(calendars[k])
      BY <1>1 DEF StudyInv, RequestInv, ProductsInv, ProductSeries
    <3> QED
      BY <3>1 DEF Sound
  <2>2. ASSUME NEW c \in DOMAIN categories, candidates[c].reasons = {}
        PROVE  Comparable(categories[c], Series(candidates[c].series))
    <3>1. Sound(categories[c], CandidateSeries(c))
      BY <1>1 DEF StudyInv, RequestInv, CategoriesInv
    <3>2. CandidateSeries(c) = Series(candidates[c].series)
      BY <2>2 DEF CandidateSeries
    <3> QED
      BY <3>1, <3>2 DEF Sound
  <2> QED
    BY <2>1, <2>2 DEF EvidenceIsComparable
<1> QED
  BY <1>1, StudyInvariant, PTL

\* A stricter policy that passes its gate has, relative to what was sold, no
\* larger error than the present policy on the same cohort
\* (compare_global_consistency_policy.py, evaluate_sparse_abstention_fresh_cohort.py).
THEOREM PassedPolicyImprovesHolds == StudySpec => []PassedPolicyImproves
<1>1. ASSUME StudyInv PROVE PassedPolicyImproves
  <2> SUFFICES ASSUME study.kind = "cohort", outcome # None, NEW policy \in Policies,
                      outcome.policies[policy] = "passed"
               PROVE  LET kept == Retained(policy)
                          shown == ShownWeeks(Allowed)
                      IN  /\ Error(kept) < ZeroError(kept)
                          /\ Error(kept) * ZeroError(shown) <= Error(shown) * ZeroError(kept)
    BY DEF PassedPolicyImproves
  <2>1. CohortInv
    BY <1>1 DEF StudyInv
  <2>2. PolicyGate(policy) = "passed"
    BY <2>1 DEF CohortInv
  <2>3. ScoresAreProper
    <3>1. IsFiniteSet(DOMAIN study.sales)
      BY <2>1, StudyAssumption DEF CohortInv
    <3> QED
      BY <2>1, <3>1, FS_Subset DEF CohortInv, ScoresAreProper
  <2> QED
    BY <2>2, <2>3, PassedGateImproves
<1> QED
  BY <1>1, StudyInvariant, PTL

-----------------------------------------------------------------------------
(***************************************************************************)
(* The series of a category counts every sale once.                        *)
(***************************************************************************)
LEMMA PartsAre ==
    ASSUME NEW f, \A x \in DOMAIN f : f[x] \in Nat
    PROVE  Parts(f) = {y \in (DOMAIN f) \X Nat : y[2] \in 1 .. f[y[1]]}
BY DEF Parts

Within(K, R, q) == Sum([k \in K |-> Sum([r \in R[k] |-> q[r]])])
Together(K, R, q) == Sum([r \in UNION {R[k] : k \in K} |-> q[r]])

\* A sum of sums over separate sets is the sum over all of them: every unit of the
\* one stands for a unit of the other.
LEMMA SumOfSums ==
    ASSUME NEW K, NEW R, NEW q, IsFiniteSet(K),
           \A k \in K : IsFiniteSet(R[k]) /\ \A r \in R[k] : q[r] \in Nat,
           \A k, l \in K : k # l => R[k] \cap R[l] = {}
    PROVE  Within(K, R, q) = Together(K, R, q)
<1> DEFINE part == [k \in K |-> [r \in R[k] |-> q[r]]]
           P == [k \in K |-> Parts(part[k])]
           n == [k \in K |-> Cardinality(P[k])]
           all == [r \in UNION {R[k] : k \in K} |-> q[r]]
           b == [k \in K |-> CHOOSE f : f \in Bijection(1 .. n[k], P[k])]
           S == Parts(n)
           T == Parts(all)
           g == [x \in S |-> b[x[1]][x[2]]]
<1>1. ASSUME NEW k \in K PROVE IsFiniteSet(P[k]) /\ n[k] \in Nat /\ b[k] \in Bijection(1 .. n[k], P[k])
  <2>1. Sums(part[k])
    BY DEF Sums
  <2>2. IsFiniteSet(P[k])
    <3>1. IsFiniteSet(Parts(part[k]))
      <4> HIDE DEF part
      <4> QED
        BY <2>1, SumType
    <3> QED
      BY <3>1
  <2>3. n[k] = Cardinality(P[k])
    OBVIOUS
  <2> HIDE DEF P, n
  <2>4. n[k] \in Nat /\ ExistsBijection(1 .. n[k], P[k])
    BY <2>2, <2>3, FS_CardinalityType
  <2>5. b[k] \in Bijection(1 .. n[k], P[k])
    BY <2>4 DEF ExistsBijection
  <2> QED
    BY <2>2, <2>4, <2>5
<1>2. DOMAIN n = K /\ Sums(n)
  <2>1. DOMAIN n = K
    OBVIOUS
  <2> HIDE DEF n
  <2> QED
    BY <1>1, <2>1 DEF Sums
<1>3. IsFiniteSet(S) /\ S = {x \in K \X Nat : x[2] \in 1 .. n[x[1]]}
  <2> HIDE DEF n
  <2>1. IsFiniteSet(S)
    BY <1>2, SumType
  <2>2. S = {x \in K \X Nat : x[2] \in 1 .. n[x[1]]}
    BY <1>1, <1>2 DEF Parts
  <2> QED
    BY <2>1, <2>2
<1>4. ASSUME NEW k \in K PROVE P[k] = {y \in R[k] \X Nat : y[2] \in 1 .. q[y[1]]}
  <2> DEFINE f == [r \in R[k] |-> q[r]]
  <2>1. DOMAIN f = R[k] /\ (\A r \in R[k] : f[r] = q[r]) /\ \A r \in DOMAIN f : f[r] \in Nat
    OBVIOUS
  <2>2. P[k] = Parts(f)
    OBVIOUS
  <2> HIDE DEF P, f
  <2>3. Parts(f) = {y \in (DOMAIN f) \X Nat : y[2] \in 1 .. f[y[1]]}
    BY <2>1, PartsAre
  <2> QED
    BY <2>1, <2>2, <2>3
<1>5. T = {y \in (UNION {R[k] : k \in K}) \X Nat : y[2] \in 1 .. q[y[1]]}
  <2> DEFINE D == UNION {R[k] : k \in K}
  <2>1. DOMAIN all = D /\ (\A r \in D : all[r] = q[r]) /\ \A r \in DOMAIN all : all[r] \in Nat
    OBVIOUS
  <2> HIDE DEF all
  <2>2. T = {y \in (DOMAIN all) \X Nat : y[2] \in 1 .. all[y[1]]}
    BY <2>1, PartsAre
  <2> HIDE DEF D, T
  <2>3. T = {y \in D \X Nat : y[2] \in 1 .. q[y[1]]}
    BY <2>1, <2>2
  <2> QED
    BY <2>3 DEF D
<1> HIDE DEF P, n, b, S, T
<1>6. /\ \A k \in K : P[k] \subseteq T
      /\ \A y \in T : \E k \in K : y \in P[k]
      /\ \A k, l \in K : k # l => P[k] \cap P[l] = {}
  <2>1. \A k \in K : P[k] \subseteq T
    BY <1>4, <1>5
  <2>2. \A y \in T : \E k \in K : y \in P[k]
    <3> SUFFICES ASSUME NEW y \in T PROVE \E k \in K : y \in P[k]
      OBVIOUS
    <3>1. PICK k \in K : y[1] \in R[k]
      BY <1>5
    <3>2. y \in R[k] \X Nat /\ y[2] \in 1 .. q[y[1]]
      BY <1>5, <3>1
    <3> QED
      BY <1>4, <3>2
  <2>3. ASSUME NEW k \in K, NEW l \in K, k # l PROVE P[k] \cap P[l] = {}
    <3>1. R[k] \cap R[l] = {}
      BY <2>3
    <3>2. \A y \in P[k] : y[1] \in R[k]
      BY <1>4
    <3>3. \A y \in P[l] : y[1] \in R[l]
      BY <1>4
    <3> QED
      BY <3>1, <3>2, <3>3
  <2> QED
    BY <2>1, <2>2, <2>3
<1>7. ASSUME NEW x \in S
      PROVE  /\ x[1] \in K /\ x[2] \in 1 .. n[x[1]] /\ x = <<x[1], x[2]>>
             /\ g[x] \in P[x[1]] /\ g[x] = b[x[1]][x[2]]
  BY <1>1, <1>3 DEF Bijection, Injection, Surjection
<1>8. g \in [S -> T]
  BY <1>6, <1>7
<1>9. ASSUME NEW x \in S, NEW y \in S, g[x] = g[y] PROVE x = y
  <2>1. x[1] = y[1]
    BY <1>6, <1>7, <1>9
  <2>2. x[2] = y[2]
    <3> DEFINE f == b[x[1]]
    <3>1. f[x[2]] = f[y[2]] /\ x[2] \in 1 .. n[x[1]] /\ y[2] \in 1 .. n[x[1]]
      BY <1>7, <1>9, <2>1
    <3>2. f \in Bijection(1 .. n[x[1]], P[x[1]])
      BY <1>1, <1>7
    <3> HIDE DEF f
    <3> QED
      BY <3>1, <3>2 DEF Bijection, Injection, IsInjective
  <2> QED
    BY <1>7, <2>1, <2>2
<1>10. ASSUME NEW y \in T PROVE \E x \in S : g[x] = y
  <2>1. PICK k \in K : y \in P[k]
    BY <1>6
  <2>2. PICK i \in 1 .. n[k] : b[k][i] = y
    BY <1>1, <2>1 DEF Bijection, Surjection
  <2>3. <<k, i>> \in S
    BY <1>3, <2>2
  <2> QED
    BY <2>2, <2>3
<1>11. g \in Bijection(S, T)
  <2> HIDE DEF g
  <2> QED
    BY <1>8, <1>9, <1>10 DEF Bijection, Injection, Surjection, IsInjective
<1>12. Cardinality(T) = Cardinality(S)
  BY <1>3, <1>11, FS_Bijection DEF ExistsBijection
<1>13. \A k \in K : n[k] = Sum([r \in R[k] |-> q[r]])
  BY DEF n, P, Sum, Parts
<1>14. [k \in K |-> Sum([r \in R[k] |-> q[r]])] = n
  BY <1>13 DEF n
<1>15. Sum(n) = Cardinality(S) /\ Sum(all) = Cardinality(T)
  BY DEF S, T, Sum, Parts
<1>16. Within(K, R, q) = Sum(n) /\ Together(K, R, q) = Sum(all)
  BY <1>14 DEF Within, Together
<1> QED
  BY <1>12, <1>15, <1>16

SoldRows(sales) ==
    {r \in sales : /\ r.quantity # None /\ r.quantity > 0
                   /\ r.status \in {"completed", "returned"}}

CategoryState(f, members, a, d) ==
    CategoryStatus({f[k][d].status : k \in {l \in members : d \in DOMAIN f[l]}},
                   d \in a.business_closed_dates)

\* On a known day of a category's series every calendar of a member that reaches
\* the day knows it, and carries what was sold of the member.
LEMMA MembersAreKnown ==
    ASSUME NEW rows, NEW a, NEW members, NEW f, NEW d,
           \A k \in members : f[k] = Calendar(rows, a, k),
           CategoryState(f, members, a, d) \in Known
    PROVE  \A k \in members : d \in DOMAIN f[k] =>
             /\ f[k][d].status \in Known
             /\ f[k][d].units = Fulfilled({r \in RowsOf(rows, a, k) : r.day = d})
<1> DEFINE On == {k \in members : d \in DOMAIN f[k]}
           statuses == {f[k][d].status : k \in On}
           closed == d \in a.business_closed_dates
<1>1. ~closed /\ "missing_unknown" \notin statuses /\ "stockout_limited" \notin statuses
  <2> HIDE DEF statuses, closed
  <2>1. CategoryStatus(statuses, closed) \in Known
    BY DEF statuses, closed, CategoryState
  <2> QED
    BY <2>1 DEF CategoryStatus, Known
<1> SUFFICES ASSUME NEW k \in members, d \in DOMAIN f[k]
             PROVE  /\ f[k][d].status \in Known
                    /\ f[k][d].units = Fulfilled({r \in RowsOf(rows, a, k) : r.day = d})
  OBVIOUS
<1> DEFINE sales == {r \in RowsOf(rows, a, k) : r.day = d}
           state == DayStatus(sales, closed, <<k, d>> \in a.stockout_dates, a)
<1>2. f[k][d] = Point(state, Fulfilled(sales))
  BY DEF Calendar
<1>3. f[k][d].status = state
  <2> HIDE DEF state, sales
  <2> QED
    BY <1>2 DEF Point
<1>4. state \in statuses
  <2> HIDE DEF state
  <2> QED
    BY <1>3
<1>5. state \in Known
  <2>1. state # "missing_unknown" /\ state # "stockout_limited"
    <3> HIDE DEF state, statuses
    <3> QED
      BY <1>1, <1>4
  <2> HIDE DEF sales, closed
  <2> QED
    BY <1>1, <2>1 DEF DayStatus, Known
<1>6. f[k][d].units = Fulfilled(sales)
  <2> HIDE DEF state, sales
  <2> QED
    BY <1>2, <1>5 DEF Point
<1> QED
  BY <1>3, <1>5, <1>6

\* The rows of a category on a day are those of its members, each one's apart.
LEMMA CategoryRows ==
    ASSUME NEW rows, NEW a, NEW ready, NEW c \in AllCategories(rows, a),
           CategoryReasons(rows, a, ready, c) = {}, NEW d
    PROVE  LET members == Members(rows, a, c)
               Of(k) == {r \in RowsOf(rows, a, k) : r.day = d}
           IN  {r \in rows : r.category = c /\ r.day = d} = UNION {Of(k) : k \in members}
<1> DEFINE members == Members(rows, a, c)
<1>1. /\ c \notin CategoriesOf(rows, a, None)
      /\ \A k \in members : CategoriesOf(rows, a, k) = {c}
      /\ \A k \in members : \A r \in RowsOf(rows, a, k) : r.category # None
  BY DEF CategoryReasons
<1>2. c # None
  BY DEF AllCategories, CategoriesOf
<1>3. ASSUME NEW k \in members, NEW r \in RowsOf(rows, a, k) PROVE r \in rows /\ r.category = c
  <2>1. r.category \in CategoriesOf(rows, a, k)
    BY <1>1 DEF CategoriesOf
  <2> QED
    BY <1>1, <2>1 DEF RowsOf
<1>4. ASSUME NEW r \in rows, r.category = c
      PROVE  ProductKey(r, a) \in members /\ r \in RowsOf(rows, a, ProductKey(r, a))
  <2>1. r \in RowsOf(rows, a, ProductKey(r, a))
    BY DEF RowsOf
  <2>2. c \in CategoriesOf(rows, a, ProductKey(r, a))
    BY <1>2, <1>4, <2>1 DEF CategoriesOf
  <2>3. ProductKey(r, a) # None
    BY <1>1, <2>2
  <2> QED
    BY <2>1, <2>2, <2>3 DEF Members, Keys
<1> HIDE DEF members
<1>5. {r \in rows : r.category = c /\ r.day = d}
        = UNION {{r \in RowsOf(rows, a, k) : r.day = d} : k \in members}
  BY <1>3, <1>4
<1> QED
  BY <1>5 DEF members

LEMMA MembersFinite ==
    ASSUME NEW rows, ProperRows(rows), NEW a, NEW c
    PROVE  IsFiniteSet(Members(rows, a, c)) /\ Members(rows, a, c) \subseteq Keys(rows, a)
<1> DEFINE key == [r \in rows |-> ProductKey(r, a)]
<1>1. IsFiniteSet({key[r] : r \in rows})
  <2> HIDE DEF key
  <2> QED
    BY FiniteImage DEF ProperRows
<1>2. Keys(rows, a) \subseteq {key[r] : r \in rows}
  BY DEF Keys
<1>3. Members(rows, a, c) \subseteq Keys(rows, a)
  BY DEF Members
<1> HIDE DEF key
<1> QED
  BY <1>1, <1>2, <1>3, FS_Subset

\* A product's calendar reaches over every day it was sold on.
LEMMA CalendarCovers ==
    ASSUME NEW rows, ProperRows(rows), NEW a, NEW k, NEW r \in RowsOf(rows, a, k)
    PROVE  r.day \in DOMAIN Calendar(rows, a, k)
<1> DEFINE sales == RowsOf(rows, a, k)
           day == [q \in sales |-> q.day]
<1>1. IsFiniteSet(sales) /\ \A q \in sales : q.day \in Nat
  BY FS_Subset DEF RowsOf, ProperRows
<1>2. Days(sales) = {day[q] : q \in sales}
  BY DEF Days
<1>3. r.day \in Days(sales)
  BY DEF Days
<1>4. DOMAIN Calendar(rows, a, k) = Span(Days(sales))
  BY DEF Calendar
<1>5. IsFiniteSet(Days(sales))
  <2> HIDE DEF day, sales
  <2> QED
    BY <1>1, <1>2, FiniteImage
<1>6. Days(sales) \subseteq Nat
  BY <1>1 DEF Days
<1> HIDE DEF day, sales
<1>7. /\ Min(Days(sales)) <= r.day /\ r.day <= Max(Days(sales))
      /\ Min(Days(sales)) \in Nat /\ Max(Days(sales)) \in Nat /\ r.day \in Nat
  BY <1>3, <1>5, <1>6, MinAndMax
<1> QED
  BY <1>4, <1>7 DEF Span, sales

\* What a category's series carries on a known day was sold in the category that day.
LEMMA CategoryCounts ==
    ASSUME NEW rows, ProperRows(rows), NEW a, NEW ready, NEW c \in AllCategories(rows, a),
           CategoryReasons(rows, a, ready, c) = {}, NEW f,
           \A k \in Members(rows, a, c) : f[k] = Calendar(rows, a, k),
           NEW d \in DOMAIN CategorySeries(f, Members(rows, a, c), a),
           CategorySeries(f, Members(rows, a, c), a)[d].status \in Known
    PROVE  CategorySeries(f, Members(rows, a, c), a)[d].units
             = Fulfilled({r \in rows : r.category = c /\ r.day = d})
<1> DEFINE members == Members(rows, a, c)
           On == {k \in members : d \in DOMAIN f[k]}
           Sells == {k \in On : f[k][d].status \in Known}
           state == CategoryStatus({f[k][d].status : k \in On}, d \in a.business_closed_dates)
           Of(k) == {r \in RowsOf(rows, a, k) : r.day = d}
           sold == {r \in rows : r.category = c /\ r.day = d}
           R == [k \in On |-> SoldRows(Of(k))]
           q == [r \in rows |-> r.quantity]
           total == Sum([k \in Sells |-> f[k][d].units])
           x == CategorySeries(f, members, a)[d]
<1>1. x = Point(state, total)
  BY DEF CategorySeries
<1>2. state \in Known /\ x.units = total
  <2>1. x.status \in Known
    OBVIOUS
  <2> HIDE DEF x, state, total
  <2> QED
    BY <1>1, <2>1 DEF Point
<1>3. ASSUME NEW k \in On PROVE f[k][d].status \in Known /\ f[k][d].units = Fulfilled(Of(k))
  <2>1. CategoryState(f, members, a, d) \in Known
    BY <1>2 DEF CategoryState
  <2>2. \A l \in members : f[l] = Calendar(rows, a, l)
    OBVIOUS
  <2> HIDE DEF members
  <2>3. \A l \in members : d \in DOMAIN f[l] =>
            /\ f[l][d].status \in Known
            /\ f[l][d].units = Fulfilled({r \in RowsOf(rows, a, l) : r.day = d})
    BY <2>1, <2>2, MembersAreKnown
  <2> QED
    BY <2>3
<1>4. IsFiniteSet(On)
  <2>1. IsFiniteSet(members)
    BY MembersFinite
  <2> HIDE DEF members
  <2> QED
    BY <2>1, FS_Subset
<1>5. ASSUME NEW k \in On
      PROVE  /\ R[k] = SoldRows(Of(k)) /\ R[k] \subseteq rows /\ IsFiniteSet(R[k])
             /\ \A r \in R[k] : q[r] \in Nat /\ q[r] = r.quantity /\ ProductKey(r, a) = k
  <2>1. R[k] = SoldRows(Of(k)) /\ Of(k) \subseteq rows
    BY DEF RowsOf
  <2>2. \A r \in Of(k) : ProductKey(r, a) = k
    BY DEF RowsOf
  <2> HIDE DEF On, Of, R
  <2> QED
    BY <2>1, <2>2, FS_Subset DEF SoldRows, ProperRows
<1>6. \A k, l \in On : k # l => R[k] \cap R[l] = {}
  <2> HIDE DEF R, On
  <2> QED
    BY <1>5
<1>7. ASSUME NEW k \in On PROVE Fulfilled(Of(k)) = Sum([r \in R[k] |-> q[r]])
  <2>1. [r \in R[k] |-> q[r]] = [r \in SoldRows(Of(k)) |-> r.quantity]
    <3> HIDE DEF R, q, Of, On
    <3> QED
      BY <1>5
  <2>2. Fulfilled(Of(k)) = Sum([r \in SoldRows(Of(k)) |-> r.quantity])
    <3> HIDE DEF Of
    <3> QED
      BY DEF Fulfilled, SoldRows
  <2> QED
    BY <2>1, <2>2
<1>8. Sells = On
  <2> HIDE DEF On
  <2> QED
    BY <1>3
<1>9. total = Sum([k \in On |-> Sum([r \in R[k] |-> q[r]])])
  <2>1. [k \in On |-> f[k][d].units] = [k \in On |-> Sum([r \in R[k] |-> q[r]])]
    <3> HIDE DEF On, R, q, Of
    <3> QED
      BY <1>3, <1>7
  <2>2. total = Sum([k \in On |-> f[k][d].units])
    <3> HIDE DEF On, Sells
    <3> QED
      BY <1>8
  <2> QED
    BY <2>1, <2>2
<1>10. UNION {R[k] : k \in On} = SoldRows(sold)
  <2>1. sold = UNION {Of(k) : k \in members}
    BY CategoryRows
  <2>2. ASSUME NEW k \in members, NEW r \in Of(k) PROVE k \in On
    <3>1. r \in RowsOf(rows, a, k) /\ r.day = d
      OBVIOUS
    <3>2. d \in DOMAIN Calendar(rows, a, k)
      BY <3>1, CalendarCovers
    <3> QED
      BY <3>2
  <2>3. On \subseteq members
    OBVIOUS
  <2>4. \A k \in On : R[k] = SoldRows(Of(k))
    BY <1>5
  <2> HIDE DEF On, Of, R, members, sold
  <2> QED
    BY <2>1, <2>2, <2>3, <2>4 DEF SoldRows
<1>11. Fulfilled(sold) = Sum([r \in SoldRows(sold) |-> q[r]])
  <2>1. Fulfilled(sold) = Sum([r \in SoldRows(sold) |-> r.quantity])
    <3> HIDE DEF sold
    <3> QED
      BY DEF Fulfilled, SoldRows
  <2>2. [r \in SoldRows(sold) |-> r.quantity] = [r \in SoldRows(sold) |-> q[r]]
    BY DEF SoldRows
  <2> QED
    BY <2>1, <2>2
<1>12. Within(On, R, q) = Together(On, R, q)
  <2>1. \A k \in On : IsFiniteSet(R[k]) /\ \A r \in R[k] : q[r] \in Nat
    BY <1>5
  <2> HIDE DEF On, R, q
  <2> QED
    BY <1>4, <1>6, <2>1, SumOfSums
<1>13. total = Fulfilled(sold)
  <2> HIDE DEF On, R, q, sold, total
  <2> QED
    BY <1>9, <1>10, <1>11, <1>12 DEF Within, Together
<1> QED
  BY <1>2, <1>13

\* Where calendars and candidates come from: the rows of the analysis.
Provenance ==
    /\ study.kind = "cohort" => candidates = Nothing
    /\ \A k \in DOMAIN calendars : calendars[k] = Calendar(data.rows, assumptions, k)
    /\ \A c \in DOMAIN candidates :
        /\ c \in AllCategories(data.rows, assumptions)
        /\ candidates[c] = Candidate(data.rows, assumptions, readiness, calendars, c)

LEMMA ProvenanceInitially ==
    ASSUME StudyInit
    PROVE  Provenance
<1>1. calendars = Nothing /\ candidates = Nothing /\ DOMAIN Nothing = {}
  BY DEF StudyInit, Idle, Nothing
<1> QED
  BY <1>1 DEF Provenance

LEMMA RequestProvenance ==
    ASSUME RequestInv, Provenance, study.kind # "cohort", Next, study' = study
    PROVE  Provenance'
<1>1. data' = data /\ assumptions' = assumptions
  BY DEF data, assumptions, Next, Refuse, BuildCalendar, AnalyzeProduct, PrepareCategories,
         AnalyzeCategory, Answer
<1>2. DOMAIN Nothing = {}
  BY DEF Nothing
<1>3. CASE UNCHANGED <<readiness, calendars, candidates>>
  BY <1>1, <1>3 DEF Provenance
<1>4. CASE Refuse
  <2>1. calendars' = Nothing /\ candidates' = Nothing
    BY <1>4 DEF Refuse, RequestInv, ReadinessInv, Idle
  <2> QED
    BY <1>2, <2>1 DEF Provenance
<1>5. CASE BuildCalendar
  <2>1. candidates' = Nothing
    BY <1>5 DEF BuildCalendar, RequestInv, ReadinessInv, Idle
  <2>2. \A k \in DOMAIN calendars' : calendars'[k] = Calendar(data.rows, assumptions, k)
    BY <1>5 DEF BuildCalendar
  <2> QED
    BY <1>1, <1>2, <2>1, <2>2 DEF Provenance
<1>6. CASE PrepareCategories
  <2>1. readiness' = readiness /\ calendars' = calendars /\ candidates = Nothing
    BY <1>6 DEF PrepareCategories, RequestInv, CandidatesInv
  <2>2. \/ candidates' = Nothing
        \/ candidates' = PrepareCandidates(data, assumptions, readiness, calendars, Shown)
    BY <1>6, <2>1 DEF PrepareCategories
  <2>3. ASSUME NEW c \in DOMAIN candidates'
        PROVE  /\ c \in AllCategories(data.rows, assumptions)
               /\ candidates'[c] = Candidate(data.rows, assumptions, readiness, calendars, c)
    BY <1>2, <2>2 DEF PrepareCandidates, NoCandidates, Uncovered
  <2>4. \A k \in DOMAIN calendars' : calendars'[k] = Calendar(data.rows, assumptions, k)
    BY <2>1 DEF Provenance
  <2> QED
    BY <1>1, <2>1, <2>3, <2>4 DEF Provenance
<1> QED
  BY <1>3, <1>4, <1>5, <1>6 DEF Next, AnalyzeProduct, AnalyzeCategory, Answer

LEMMA ProvenanceStep ==
    ASSUME StudyInv, Provenance, [StudyNext]_<<vars, studyVars>>
    PROVE  Provenance'
<1>1. CASE Serve
  BY <1>1, RequestProvenance DEF Serve, StudyInv, studyVars
<1>2. ASSUME UNCHANGED vars, study'.kind = study.kind PROVE Provenance'
  BY <1>2 DEF Provenance, vars, data, assumptions
<1>3. CASE Draw
  <2>1. study'.kind = "cohort" /\ study.kind = "cohort" /\ UNCHANGED vars
    BY <1>3, DrawStep DEF Draw, StudyInv
  <2> QED
    BY <1>2, <2>1
<1> QED
  BY <1>1, <1>2, <1>3 DEF StudyNext, Withhold, ConcludeIndependent, ConcludeCohort, ScoreProduct,
     ScoreCategory, EvaluateHeldBack, studyVars

\* The estimate of a category rests on every sale of the category, once: no product
\* outside it, none left out, none counted in two categories (category_fallback.py).
THEOREM CategoryCountsEverySaleHolds == StudySpec => []CategoryCountsEverySale
<1>1. StudyInit => Provenance
  BY ProvenanceInitially
<1>2. StudyInv /\ Provenance /\ [StudyNext]_<<vars, studyVars>> => Provenance'
  BY ProvenanceStep
<1>3. ASSUME StudyInv, Provenance PROVE CategoryCountsEverySale
  <2> SUFFICES ASSUME NEW c \in DOMAIN candidates, candidates[c].reasons = {},
                      NEW d \in DOMAIN candidates[c].series,
                      candidates[c].series[d].status \in Known
               PROVE  candidates[c].series[d].units
                        = Fulfilled({r \in data.rows : r.category = c /\ r.day = d})
    BY DEF CategoryCountsEverySale
  <2> DEFINE members == Members(data.rows, assumptions, c)
  <2>1. study.kind # "cohort" /\ ProperRows(data.rows)
    BY <1>3 DEF Provenance, StudyInv, Nothing
  <2>2. /\ c \in AllCategories(data.rows, assumptions)
        /\ candidates[c] = Candidate(data.rows, assumptions, readiness, calendars, c)
    BY <1>3 DEF Provenance
  <2>3. /\ CategoryReasons(data.rows, assumptions, readiness, c) = {}
        /\ candidates[c].series = CategorySeries(calendars, members, assumptions)
    BY <2>2 DEF Candidate
  <2>4. members \subseteq DOMAIN calendars
    BY <1>3, <2>3 DEF CategoryReasons, StudyInv, RequestInv, ReadinessInv
  <2>5. \A k \in members : calendars[k] = Calendar(data.rows, assumptions, k)
    BY <1>3, <2>4 DEF Provenance
  <2> QED
    BY <2>1, <2>2, <2>3, <2>5, CategoryCounts
<1> QED
  BY <1>1, <1>2, <1>3, StudyInvariant, PTL DEF StudySpec

-----------------------------------------------------------------------------
(***************************************************************************)
(* The independent evaluation: the calendars of the whole export continue  *)
(* those of its history, so that the first held back week is scored on     *)
(* the estimate the service shows.                                         *)
(***************************************************************************)
\* The calendar f is what the calendar g says of the days before H.
Cut(f, g, H) ==
    /\ DOMAIN f = {d \in DOMAIN g : d < H}
    /\ \A d \in DOMAIN f : f[d] = g[d]

\* Spans of days that reach up to the day before H differ from H on alone.
LEMMA SpanCut ==
    ASSUME NEW U, U \subseteq Nat, IsFiniteSet(U), NEW H \in Int, H - 1 \in U
    PROVE  Span({d \in U : d < H}) = {d \in Span(U) : d < H}
<1> DEFINE V == {d \in U : d < H}
<1>1. V \subseteq U /\ H - 1 \in V /\ \A d \in V : d \in Nat /\ d <= H - 1
  OBVIOUS
<1>2. \A d \in U : d < H => d \in V
  OBVIOUS
<1> HIDE DEF V
<1>8. V \subseteq Nat /\ IsFiniteSet(V)
  BY <1>1, FS_Subset
<1> DEFINE v == Min(V)
           w == Max(V)
           u == Min(U)
           t == Max(U)
<1>3. /\ v \in V /\ w \in V /\ v \in Nat /\ w \in Nat
      /\ v <= H - 1 /\ H - 1 <= w /\ \A d \in V : v <= d
  BY <1>1, <1>8, MinAndMax
<1>4. /\ u \in U /\ t \in U /\ u \in Nat /\ t \in Nat
      /\ u <= H - 1 /\ H - 1 <= t /\ \A d \in U : u <= d
  BY MinAndMax
<1>9. Span(V) = v .. w /\ Span(U) = u .. t
  BY DEF Span
<1> HIDE DEF u, v, t, w
<1>5. w = H - 1
  BY <1>1, <1>3
<1>6. v = u
  <2>1. u \in V
    BY <1>2, <1>4
  <2> QED
    BY <1>1, <1>3, <1>4, <2>1
<1>7. Span(V) = {d \in Span(U) : d < H}
  BY <1>3, <1>4, <1>5, <1>6, <1>9
<1> QED
  BY <1>7 DEF V

\* The series of a calendar that is cut is the beginning of the other's.
LEMMA SeriesOfCut ==
    ASSUME NEW f, NEW g, NEW H \in Int, IsCalendar(f), IsCalendar(g), Cut(f, g, H)
    PROVE  LET o == Cardinality({d \in DOMAIN g : d < H})
           IN  /\ o \in Nat \ {0} /\ o = Len(Series(f))
               /\ \A i \in 1 .. o : Series(g)[i] = Series(f)[i]
<1>1. PICK m \in Nat, n \in Nat : m <= n /\ DOMAIN f = m .. n
  BY DEF IsCalendar
<1>2. PICK p \in Nat, q \in Nat : p <= q /\ DOMAIN g = p .. q
  BY DEF IsCalendar
<1>3. p = m /\ n <= q
  BY <1>1, <1>2 DEF Cut
<1>4. /\ Cardinality(m .. n) = n - m + 1 /\ IsFiniteSet(m .. n)
      /\ Cardinality(p .. q) = q - p + 1 /\ IsFiniteSet(p .. q)
  BY <1>1, <1>2, FS_Interval
<1>5. Min(m .. n) = m /\ Min(p .. q) = p
  <2>1. ASSUME NEW x \in Nat, NEW y \in Nat, x <= y, IsFiniteSet(x .. y) PROVE Min(x .. y) = x
    <3>1. x .. y \subseteq Nat /\ x \in x .. y
      BY <2>1
    <3>2. Min(x .. y) \in x .. y /\ \A d \in x .. y : Min(x .. y) <= d
      BY <2>1, <3>1, MinAndMax
    <3> QED
      BY <3>1, <3>2
  <2> QED
    BY <1>1, <1>2, <1>4, <2>1
<1> DEFINE o == n - m + 1
           l == q - p + 1
<1>6. o \in Nat \ {0} /\ l \in Nat /\ o <= l
  BY <1>1, <1>2, <1>3
<1>7. /\ Series(f) = [i \in 1 .. o |-> f[m + i - 1]]
      /\ Series(g) = [i \in 1 .. l |-> g[p + i - 1]]
  BY <1>1, <1>2, <1>4, <1>5 DEF Series
<1>8. Cardinality({d \in DOMAIN g : d < H}) = o
  BY <1>1, <1>4 DEF Cut
<1>9. ASSUME NEW i \in 1 .. o PROVE m + i - 1 \in m .. n
  BY <1>1, <1>9
<1> HIDE DEF o, l
<1>10. Len(Series(f)) = o
  BY <1>6, <1>7
<1>11. ASSUME NEW i \in 1 .. o PROVE Series(g)[i] = Series(f)[i]
  <2>1. i \in 1 .. l
    BY <1>6
  <2>2. f[m + i - 1] = g[m + i - 1]
    BY <1>1, <1>9 DEF Cut
  <2> QED
    BY <1>3, <1>7, <2>1, <2>2
<1> QED
  BY <1>6, <1>8, <1>10, <1>11

\* A forecast depends on the days up to its origin alone.
LEMMA ForecastOfPast ==
    ASSUME NEW s, NEW t, NEW o \in Nat \ {0}, \A i \in 1 .. o : s[i] = t[i], NEW c \in Weekly
    PROVE  /\ CanForecast(s, o, c) => CanForecast(t, o, c)
           /\ CanForecast(s, o, c) /\ c # "sba_croston" => \A x, y :
                PredictedTotal(s, o, c, x) = PredictedTotal(t, o, c, y)
<1> SUFFICES ASSUME CanForecast(s, o, c)
             PROVE  /\ CanForecast(t, o, c)
                    /\ c # "sba_croston" => \A x, y :
                            PredictedTotal(s, o, c, x) = PredictedTotal(t, o, c, y)
  OBVIOUS
<1>1. Needed(c, o) \subseteq 1 .. o
  <2>1. History(c) \in Nat \ {0} /\ o >= History(c)
    BY HistoryBounds DEF CanForecast
  <2> QED
    BY <2>1 DEF Needed
<1>2. CanForecast(t, o, c)
  BY <1>1 DEF CanForecast, AllKnown
<1>3. Units(s, Needed(c, o)) = Units(t, Needed(c, o))
  <2>1. [d \in Needed(c, o) |-> s[d].units] = [d \in Needed(c, o) |-> t[d].units]
    BY <1>1
  <2> QED
    BY <2>1 DEF Units
<1>4. c # "sba_croston" => c \in {"last_week_total", "mean_4_weekly_totals"}
  BY DEF Weekly
<1>5. ASSUME c # "sba_croston", NEW x, NEW y
      PROVE  PredictedTotal(s, o, c, x) = PredictedTotal(t, o, c, y)
  BY <1>3, <1>4, <1>5 DEF PredictedTotal
<1> QED
  BY <1>2, <1>5

\* Of a product whose rows before H are known up to H, more rows from H on do not
\* change the calendar of the days before H.
LEMMA CalendarCut ==
    ASSUME NEW rows, ProperRows(rows), NEW past, past \subseteq rows, NEW H \in Int,
           \A r \in rows : r \in past <=> r.day < H,
           NEW a, NEW k \in Keys(past, a), Max(DOMAIN Calendar(past, a, k)) = H - 1
    PROVE  Cut(Calendar(past, a, k), Calendar(rows, a, k), H)
<1> DEFINE f == Calendar(past, a, k)
           g == Calendar(rows, a, k)
           U == Days(RowsOf(rows, a, k))
           V == Days(RowsOf(past, a, k))
<1>1. U \subseteq Nat /\ IsFiniteSet(U)
  <2> DEFINE sales == RowsOf(rows, a, k)
             day == [r \in sales |-> r.day]
  <2>1. IsFiniteSet(sales) /\ \A r \in sales : r.day \in Nat
    <3>1. sales \subseteq rows
      BY DEF RowsOf
    <3> HIDE DEF sales
    <3> QED
      BY <3>1, FS_Subset DEF ProperRows
  <2>2. U = {day[r] : r \in sales}
    BY DEF Days
  <2> HIDE DEF sales
  <2>3. IsFiniteSet({day[r] : r \in sales})
    <3> HIDE DEF day
    <3> QED
      BY <2>1, FiniteImage
  <2> QED
    BY <2>1, <2>2, <2>3
<1>2. V = {d \in U : d < H}
  BY DEF Days, RowsOf
<1>3. V # {}
  BY DEF Days, RowsOf, Keys
<1>4. DOMAIN f = Span(V) /\ DOMAIN g = Span(U)
  BY DEF Calendar
<1>5. H - 1 \in U
  <2>1. V \subseteq Nat /\ IsFiniteSet(V)
    <3> HIDE DEF U, V
    <3> QED
      BY <1>1, <1>2, FS_Subset
  <2>2. Min(V) \in V /\ Max(V) \in V /\ Min(V) <= Max(V) /\ Min(V) \in Nat /\ Max(V) \in Nat
    <3> HIDE DEF U, V
    <3> QED
      BY <1>3, <2>1, MinAndMax
  <2> DEFINE v == Min(V)
             w == Max(V)
  <2>3. Span(V) = v .. w
    BY DEF Span
  <2> HIDE DEF v, w, V, U
  <2>8. v \in Nat /\ w \in Nat /\ v <= w
    BY <2>2 DEF v, w
  <2>4. IsFiniteSet(v .. w) /\ v .. w \subseteq Nat /\ w \in v .. w
    BY <2>8, FS_Interval
  <2>5. Max(v .. w) \in v .. w /\ \A d \in v .. w : d <= Max(v .. w)
    BY <2>4, MinAndMax
  <2>6. Max(v .. w) = w
    BY <2>2, <2>4, <2>5 DEF v, w
  <2>7. w = H - 1
    BY <1>4, <2>3, <2>6
  <2> QED
    BY <1>2, <2>2, <2>7 DEF w
<1>6. DOMAIN f = {d \in DOMAIN g : d < H}
  <2> HIDE DEF U, V, f, g
  <2> QED
    BY <1>1, <1>2, <1>4, <1>5, SpanCut
<1>7. ASSUME NEW d \in DOMAIN f PROVE f[d] = g[d]
  <2> DEFINE new == {r \in RowsOf(rows, a, k) : r.day = d}
             old == {r \in RowsOf(past, a, k) : r.day = d}
             point(sales) == Point(DayStatus(sales, d \in a.business_closed_dates,
                                             <<k, d>> \in a.stockout_dates, a), Fulfilled(sales))
  <2>1. new = old
    BY <1>6 DEF RowsOf
  <2>2. d \in DOMAIN g
    BY <1>6
  <2>3. f[d] = point(old)
    BY DEF Calendar
  <2>4. g[d] = point(new)
    BY <2>2 DEF Calendar
  <2> HIDE DEF new, old, point, f, g
  <2> QED
    BY <2>1, <2>3, <2>4
<1> HIDE DEF f, g
<1>8. Cut(f, g, H)
  BY <1>6, <1>7 DEF Cut
<1> QED
  BY <1>8 DEF f, g

\* Of a category, products that sell from H on alone do not either.
LEMMA CategoryCut ==
    ASSUME NEW H \in Int, NEW a, NEW all, NEW some, some \subseteq all, some # {},
           IsFiniteSet(all), NEW f, NEW g,
           \A k \in all : IsCalendar(g[k]),
           \A k \in some : Cut(f[k], g[k], H) /\ H - 1 \in DOMAIN f[k],
           \A k \in all \ some : \A d \in DOMAIN g[k] : ~(d < H)
    PROVE  Cut(CategorySeries(f, some, a), CategorySeries(g, all, a), H)
<1> DEFINE U == UNION {DOMAIN g[k] : k \in all}
           V == UNION {DOMAIN f[k] : k \in some}
           s == CategorySeries(f, some, a)
           t == CategorySeries(g, all, a)
<1>1. U \subseteq Nat /\ IsFiniteSet(U)
  <2>1. ASSUME NEW k \in all PROVE DOMAIN g[k] \subseteq Nat /\ IsFiniteSet(DOMAIN g[k])
    <3>1. PICK m \in Nat, n \in Nat : DOMAIN g[k] = m .. n
      BY DEF IsCalendar
    <3> QED
      BY <3>1, FS_Interval
  <2> DEFINE days == [k \in all |-> DOMAIN g[k]]
  <2>2. IsFiniteSet({days[k] : k \in all})
    <3> HIDE DEF days
    <3> QED
      BY FiniteImage
  <2>3. IsFiniteSet({DOMAIN g[k] : k \in all})
    BY <2>2
  <2>4. \A X \in {DOMAIN g[k] : k \in all} : IsFiniteSet(X)
    BY <2>1
  <2> HIDE DEF days
  <2> QED
    BY <2>1, <2>3, <2>4, FS_UNION
<1>2. V = {d \in U : d < H}
  BY DEF Cut
<1>3. H - 1 \in U
  BY DEF Cut
<1>4. DOMAIN s = Span(V) /\ DOMAIN t = Span(U)
  BY DEF CategorySeries
<1>5. DOMAIN s = {d \in DOMAIN t : d < H}
  <2> HIDE DEF U, V, s, t
  <2> QED
    BY <1>1, <1>2, <1>3, <1>4, SpanCut
<1>6. ASSUME NEW d \in DOMAIN s PROVE s[d] = t[d]
  <2> DEFINE old == {k \in some : d \in DOMAIN f[k]}
             new == {k \in all : d \in DOMAIN g[k]}
             soldOld == {k \in old : f[k][d].status \in Known}
             soldNew == {k \in new : g[k][d].status \in Known}
             closed == d \in a.business_closed_dates
  <2>1. d < H /\ d \in DOMAIN t
    BY <1>5
  <2>2. old = new /\ \A k \in old : f[k][d] = g[k][d]
    BY <2>1 DEF Cut
  <2>3. s[d] = Point(CategoryStatus({f[k][d].status : k \in old}, closed),
                     Sum([k \in soldOld |-> f[k][d].units]))
    BY DEF CategorySeries
  <2>4. t[d] = Point(CategoryStatus({g[k][d].status : k \in new}, closed),
                     Sum([k \in soldNew |-> g[k][d].units]))
    BY <2>1 DEF CategorySeries
  <2> HIDE DEF old, new, s, t, closed
  <2>5. {f[k][d].status : k \in old} = {g[k][d].status : k \in new}
    BY <2>2
  <2>6. soldOld = soldNew
    BY <2>2
  <2>7. [k \in soldOld |-> f[k][d].units] = [k \in soldNew |-> g[k][d].units]
    BY <2>2, <2>6
  <2> HIDE DEF soldOld, soldNew
  <2> QED
    BY <2>3, <2>4, <2>5, <2>7
<1> HIDE DEF s, t
<1>7. Cut(s, t, H)
  BY <1>5, <1>6 DEF Cut
<1> QED
  BY <1>7 DEF s, t

\* An estimate that is shown is the forecast of its method from all days there are.
Final(x, s) ==
    x.reason = None =>
        /\ x.evidence.selected \in Weekly
        /\ CanForecast(s, Len(s), x.evidence.selected)
        /\ x.evidence.selected # "sba_croston" =>
                x.forecast = PredictedTotal(s, Len(s), x.evidence.selected, NoWeeks)

\* Scored on a calendar that continues the one it was made from, an estimate is the
\* forecast of the first held back week.
LEMMA ScoredFirst ==
    ASSUME NEW f, NEW g, NEW H \in Int, IsCalendar(f), IsCalendar(g), Cut(f, g, H),
           NEW x, x.reason = None, Final(x, Series(f)), NEW last,
           NEW result \in Scores(x, g, H, last), result.status = "assessed"
    PROVE  /\ result.selected = x.evidence.selected
           /\ result.weeks[1].shown
           /\ x.evidence.selected # "sba_croston" => result.weeks[1].predicted = x.forecast
<1> DEFINE o == Cardinality({d \in DOMAIN g : d < H})
           c == x.evidence.selected
           s == Series(f)
           t == Series(g)
<1>1. o \in Nat \ {0} /\ o = Len(s) /\ \A i \in 1 .. o : t[i] = s[i]
  BY SeriesOfCut
<1>2. PICK croston : result = Assessed(c, Weeks(t, o, c, croston))
  BY ReasonAssumption DEF Scores, Skipped
<1>3. result.selected = c /\ result.weeks = Weeks(t, o, c, croston)
  BY <1>2 DEF Assessed
<1>4. /\ c \in Weekly /\ CanForecast(s, o, c)
      /\ c # "sba_croston" => x.forecast = PredictedTotal(s, o, c, NoWeeks)
  BY <1>1 DEF Final
<1>5. c # None
  BY <1>4, NoneIsNoMethod DEF Candidates
<1> HIDE DEF s, t, o, c
<1>6. CanForecast(t, o, c) /\ (c # "sba_croston" => x.forecast = PredictedTotal(t, o, c, croston))
  BY <1>1, <1>4, ForecastOfPast
<1>7. Start(o, 1) = o
  BY <1>1, StudyConstants DEF Start
<1>8. 1 \in 1 .. HoldoutWeeks
  BY StudyConstants
<1>9. /\ Weeks(t, o, c, croston)[1].shown = (c # None /\ CanForecast(t, o, c))
      /\ CanForecast(t, o, c) /\ c # None =>
            Weeks(t, o, c, croston)[1].predicted = PredictedTotal(t, o, c, croston)
  BY <1>7, <1>8 DEF Weeks
<1> QED
  BY <1>3, <1>5, <1>6, <1>9 DEF c

\* The estimate of an analysis is final.
LEMMA AnalysisIsFinal ==
    ASSUME NEW ready, NEW s, NEW croston, Sound(Analysis(ready, s, croston), s)
    PROVE  Final(Analysis(ready, s, croston), s)
<1> DEFINE x == Analysis(ready, s, croston)
           evidence == ZeroSkill(s, Report(s, croston), croston)
           reason == PolicyReason(ready, Report(s, croston), evidence)
           c == evidence.selected
           can == CanForecast(s, Len(s), c)
           total == PredictedTotal(s, Len(s), c, croston)
<1> SUFFICES ASSUME x.reason = None PROVE Final(x, s)
  BY DEF Final
<1>1. c \in Weekly
  <2>1. x.evidence = evidence
    BY DEF Analysis
  <2>2. TrustContract(x)
    BY DEF Sound, AnalysisContract
  <2> QED
    BY <2>1, <2>2 DEF TrustContract
<1>2. /\ x.reason = IF reason = None /\ ~can THEN "final_forecast_unavailable" ELSE reason
      /\ x.forecast = IF reason = None /\ can THEN total ELSE None
      /\ x.evidence.selected = c
  BY DEF Analysis
<1>3. c # "sba_croston" => total = PredictedTotal(s, Len(s), c, NoWeeks)
  <2>1. c # "sba_croston" => c \in {"last_week_total", "mean_4_weekly_totals"}
    BY <1>1 DEF Weekly
  <2> HIDE DEF c
  <2> QED
    BY <2>1 DEF PredictedTotal
<1> HIDE DEF x, reason, c, total, can
<1>4. reason = None /\ can /\ x.forecast = total
  BY <1>2, ReasonAssumption DEF PolicyReasons
<1> QED
  BY <1>1, <1>2, <1>3, <1>4 DEF Final, can

\* What an independent evaluation keeps: the history it sent is that of its export,
\* products are known by ids and names, estimates are final, and the scores are
\* those of the results they were made from, which no longer change.
FinalInv ==
    /\ \A k \in DOMAIN products \cap DOMAIN calendars : Final(products[k], Series(calendars[k]))
    /\ \A c \in DOMAIN categories :
        candidates[c].reasons = {} => Final(categories[c], Series(candidates[c].series))

ScoredInv(x) ==
    LET first == HoldoutStart(x.rows)
        last == HoldoutEnd(x.rows)
    IN  /\ pc # "done" => scored = Nothing
        /\ \A k \in DOMAIN products \cap DOMAIN scored :
             scored[k] \in Scores(products[k], FullCalendar(x, k), first, last)
        /\ \A c \in DOMAIN categories : Category(c) \in DOMAIN scored =>
             scored[Category(c)] \in Scores(categories[c], FullSeries(x, c), first, last)

IndependentInv ==
    /\ \A k \in DOMAIN readiness.products : k \in Keys(data.rows, assumptions)
    /\ FinalInv
    /\ study.kind = "independent" => /\ study.export \in Exports /\ input = HistoryOf(study.export)
                                     /\ ScoredInv(study.export)

LEMMA IndependentInitially ==
    ASSUME StudyInit
    PROVE  IndependentInv
<1>1. /\ readiness.products = NoProducts /\ products = Nothing /\ categories = Nothing
      /\ scored = Nothing /\ DOMAIN Nothing = {} /\ DOMAIN NoProducts = {}
  BY DEF StudyInit, Idle, Nothing, NoProducts
<1>2. FinalInv /\ \A x : ScoredInv(x)
  BY <1>1 DEF FinalInv, ScoredInv
<1>3. study.kind = "independent" => study.export \in Exports /\ input = HistoryOf(study.export)
  BY DEF StudyInit, Request
<1> QED
  BY <1>1, <1>2, <1>3 DEF IndependentInv

\* Nothing is scored before everything is answered.
LEMMA RequestFinal ==
    ASSUME RequestInv, RequestInv', FinalInv, Next
    PROVE  FinalInv'
<1>1. DOMAIN Nothing = {}
  BY DEF Nothing
<1>2. CASE Refuse \/ BuildCalendar
  <2>1. products' = Nothing /\ categories' = Nothing
    BY <1>2 DEF Refuse, BuildCalendar, RequestInv, ReadinessInv, Idle
  <2> QED
    BY <1>1, <2>1 DEF FinalInv
<1>3. CASE PrepareCategories
  <2>1. categories' = Nothing /\ UNCHANGED <<products, calendars>>
    BY <1>3 DEF PrepareCategories, RequestInv, CandidatesInv
  <2> QED
    BY <1>1, <2>1 DEF FinalInv
<1>4. CASE Answer
  BY <1>4 DEF Answer, FinalInv
<1>5. ASSUME NEW k \in DOMAIN readiness.products, AnalyzeProduct(k) PROVE FinalInv'
  <2>1. k \notin DOMAIN products /\ UNCHANGED <<readiness, calendars, candidates, categories>>
    BY <1>5 DEF AnalyzeProduct
  <2>2. PICK v : products' = With(products, k, v)
                 /\ (k \in DOMAIN calendars => \E croston :
                        v = Analysis(readiness.products[k], Series(calendars[k]), croston))
    BY <1>5 DEF AnalyzeProduct
  <2>3. /\ DOMAIN products' = DOMAIN products \cup {k} /\ products'[k] = v
        /\ \A l \in DOMAIN products : products'[l] = products[l]
    BY <2>1, <2>2 DEF With
  <2>4. k \in DOMAIN calendars => Final(v, Series(calendars[k]))
    <3> SUFFICES ASSUME k \in DOMAIN calendars PROVE Final(v, Series(calendars[k]))
      OBVIOUS
    <3>1. ProductSeries(k)' = Series(calendars[k])
      BY <2>1 DEF ProductSeries
    <3>2. Sound(v, Series(calendars[k]))
      BY <2>3, <3>1 DEF RequestInv, ProductsInv
    <3> QED
      BY <2>2, <3>2, AnalysisIsFinal
  <2> QED
    BY <2>1, <2>3, <2>4 DEF FinalInv
<1>6. ASSUME NEW c \in DOMAIN candidates, AnalyzeCategory(c) PROVE FinalInv'
  <2>1. c \notin DOMAIN categories /\ UNCHANGED <<readiness, calendars, products, candidates>>
    BY <1>6 DEF AnalyzeCategory
  <2>2. PICK v : categories' = With(categories, c, v)
                 /\ (candidates[c].reasons = {} => \E croston :
                        v = Analysis(CategoryReady, Series(candidates[c].series), croston))
    BY <1>6 DEF AnalyzeCategory
  <2>3. /\ DOMAIN categories' = DOMAIN categories \cup {c} /\ categories'[c] = v
        /\ \A d \in DOMAIN categories : categories'[d] = categories[d]
    BY <2>1, <2>2 DEF With
  <2>4. candidates[c].reasons = {} => Final(v, Series(candidates[c].series))
    <3> SUFFICES ASSUME candidates[c].reasons = {} PROVE Final(v, Series(candidates[c].series))
      OBVIOUS
    <3>1. CandidateSeries(c)' = Series(candidates[c].series)
      BY <2>1 DEF CandidateSeries
    <3>2. Sound(v, Series(candidates[c].series))
      BY <2>3, <3>1 DEF RequestInv, CategoriesInv
    <3> QED
      BY <2>2, <3>2, AnalysisIsFinal
  <2> QED
    BY <2>1, <2>3, <2>4 DEF FinalInv
<1> QED
  BY <1>2, <1>3, <1>4, <1>5, <1>6 DEF Next

\* A category is no product.
LEMMA CategoryIsNoProduct ==
    ASSUME NEW rows, NEW a, NEW k \in Keys(rows, a), NEW c
    PROVE  k # Category(c)
<1>1. PICK r \in rows : k = ProductKey(r, a) /\ k # None
  BY DEF Keys
<1>2. k = <<"id", r.id>> \/ k = <<"name", r.name>>
  BY <1>1 DEF ProductKey
<1> QED
  BY <1>2 DEF Category

LEMMA RequestScores ==
    ASSUME RequestInv, NEW x, ScoredInv(x), Next, scored' = scored
    PROVE  ScoredInv(x)'
<1>1. pc # "done"
  BY DEF Next, Refuse, BuildCalendar, AnalyzeProduct, PrepareCategories, AnalyzeCategory, Answer
<1>2. scored' = Nothing /\ DOMAIN Nothing = {}
  BY <1>1 DEF ScoredInv, Nothing
<1> QED
  BY <1>2 DEF ScoredInv

LEMMA IndependentStep ==
    ASSUME StudyInv, StudyInv', IndependentInv, [StudyNext]_<<vars, studyVars>>
    PROVE  IndependentInv'
<1>1. CASE Serve
  <2>1. Next /\ study' = study /\ scored' = scored /\ RequestInv /\ RequestInv'
    BY <1>1 DEF Serve, studyVars, StudyInv
  <2>2. input' = input
    BY <2>1 DEF Next, Refuse, BuildCalendar, AnalyzeProduct, PrepareCategories, AnalyzeCategory,
                Answer
  <2>3. \A k \in DOMAIN readiness'.products : k \in Keys(data.rows, assumptions)'
    <3>1. CASE BuildCalendar
      BY <2>2, <3>1 DEF BuildCalendar, Readiness, NoProducts, data, assumptions
    <3>2. CASE readiness'.products = readiness.products
      BY <2>2, <3>2 DEF IndependentInv, data, assumptions
    <3>3. CASE Refuse
      <4>1. readiness'.products = NoProducts
        BY <2>1, <3>3 DEF Refuse, RequestInv, ReadinessInv, Idle
      <4> QED
        BY <4>1 DEF NoProducts
    <3> QED
      BY <2>1, <3>1, <3>2, <3>3 DEF Next, PrepareCategories, Answer, AnalyzeProduct, AnalyzeCategory
  <2>4. FinalInv'
    BY <2>1, RequestFinal DEF IndependentInv
  <2>5. study.kind = "independent" => ScoredInv(study.export)'
    BY <2>1, RequestScores DEF IndependentInv
  <2> QED
    BY <2>1, <2>2, <2>3, <2>4, <2>5 DEF IndependentInv
<1>2. ASSUME UNCHANGED vars,
             study'.kind = "independent" => /\ study.kind = "independent" /\ study' = study
                                            /\ ScoredInv(study.export)'
      PROVE  IndependentInv'
  <2>1. FinalInv' /\ UNCHANGED <<readiness, data, assumptions, input>>
    BY <1>2 DEF IndependentInv, FinalInv, vars, data, assumptions
  <2> QED
    BY <1>2, <2>1 DEF IndependentInv
<1>3. ASSUME UNCHANGED <<vars, scored, study>> PROVE IndependentInv'
  <2>1. ScoredInv(study.export) => ScoredInv(study.export)'
    BY <1>3 DEF ScoredInv, vars
  <2> QED
    BY <1>2, <1>3, <2>1 DEF IndependentInv
<1>4. ASSUME NEW k \in DOMAIN products, ScoreProduct(k) PROVE IndependentInv'
  <2> DEFINE x == study.export
             first == HoldoutStart(x.rows)
             last == HoldoutEnd(x.rows)
  <2>1. /\ study.kind = "independent" /\ pc = "done" /\ UNCHANGED <<vars, study>>
        /\ UNCHANGED <<pc, products, categories>>
    BY <1>4 DEF ScoreProduct, vars
  <2>2. PICK result \in Scores(products[k], FullCalendar(x, k), first, last) :
                scored' = With(scored, k, result)
    BY <1>4 DEF ScoreProduct
  <2>3. /\ DOMAIN scored' = DOMAIN scored \cup {k} /\ scored'[k] = result
        /\ \A l \in DOMAIN scored : l # k => scored'[l] = scored[l]
    BY <2>2 DEF With
  <2>4. \A c : Category(c) # k
    BY CategoryIsNoProduct DEF IndependentInv, StudyInv, RequestInv, ProductsInv
  <2>5. ScoredInv(x)
    BY <2>1 DEF IndependentInv
  <2> HIDE DEF x, first, last
  <2>6. \A l \in DOMAIN products \cap DOMAIN scored' :
            scored'[l] \in Scores(products[l], FullCalendar(x, l), first, last)
    BY <2>2, <2>3, <2>5 DEF ScoredInv, first, last
  <2>7. \A c \in DOMAIN categories : Category(c) \in DOMAIN scored' =>
            scored'[Category(c)] \in Scores(categories[c], FullSeries(x, c), first, last)
    BY <2>3, <2>4, <2>5 DEF ScoredInv, first, last
  <2>8. x' = x
    BY <2>1 DEF x
  <2>9. ScoredInv(study.export)'
    BY <2>1, <2>6, <2>7, <2>8 DEF ScoredInv, first, last, x
  <2> QED
    BY <1>2, <2>1, <2>9
<1>5. ASSUME NEW c \in DOMAIN categories, ScoreCategory(c) PROVE IndependentInv'
  <2> DEFINE x == study.export
             first == HoldoutStart(x.rows)
             last == HoldoutEnd(x.rows)
  <2>1. /\ study.kind = "independent" /\ pc = "done" /\ UNCHANGED <<vars, study>>
        /\ UNCHANGED <<pc, products, categories>>
    BY <1>5 DEF ScoreCategory, vars
  <2>2. PICK result \in Scores(categories[c], FullSeries(x, c), first, last) :
                scored' = With(scored, Category(c), result)
    BY <1>5 DEF ScoreCategory
  <2>3. /\ DOMAIN scored' = DOMAIN scored \cup {Category(c)} /\ scored'[Category(c)] = result
        /\ \A l \in DOMAIN scored : l # Category(c) => scored'[l] = scored[l]
    BY <2>2 DEF With
  <2>4. /\ \A k \in DOMAIN products : Category(c) # k
        /\ \A d : Category(d) = Category(c) => d = c
    BY CategoryIsNoProduct DEF IndependentInv, StudyInv, RequestInv, ProductsInv, Category
  <2>5. ScoredInv(x)
    BY <2>1 DEF IndependentInv
  <2> HIDE DEF x, first, last
  <2>6. \A l \in DOMAIN products \cap DOMAIN scored' :
            scored'[l] \in Scores(products[l], FullCalendar(x, l), first, last)
    BY <2>3, <2>4, <2>5 DEF ScoredInv, first, last
  <2>7. \A d \in DOMAIN categories : Category(d) \in DOMAIN scored' =>
            scored'[Category(d)] \in Scores(categories[d], FullSeries(x, d), first, last)
    BY <2>2, <2>3, <2>4, <2>5 DEF ScoredInv, first, last
  <2>8. x' = x
    BY <2>1 DEF x
  <2>9. ScoredInv(study.export)'
    BY <2>1, <2>6, <2>7, <2>8 DEF ScoredInv, first, last, x
  <2> QED
    BY <1>2, <2>1, <2>9
<1>6. CASE Draw
  <2>1. study'.kind = "cohort" /\ UNCHANGED vars
    BY <1>6, DrawStep DEF Draw, StudyInv
  <2> QED
    BY <1>2, <2>1
<1>7. ASSUME study.kind = "cohort", UNCHANGED <<vars, study>> PROVE IndependentInv'
  BY <1>2, <1>7
<1>8. CASE UNCHANGED <<vars, studyVars>>
  BY <1>3, <1>8 DEF studyVars
<1>9. CASE Withhold \/ ConcludeIndependent
  BY <1>3, <1>9 DEF Withhold, ConcludeIndependent
<1>10. ASSUME NEW p, study.kind = "cohort" /\ EvaluateHeldBack(p) PROVE IndependentInv'
  BY <1>7, <1>10 DEF EvaluateHeldBack
<1>11. CASE ConcludeCohort
  BY <1>7, <1>11 DEF ConcludeCohort
<1> QED
  BY <1>1, <1>4, <1>5, <1>6, <1>8, <1>9, <1>10, <1>11 DEF StudyNext

\* Orders are told apart by the day the holdout starts, and no order is recognised
\* on the other side: the history is what was recognised before that day.
LEMMA HistoryIsPast ==
    ASSUME IndependentInv, study.kind = "independent", Historical(study.export.rows) # {}
    PROVE  LET rows == study.export.rows
               H == HoldoutStart(rows)
           IN  /\ data.rows = Historical(rows) /\ assumptions = study.export.assumptions
               /\ ProperRows(rows) /\ data.rows \subseteq rows /\ H \in Int
               /\ \A r \in rows : r \in data.rows <=> r.ordered < H
<1> DEFINE rows == study.export.rows
           H == HoldoutStart(rows)
           day == [r \in rows |-> r.ordered]
<1>1. study.export \in Exports /\ input = HistoryOf(study.export)
  BY DEF IndependentInv
<1>2. data.rows = Historical(rows) /\ assumptions = study.export.assumptions
  BY <1>1 DEF HistoryOf, data, assumptions
<1>3. ProperRows(rows) /\ \A r \in rows : r.ordered \in Nat
  BY <1>1, StudyAssumption
<1>4. rows # {} /\ Historical(rows) = {r \in rows : r.ordered < H}
  BY DEF Historical
<1>5. H = Max({r.ordered : r \in rows}) - HoldoutDays + 1
  BY DEF HoldoutStart
<1> HIDE DEF rows, H
<1>6. {r.ordered : r \in rows} = {day[r] : r \in rows}
  OBVIOUS
<1>7. IsFiniteSet({r.ordered : r \in rows})
  <2>1. IsFiniteSet(rows)
    BY <1>3 DEF ProperRows
  <2> HIDE DEF day
  <2>2. IsFiniteSet({day[r] : r \in rows})
    BY <2>1, FiniteImage
  <2> QED
    BY <1>6, <2>2
<1>8. {r.ordered : r \in rows} \subseteq Nat /\ {r.ordered : r \in rows} # {}
  BY <1>3, <1>4
<1>9. Max({r.ordered : r \in rows}) \in Nat
  BY <1>7, <1>8, MinAndMax
<1>10. H \in Int
  BY <1>5, <1>9, StudyConstants
<1> QED
  BY <1>2, <1>3, <1>4, <1>10 DEF rows, H

\* Only what has a series can be assessed.
LEMMA AssessedHasSeries ==
    ASSUME NEW x, x.reason = None, NEW g, NEW H, NEW last, NEW result \in Scores(x, g, H, last),
           result.status = "assessed"
    PROVE  g # None
BY ReasonAssumption DEF Scores, Skipped

LEMMA ProductScoredAsShown ==
    ASSUME StudyInv, Provenance, IndependentInv, study.kind = "independent", Divided,
           NEW k \in DOMAIN products \cap DOMAIN calendars, UpToDate(k)
    PROVE  ScoredAs(k, products[k])
<1> DEFINE rows == study.export.rows
           H == HoldoutStart(rows)
           f == calendars[k]
           g == Calendar(rows, assumptions, k)
<1> SUFFICES ASSUME k \in DOMAIN scored, scored[k].status = "assessed", products[k].reason = None
             PROVE  /\ scored[k].selected = products[k].evidence.selected
                    /\ scored[k].weeks[1].shown
                    /\ products[k].evidence.selected # "sba_croston" =>
                            scored[k].weeks[1].predicted = products[k].forecast
  BY DEF ScoredAs
<1>1. scored[k] \in Scores(products[k], FullCalendar(study.export, k), H, HoldoutEnd(rows))
  BY DEF IndependentInv, ScoredInv
<1>2. Final(products[k], Series(f)) /\ IsCalendar(f) /\ k \in Keys(data.rows, assumptions)
      /\ f = Calendar(data.rows, assumptions, k)
  BY DEF IndependentInv, FinalInv, StudyInv, RequestInv, ReadinessInv, ProductsInv, Provenance
<1>3. data.rows # {}
  BY <1>2 DEF Keys
<1>4. /\ data.rows = Historical(rows) /\ assumptions = study.export.assumptions
      /\ ProperRows(rows) /\ data.rows \subseteq rows /\ H \in Int
      /\ \A r \in rows : r \in data.rows <=> r.ordered < H
  <2>1. input = HistoryOf(study.export)
    BY DEF IndependentInv
  <2>2. Historical(rows) # {}
    BY <1>3, <2>1 DEF HistoryOf, data
  <2> QED
    BY <2>2, HistoryIsPast
<1>5. FullCalendar(study.export, k) # None
  BY <1>1, AssessedHasSeries
<1>6. FullCalendar(study.export, k) = g
  BY <1>4, <1>5 DEF FullCalendar
<1>7. k \in Keys(rows, assumptions)
  BY <1>2, <1>4 DEF Keys
<1>8. IsCalendar(g)
  BY <1>4, <1>7, CalendarIsProper
<1>9. Max(DOMAIN Calendar(data.rows, assumptions, k)) = H - 1
  BY <1>2 DEF UpToDate
<1>10. \A r \in rows : r \in data.rows <=> r.day < H
  BY <1>4 DEF Divided
<1> HIDE DEF rows, H, f, g
<1>11. Cut(f, g, H)
  BY <1>2, <1>4, <1>9, <1>10, CalendarCut DEF g
<1> QED
  BY <1>1, <1>2, <1>4, <1>6, <1>8, <1>11, ScoredFirst

\* The series of a category that can be scored is that of the whole export.
LEMMA FullSeriesIs ==
    ASSUME NEW x, NEW c, FullSeries(x, c) # None
    PROVE  LET ready == Readiness(FullData(x), x.assumptions)
           IN  /\ CategoryReasons(x.rows, x.assumptions, ready, c) = {}
               /\ Usable(ready) \subseteq Keys(x.rows, x.assumptions)
               /\ FullSeries(x, c) =
                    CategorySeries([k \in Usable(ready) |-> Calendar(x.rows, x.assumptions, k)],
                                   Members(x.rows, x.assumptions, c), x.assumptions)
<1> DEFINE ready == Readiness(FullData(x), x.assumptions)
           g == [k \in Usable(ready) |-> Calendar(x.rows, x.assumptions, k)]
           all == FullCandidates(x)
<1>1. Usable(ready) \subseteq Keys(x.rows, x.assumptions)
  BY DEF Usable, Readiness, NoProducts, FullData
<1>2. all = PrepareCandidates(FullData(x), x.assumptions, ready, g, {})
  BY DEF FullCandidates
<1>3. c \in DOMAIN all /\ FullSeries(x, c) = all[c].series
  BY DEF FullSeries
<1> HIDE DEF all, g, ready
<1>4. all[c] = Candidate(x.rows, x.assumptions, ready, g, c)
  <2>1. FullData(x).rows = x.rows
    BY DEF FullData
  <2> QED
    BY <1>2, <1>3, <2>1 DEF PrepareCandidates, NoCandidates
<1>5. /\ CategoryReasons(x.rows, x.assumptions, ready, c) = {}
      /\ FullSeries(x, c) = CategorySeries(g, Members(x.rows, x.assumptions, c), x.assumptions)
  BY <1>3, <1>4 DEF Candidate
<1> QED
  BY <1>1, <1>5 DEF g, ready

\* A product that is in the category by the whole export, and not by its history,
\* sells from H on alone.
LEMMA Newcomers ==
    ASSUME NEW rows, ProperRows(rows), NEW past, past \subseteq rows, NEW H \in Int,
           \A r \in rows : r \in past <=> r.day < H,
           NEW a, NEW ready, NEW c, CategoryReasons(rows, a, ready, c) = {},
           NEW k \in Members(rows, a, c), k \notin Members(past, a, c),
           NEW d \in DOMAIN Calendar(rows, a, k)
    PROVE  ~(d < H)
<1> DEFINE sales == RowsOf(rows, a, k)
           day == [r \in sales |-> r.day]
<1>1. CategoriesOf(rows, a, k) = {c} /\ \A r \in sales : r.category # None
  BY DEF CategoryReasons
<1>2. ASSUME NEW r \in sales PROVE ~(r.day < H) /\ r.day \in Nat
  <2>1. r.category = c /\ c # None
    BY <1>1, <1>2 DEF CategoriesOf
  <2>2. r \in rows /\ ProductKey(r, a) = k /\ k # None
    BY <1>2 DEF RowsOf, Members, Keys
  <2>3. r \in past => k \in Members(past, a, c)
    BY <2>1, <2>2 DEF Members, Keys, CategoriesOf, RowsOf
  <2> QED
    BY <2>2, <2>3 DEF ProperRows
<1>3. IsFiniteSet(sales) /\ sales # {}
  <2>1. sales \subseteq rows /\ IsFiniteSet(rows)
    BY DEF RowsOf, ProperRows
  <2>2. sales # {}
    BY DEF RowsOf, Members, Keys
  <2> HIDE DEF sales
  <2> QED
    BY <2>1, <2>2, FS_Subset
<1>4. Days(sales) = {day[r] : r \in sales} /\ DOMAIN Calendar(rows, a, k) = Span(Days(sales))
  BY DEF Days, Calendar
<1> HIDE DEF sales
<1>5. \A r \in sales : day[r] = r.day
  OBVIOUS
<1> HIDE DEF day
<1>6. IsFiniteSet({day[r] : r \in sales})
  BY <1>3, FiniteImage
<1> DEFINE days == {day[r] : r \in sales}
<1>7. days \subseteq Nat /\ days # {} /\ \A e \in days : ~(e < H)
  BY <1>2, <1>3, <1>5
<1> DEFINE v == Min(days)
           w == Max(days)
<1>8. ~(v < H) /\ v \in Nat /\ w \in Nat
  <2>1. IsFiniteSet(days)
    BY <1>6
  <2> HIDE DEF days
  <2> QED
    BY <1>7, <2>1, MinAndMax
<1>9. d \in v .. w
  BY <1>4 DEF Span
<1> HIDE DEF v, w
<1> QED
  BY <1>8, <1>9

LEMMA CategoryScoredAsShown ==
    ASSUME StudyInv, Provenance, IndependentInv, study.kind = "independent", Divided,
           NEW c \in ShownCategories, \A k \in candidates[c].members : UpToDate(k)
    PROVE  ScoredAs(Category(c), categories[c])
<1> DEFINE rows == study.export.rows
           past == data.rows
           a == assumptions
           H == HoldoutStart(rows)
           ready == Readiness(FullData(study.export), a)
           all == Members(rows, a, c)
           some == Members(past, a, c)
           g == [k \in Usable(ready) |-> Calendar(rows, a, k)]
           s == CategorySeries(calendars, some, a)
           t == CategorySeries(g, all, a)
           result == scored[Category(c)]
           x == categories[c]
<1> SUFFICES ASSUME Category(c) \in DOMAIN scored, result.status = "assessed", x.reason = None
             PROVE  /\ result.selected = x.evidence.selected
                    /\ result.weeks[1].shown
                    /\ x.evidence.selected # "sba_croston" =>
                            result.weeks[1].predicted = x.forecast
  BY DEF ScoredAs
<1>1. c \in DOMAIN categories /\ c \in DOMAIN candidates /\ candidates[c].reasons = {}
  BY DEF ShownCategories, StudyInv, RequestInv, CategoriesInv
<1>2. result \in Scores(x, FullSeries(study.export, c), H, HoldoutEnd(rows))
  BY <1>1 DEF IndependentInv, ScoredInv
<1>3. /\ c \in AllCategories(past, a)
      /\ candidates[c] = Candidate(past, a, readiness, calendars, c)
      /\ \A k \in DOMAIN calendars : calendars[k] = Calendar(past, a, k)
  BY <1>1 DEF Provenance
<1>4. /\ candidates[c].members = some /\ candidates[c].series = s
      /\ CategoryReasons(past, a, readiness, c) = {}
  BY <1>1, <1>3 DEF Candidate
<1>5. some \subseteq DOMAIN calendars /\ \A k \in DOMAIN calendars : IsCalendar(calendars[k])
  BY <1>4 DEF CategoryReasons, StudyInv, RequestInv, ReadinessInv
<1>6. some # {}
  BY <1>3 DEF AllCategories, Members
<1>7. Final(x, Series(s)) /\ IsCalendar(s)
  BY <1>1, <1>4 DEF IndependentInv, FinalInv, StudyInv, RequestInv, CandidatesInv
<1>8. /\ past = Historical(rows) /\ a = study.export.assumptions
      /\ ProperRows(rows) /\ past \subseteq rows /\ H \in Int
      /\ \A r \in rows : r \in past <=> r.ordered < H
  <2>1. input = HistoryOf(study.export)
    BY DEF IndependentInv
  <2>2. past # {}
    BY <1>6 DEF Members, Keys
  <2>3. Historical(rows) # {}
    BY <2>1, <2>2 DEF HistoryOf, data
  <2> QED
    BY <2>3, HistoryIsPast
<1>9. FullSeries(study.export, c) # None
  BY <1>2, AssessedHasSeries
<1>10. /\ CategoryReasons(rows, a, ready, c) = {}
       /\ Usable(ready) \subseteq Keys(rows, a)
       /\ FullSeries(study.export, c) = t
  BY <1>8, <1>9, FullSeriesIs
<1>11. all \subseteq Usable(ready)
  BY <1>10 DEF CategoryReasons
<1>12. \A r \in rows : r \in past <=> r.day < H
  BY <1>8 DEF Divided
<1>13. some \subseteq all /\ IsFiniteSet(all)
  <2>1. some \subseteq all
    BY <1>8 DEF Members, Keys, CategoriesOf, RowsOf
  <2> QED
    BY <1>8, <2>1, MembersFinite
<1>14. ASSUME NEW k \in all PROVE g[k] = Calendar(rows, a, k) /\ IsCalendar(g[k])
  <2>1. k \in Usable(ready) /\ k \in Keys(rows, a)
    BY <1>10, <1>11
  <2>2. g[k] = Calendar(rows, a, k)
    BY <2>1
  <2> QED
    BY <1>8, <2>1, <2>2, CalendarIsProper
<1>15. ASSUME NEW k \in some PROVE Cut(calendars[k], g[k], H) /\ H - 1 \in DOMAIN calendars[k]
  <2>1. /\ calendars[k] = Calendar(past, a, k) /\ IsCalendar(calendars[k])
        /\ k \in Keys(past, a) /\ g[k] = Calendar(rows, a, k)
    BY <1>3, <1>5, <1>13, <1>14 DEF Members
  <2>2. Max(DOMAIN calendars[k]) = H - 1
    BY <1>4 DEF UpToDate
  <2> HIDE DEF H, rows, past, a, g, some, all
  <2>3. Cut(calendars[k], g[k], H)
    BY <1>8, <1>12, <2>1, <2>2, CalendarCut
  <2>4. H - 1 \in DOMAIN calendars[k]
    <3>1. PICK m \in Nat, n \in Nat : m <= n /\ DOMAIN calendars[k] = m .. n
      BY <2>1 DEF IsCalendar
    <3>2. IsFiniteSet(m .. n) /\ m .. n \subseteq Nat /\ m \in m .. n
      BY <3>1, FS_Interval
    <3>3. Max(m .. n) \in m .. n
      BY <3>2, MinAndMax
    <3> QED
      BY <2>2, <3>1, <3>3
  <2> QED
    BY <2>3, <2>4
<1>16. ASSUME NEW k \in all \ some, NEW d \in DOMAIN g[k] PROVE ~(d < H)
  <2>1. d \in DOMAIN Calendar(rows, a, k)
    BY <1>14
  <2> HIDE DEF H, rows, past, a, ready, g
  <2> QED
    BY <1>8, <1>10, <1>12, <2>1, Newcomers
<1> HIDE DEF H, rows, past, a, ready, g, all, some, result, x
<1>17. Cut(s, t, H)
  BY <1>6, <1>8, <1>13, <1>14, <1>15, <1>16, CategoryCut
<1>18. IsCalendar(t)
  BY <1>6, <1>13, <1>14, CategorySeriesIsProper
<1> HIDE DEF s, t
<1> QED
  BY <1>2, <1>7, <1>8, <1>10, <1>17, <1>18, ScoredFirst DEF result, x

\* The first held back week of an independent evaluation is scored on the estimate
\* that the service shows on the history, for products and for categories, whatever
\* is sold afterwards (independent_evaluation.py).
THEOREM ScoredAsShownHolds == StudySpec => []ScoredAsShown
<1>1. StudyInit => Provenance /\ IndependentInv
  BY ProvenanceInitially, IndependentInitially
<1>2. StudyInv /\ StudyInv' /\ Provenance /\ IndependentInv /\ [StudyNext]_<<vars, studyVars>>
        => Provenance' /\ IndependentInv'
  BY ProvenanceStep, IndependentStep
<1>3. StudyInv /\ Provenance /\ IndependentInv => ScoredAsShown
  BY ProductScoredAsShown, CategoryScoredAsShown DEF ScoredAsShown
<1> QED
  BY <1>1, <1>2, <1>3, StudyInvariant, PTL DEF StudySpec

\* An order recognised on the other side is the only way by which a held back day
\* can reach the request: without one, the calendars end before the holdout starts.
THEOREM DividedHistoryIsUnseen == StudySpec => [](study.kind = "independent" /\ Divided => HoldoutIsUnseen)
<1>1. StudyInit => Provenance /\ IndependentInv
  BY ProvenanceInitially, IndependentInitially
<1>2. StudyInv /\ StudyInv' /\ Provenance /\ IndependentInv /\ [StudyNext]_<<vars, studyVars>>
        => Provenance' /\ IndependentInv'
  BY ProvenanceStep, IndependentStep
<1>3. ASSUME StudyInv, Provenance, IndependentInv, study.kind = "independent", Divided,
             NEW k \in DOMAIN calendars, NEW d \in DOMAIN calendars[k]
      PROVE  d < HoldoutStart(study.export.rows)
  <2> DEFINE rows == study.export.rows
             H == HoldoutStart(rows)
             sales == RowsOf(data.rows, assumptions, k)
             day == [r \in sales |-> r.day]
             days == {day[r] : r \in sales}
  <2>1. k \in Keys(data.rows, assumptions) /\ calendars[k] = Calendar(data.rows, assumptions, k)
    BY <1>3 DEF IndependentInv, Provenance, StudyInv, RequestInv, ReadinessInv, Usable
  <2>2. sales # {} /\ sales \subseteq data.rows
    BY <2>1 DEF Keys, RowsOf
  <2>3. /\ data.rows = Historical(rows) /\ assumptions = study.export.assumptions
        /\ ProperRows(rows) /\ data.rows \subseteq rows /\ H \in Int
        /\ \A r \in rows : r \in data.rows <=> r.ordered < H
    <3>1. input = HistoryOf(study.export)
      BY <1>3 DEF IndependentInv
    <3>2. data.rows # {}
      BY <2>2
    <3>3. Historical(rows) # {}
      BY <3>1, <3>2 DEF HistoryOf, data
    <3> QED
      BY <1>3, <3>3, HistoryIsPast
  <2>4. \A r \in sales : r.day < H /\ r.day \in Nat
    BY <1>3, <2>2, <2>3 DEF Divided, ProperRows
  <2>5. DOMAIN calendars[k] = Span(days)
    BY <2>1 DEF Calendar, Days
  <2>6. \A r \in sales : day[r] = r.day
    OBVIOUS
  <2> HIDE DEF sales, H, rows
  <2>7. IsFiniteSet(sales)
    BY <2>2, <2>3, FS_Subset DEF ProperRows
  <2> HIDE DEF day
  <2>8. IsFiniteSet(days)
    BY <2>7, FiniteImage
  <2>9. days \subseteq Nat /\ days # {} /\ \A e \in days : e < H
    BY <2>2, <2>4, <2>6
  <2> HIDE DEF days
  <2> DEFINE v == Min(days)
             w == Max(days)
  <2>10. w < H /\ v \in Nat /\ w \in Nat
    BY <2>8, <2>9, MinAndMax
  <2>11. d \in v .. w
    BY <1>3, <2>5 DEF Span
  <2> HIDE DEF v, w
  <2>12. d < H
    BY <2>3, <2>10, <2>11
  <2> QED
    BY <2>12 DEF H, rows
<1>4. StudyInv /\ Provenance /\ IndependentInv /\ study.kind = "independent" /\ Divided
        => HoldoutIsUnseen
  BY <1>3 DEF HoldoutIsUnseen
<1> QED
  BY <1>1, <1>2, <1>4, StudyInvariant, PTL DEF StudySpec
=============================================================================
