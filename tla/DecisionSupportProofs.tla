----------------------- MODULE DecisionSupportProofs -----------------------
(***************************************************************************)
(* What holds of the decision support for every history of months: its     *)
(* answers are those it knows, candidates are tested alike, trust is       *)
(* earned, only finished and consecutive months are drawn on, and the two  *)
(* contributions to a change of sales add up to it.                        *)
(***************************************************************************)
EXTENDS DecisionSupport, FiniteSetTheorems, WellFoundedInduction, TLAPS

-----------------------------------------------------------------------------
\* An inhabited set of numbers has a least one.
LEMMA LeastOf ==
    ASSUME NEW S, S \subseteq Nat, S # {}
    PROVE  \E m \in S : \A n \in S : m <= n
<1> DEFINE Below == {pair \in Nat \X Nat : pair[1] < pair[2]}
<1>1. IsWellFoundedOn(Below, Nat)
  BY NatLessThanWellFounded DEF OpToRel
<1>2. PICK m \in S : \A n \in S : ~ (<<n, m>> \in Below)
  BY <1>1, WFMin
<1>3. \A n \in S : ~ (n < m)
  BY <1>2
<1> QED
  BY <1>3

\* An inhabited set of months has a first one and a last one.
LEMMA FirstAndLast ==
    ASSUME NEW n \in Nat, NEW S, S \subseteq 1 .. n, S # {}
    PROVE  /\ Min(S) \in S /\ \A m \in S : Min(S) <= m
           /\ Max(S) \in S /\ \A m \in S : m <= Max(S)
<1>1. \E f \in S : \A m \in S : f <= m
  <2>1. S \subseteq Nat
    OBVIOUS
  <2> QED
    BY <2>1, LeastOf
<1>2. \E l \in S : \A m \in S : m <= l
  <2> DEFINE T == {n - m : m \in S}
  <2>1. PICK t \in T : \A u \in T : t <= u
    <3>1. \A m \in S : n - m \in Nat
      OBVIOUS
    <3>2. T \subseteq Nat
      BY <3>1
    <3>3. T # {}
      OBVIOUS
    <3> HIDE DEF T
    <3> QED
      BY <3>2, <3>3, LeastOf
  <2>2. PICK l \in S : t = n - l
    OBVIOUS
  <2>3. ASSUME NEW m \in S PROVE m <= l
    <3>1. n - l <= n - m
      BY <2>1, <2>2
    <3>2. l \in Nat /\ m \in Nat
      OBVIOUS
    <3> HIDE DEF T
    <3> QED
      BY <3>1, <3>2
  <2> QED
    BY <2>3
<1> QED
  BY <1>1, <1>2 DEF Min, Max

\* The months of a history, as typed.
LEMMA MonthsOfHistory ==
    ASSUME NEW h \in Seq(Activity)
    PROVE  /\ Len(h) \in Nat
           /\ DOMAIN h = 1 .. Len(h)
           /\ Recorded(h) \subseteq 1 .. Len(h)
           /\ ForecastMonths(h) \subseteq Recorded(h)
           /\ SalesMonths(h) \subseteq 1 .. Len(h)
BY DEF Recorded, ForecastMonths, SalesMonths

\* A set of months is finite, and so is what is left without the latest.
LEMMA MonthsAreFew ==
    ASSUME NEW h \in Seq(Activity), NEW complete \in BOOLEAN,
           NEW S \in SUBSET (1 .. Len(h))
    PROVE  /\ WithoutLatest(S, complete) \subseteq S
           /\ Cardinality(WithoutLatest(S, complete)) \in Nat
<1>1. WithoutLatest(S, complete) \subseteq S
  BY DEF WithoutLatest
<1>2. IsFiniteSet(1 .. Len(h))
  BY FS_Interval
<1>3. IsFiniteSet(WithoutLatest(S, complete))
  BY <1>1, <1>2, FS_Subset
<1> QED
  BY <1>1, <1>3, FS_CardinalityType

-----------------------------------------------------------------------------
\* With six months or more there are three to six folds, one for each origin, and
\* every candidate can predict each of them (forecasting.py:44-61, 114-170).
LEMMA CandidatesAreTested ==
    ASSUME NEW n \in Nat, n >= MinExperimental
    PROVE  /\ Folds(n) \in 3 .. 6
           /\ Folds(n) = Cardinality(Origins(n))
           /\ Backtested(n) = Candidates(n)
           /\ \A c \in Candidates(n) : CanPredict(c, n)
<1> DEFINE first == IF n - MinTrain(n) > 6 THEN n - 6 ELSE MinTrain(n)
<1>1. Folds(n) \in 3 .. 6
  BY DEF Folds, MinTrain, MinStandard, MinExperimental
<1>2. Origins(n) = first .. n - 1
  BY DEF Origins, MinTrain, MinStandard
<1>3. Cardinality(first .. n - 1) = n - first
  <2>1. first \in Int /\ n - 1 \in Int /\ first <= n - 1
    BY DEF MinTrain, MinStandard, MinExperimental
  <2> HIDE DEF first
  <2> QED
    BY <2>1, FS_Interval
<1>4. Folds(n) = n - first
  BY DEF Folds
<1>5. ASSUME NEW c \in Candidates(n), NEW o \in Nat, first <= o
      PROVE  CanPredict(c, o)
  BY <1>5 DEF Candidates, CanPredict, Needs, MinTrain, MinStandard, MinExperimental,
              SeasonalEligible
<1>6. first \in Nat /\ first <= n
  BY DEF MinTrain, MinStandard, MinExperimental
<1>7. Origins(n) \subseteq {o \in Nat : first <= o}
  <2> HIDE DEF first
  <2> QED
    BY <1>2, <1>6
<1> HIDE DEF first
<1>8. Backtested(n) = Candidates(n)
  BY <1>1, <1>5, <1>7 DEF Backtested
<1>9. \A c \in Candidates(n) : CanPredict(c, n)
  BY <1>5, <1>6
<1> QED
  BY <1>1, <1>2, <1>3, <1>4, <1>8, <1>9

\* What a forecast is: none, or one whose models were all tested on its months.
LEMMA ForecastIsTested ==
    ASSUME NEW h \in Seq(Activity), NEW complete \in BOOLEAN, NEW error \in Errors,
           NEW f, f = Forecast(h, complete, error)
    PROVE  LET months == WithoutLatest(ForecastMonths(h), complete)
               periods == Cardinality(months)
           IN  /\ f.months = months
               /\ periods \in Nat
               /\ \/ f = UnavailableForecast(months)
                  \/ /\ Consecutive(months) /\ periods >= MinExperimental
                     /\ f.status = (IF periods < MinStandard THEN "experimental" ELSE "available")
                     /\ f.horizon = (IF periods < MinStandard THEN 1 ELSE 3)
                     /\ f.models = Candidates(periods)
                     /\ f.folds = Folds(periods)
                     /\ f.trust \in {Trust(periods, None), Trust(periods, error)}
<1> DEFINE months == WithoutLatest(ForecastMonths(h), complete)
           periods == Cardinality(months)
<1>1. ForecastMonths(h) \in SUBSET (1 .. Len(h))
  BY MonthsOfHistory
<1>2. periods \in Nat
  BY <1>1, MonthsAreFew
<1>3. CASE ~Consecutive(months) \/ periods < MinExperimental \/ Backtested(periods) = {}
  <2>1. f = UnavailableForecast(months)
    BY <1>3 DEF Forecast
  <2> QED
    BY <1>2, <2>1 DEF UnavailableForecast
<1>4. CASE ~(~Consecutive(months) \/ periods < MinExperimental \/ Backtested(periods) = {})
  <2> DEFINE tested == {Min(months) + o : o \in Origins(periods)}
             wape == IF \A m \in tested : Sales(h, m) = 0 THEN None ELSE error
  <2>1. f = [status |-> IF periods < MinStandard THEN "experimental" ELSE "available",
             months |-> months,
             horizon |-> IF periods < MinStandard THEN 1 ELSE 3,
             models |-> Backtested(periods), folds |-> Folds(periods),
             trust |-> Trust(periods, wape)]
    BY <1>4 DEF Forecast
  <2>2. wape \in {None, error}
    OBVIOUS
  <2>3. periods >= MinExperimental
    BY <1>2, <1>4 DEF MinExperimental
  <2>4. Backtested(periods) = Candidates(periods)
    BY <1>2, <2>3, CandidatesAreTested
  <2> HIDE DEF wape, periods, months
  <2> QED
    BY <1>2, <1>4, <2>1, <2>2, <2>3, <2>4 DEF months, periods
<1> QED
  BY <1>3, <1>4

-----------------------------------------------------------------------------
\* The latest month of which anything is known is not left when the latest of some
\* months is taken away (forecasting.py:23-25, comparison.py:213-227).
LEMMA LatestIsLeftOut ==
    ASSUME NEW n \in Nat, NEW R, R \subseteq 1 .. n, NEW S, S \subseteq R
    PROVE  Max(R) \notin WithoutLatest(S, FALSE)
<1> SUFFICES ASSUME Max(R) \in WithoutLatest(S, FALSE) PROVE FALSE
  OBVIOUS
<1>1. Max(R) \in S /\ Max(R) # Max(S)
  BY DEF WithoutLatest
<1>2. Max(S) \in S /\ Max(R) <= Max(S)
  BY <1>1, FirstAndLast
<1>3. Max(S) <= Max(R)
  BY <1>2, FirstAndLast
<1>4. \A m \in S : m \in Nat
  OBVIOUS
<1>5. Max(S) \in Nat /\ Max(R) \in Nat
  BY <1>1, <1>2, <1>4
<1> QED
  BY <1>1, <1>2, <1>3, <1>5

\* Every month with sales has a row.
LEMMA SalesAreRecorded ==
    ASSUME NEW h \in Seq(Activity)
    PROVE  SalesMonths(h) \subseteq Recorded(h)
<1>1. ASSUME NEW m \in DOMAIN h, h[m].orders > 0 PROVE h[m].rows
  <2>1. h[m] \in Activity
    OBVIOUS
  <2> QED
    BY <1>1, <2>1 DEF Activity
<1> QED
  BY <1>1 DEF SalesMonths, Recorded

\* The months of an interval follow each other.
LEMMA IntervalsAreConsecutive ==
    ASSUME NEW n \in Nat, NEW a \in 1 .. n, NEW b \in a .. n
    PROVE  Consecutive(a .. b)
<1>1. a .. b \subseteq 1 .. n /\ a \in a .. b /\ b \in a .. b
  OBVIOUS
<1>2. /\ Min(a .. b) \in a .. b /\ Min(a .. b) <= a
      /\ Max(a .. b) \in a .. b /\ b <= Max(a .. b)
  BY <1>1, FirstAndLast
<1>3. Min(a .. b) = a /\ Max(a .. b) = b
  BY <1>2
<1> QED
  BY <1>3 DEF Consecutive

\* A comparison speaks of two months that follow each other, both complete and with
\* sales (comparison.py:41-72, 230-243).
LEMMA ComparisonMonths ==
    ASSUME NEW h \in Seq(Activity), NEW complete \in BOOLEAN
    PROVE  /\ Comparison(h, complete).months \subseteq CompleteMonths(h, complete)
           /\ Consecutive(Comparison(h, complete).months)
           /\ Comparison(h, complete).status = "available"
<1> DEFINE months == CompleteMonths(h, complete)
           current == Max(months)
           baseline == Max(months \ {current})
<1>1. /\ Len(h) \in Nat /\ months \subseteq 1 .. Len(h)
      /\ Cardinality(months) \in Nat
  BY MonthsOfHistory, MonthsAreFew DEF CompleteMonths
<1>2. CASE \/ Cardinality(months) < 2
           \/ current # baseline + 1
           \/ h[baseline].orders = 0 \/ h[current].orders = 0
  <2>1. Comparison(h, complete) = Section("available", {}, <<>>)
    BY <1>2 DEF Comparison
  <2> QED
    BY <2>1 DEF Section, Consecutive
<1>3. CASE Cardinality(months) >= 2 /\ current = baseline + 1
           /\ h[baseline].orders # 0 /\ h[current].orders # 0
  <2>1. Comparison(h, complete) =
            Section("available", {baseline, current},
                    <<SalesChange(Sales(h, current) - Sales(h, baseline), Sales(h, baseline))>>)
    BY <1>1, <1>3 DEF Comparison
  <2>2. /\ Comparison(h, complete).months = {baseline, current}
        /\ Comparison(h, complete).status = "available"
    <3> HIDE DEF baseline, current
    <3> QED
      BY <2>1 DEF Section
  <2>3. months # {} /\ months \ {current} # {}
    <3>1. Cardinality(months) # 0 /\ Cardinality(months) # 1
      BY <1>3
    <3>2. months # {}
      BY <3>1, FS_EmptySet
    <3>3. ASSUME months \ {current} = {} PROVE FALSE
      <4>1. months = {current}
        <5> HIDE DEF months, current
        <5> QED
          BY <3>2, <3>3
      <4>2. Cardinality({current}) = 1
        <5> HIDE DEF current
        <5> QED
          BY FS_Singleton
      <4> QED
        BY <3>1, <4>1, <4>2
    <3> QED
      BY <3>2, <3>3
  <2>4. current \in months /\ baseline \in months
    <3>1. months \ {current} \subseteq 1 .. Len(h)
      BY <1>1
    <3> HIDE DEF months
    <3> QED
      BY <1>1, <2>3, <3>1, FirstAndLast
  <2>5. {baseline, current} = baseline .. current
    <3>1. baseline \in Nat /\ current = baseline + 1
      BY <1>1, <1>3, <2>4
    <3> HIDE DEF baseline, current
    <3> QED
      BY <3>1
  <2>6. Consecutive(baseline .. current)
    <3>1. baseline \in 1 .. Len(h) /\ current \in baseline .. Len(h)
      BY <1>1, <1>3, <2>4
    <3> HIDE DEF baseline, current
    <3> QED
      BY <1>1, <3>1, IntervalsAreConsecutive
  <2> HIDE DEF baseline, current, months
  <2> QED
    BY <2>2, <2>4, <2>5, <2>6 DEF months
<1> QED
  BY <1>1, <1>2, <1>3

\* The window of a month and the six before it, all complete and with sales
\* (anomaly.py:169-184).
LEMMA AnomalyWindow ==
    ASSUME NEW h \in Seq(Activity), NEW complete \in BOOLEAN,
           Cardinality(CompleteMonths(h, complete)) >= 7, Consecutive(CompleteMonths(h, complete))
    PROVE  LET months == CompleteMonths(h, complete)
               current == Max(months)
               earlier == Before(months, BaselinePeriods)
           IN  /\ current \in Nat /\ earlier = (current - 6) .. (current - 1)
               /\ earlier \cup {current} = (current - 6) .. current
               /\ (current - 6) .. current \subseteq months /\ months \subseteq DOMAIN h
               /\ Consecutive((current - 6) .. current)
<1> DEFINE months == CompleteMonths(h, complete)
           current == Max(months)
           earlier == Before(months, BaselinePeriods)
<1>0. Cardinality(months) >= 7 /\ Consecutive(months)
  OBVIOUS
<1>1. /\ Len(h) \in Nat /\ DOMAIN h = 1 .. Len(h) /\ months \subseteq 1 .. Len(h)
      /\ Cardinality(months) \in Nat
  BY MonthsOfHistory, MonthsAreFew DEF CompleteMonths
<1>2. months # {}
  <2>1. Cardinality(months) # 0
    BY <1>0
  <2> HIDE DEF months
  <2> QED
    BY <2>1, FS_EmptySet
<1>3. months = Min(months) .. current /\ Min(months) \in months /\ current \in months
  <2>1. months = Min(months) .. current
    BY <1>0, <1>2 DEF Consecutive
  <2>2. Min(months) \in months /\ current \in months
    <3> HIDE DEF months
    <3> QED
      BY <1>1, <1>2, FirstAndLast
  <2> QED
    BY <2>1, <2>2
<1>4. Min(months) \in 1 .. Len(h) /\ current \in 1 .. Len(h)
  BY <1>1, <1>3
<1>5. current - Min(months) + 1 >= 7
  <2> HIDE DEF months, current
  <2> DEFINE first == Min(months)
  <2>1. Cardinality(first .. current) >= 7
    BY <1>0, <1>3
  <2>2. first \in Int /\ current \in Int
    BY <1>4
  <2> HIDE DEF first
  <2>3. Cardinality(first .. current) = IF first > current THEN 0 ELSE current - first + 1
    BY <2>2, FS_Interval
  <2>4. current - first + 1 >= 7
    BY <2>1, <2>2, <2>3
  <2> QED
    BY <2>4 DEF first
<1>6. earlier \cup {current} = (current - 6) .. current
  <2>1. earlier = (current - 6) .. (current - 1)
    BY DEF Before, BaselinePeriods
  <2> HIDE DEF current, earlier
  <2> QED
    BY <1>4, <2>1
<1>7. current - 6 \in 1 .. Len(h) /\ current \in (current - 6) .. Len(h)
      /\ Min(months) <= current - 6
  <2> HIDE DEF current, months
  <2> QED
    BY <1>4, <1>5
<1>8. (current - 6) .. current \subseteq months
  <2> HIDE DEF current, months
  <2> QED
    BY <1>3, <1>4, <1>7
<1>9. Consecutive((current - 6) .. current)
  <2> HIDE DEF current
  <2> QED
    BY <1>1, <1>7, IntervalsAreConsecutive
<1>11. earlier = (current - 6) .. (current - 1)
  BY DEF Before, BaselinePeriods
<1> HIDE DEF current, months, earlier
<1> QED
  BY <1>1, <1>4, <1>6, <1>8, <1>9, <1>11 DEF current, months, earlier

\* The unusual changes speak of a month and the six before it, all complete and with
\* sales (anomaly.py:41-55, 169-184).
LEMMA AnomalyMonths ==
    ASSUME NEW h \in Seq(Activity), NEW complete \in BOOLEAN
    PROVE  /\ Anomalies(h, complete).months \subseteq CompleteMonths(h, complete)
           /\ Consecutive(Anomalies(h, complete).months)
           /\ Anomalies(h, complete).status \in {"available", "no_findings", "unavailable"}
<1> DEFINE months == CompleteMonths(h, complete)
           current == Max(months)
           earlier == Before(months, BaselinePeriods)
<1>1. /\ Len(h) \in Nat /\ months \subseteq 1 .. Len(h)
      /\ Cardinality(months) \in Nat
  BY MonthsOfHistory, MonthsAreFew DEF CompleteMonths
<1>2. CASE Cardinality(months) < BaselinePeriods + 1 \/ ~Consecutive(months)
  <2>1. Anomalies(h, complete) = FailedSection
    BY <1>2 DEF Anomalies
  <2> QED
    BY <2>1 DEF FailedSection, Section, Consecutive
<1>3. CASE Cardinality(months) >= 7 /\ Consecutive(months)
  <2>1. /\ Anomalies(h, complete).months = earlier \cup {current}
        /\ Anomalies(h, complete).status \in {"available", "no_findings"}
    BY <1>1, <1>3 DEF Anomalies, Section, BaselinePeriods
  <2>2. /\ earlier \cup {current} \subseteq months
        /\ Consecutive(earlier \cup {current})
    BY <1>3, AnomalyWindow
  <2> HIDE DEF current, months, earlier
  <2> QED
    BY <2>1, <2>2 DEF months
<1> QED
  BY <1>1, <1>2, <1>3 DEF BaselinePeriods

-----------------------------------------------------------------------------
\* History stays a sequence of months whoever moves.
LEMMA HistoryIsTyped ==
    ASSUME history \in Seq(Activity), Next
    PROVE  history' \in Seq(Activity)
<1>1. ASSUME NEW a \in Activity, CloseMonth(a) PROVE history' \in Seq(Activity)
  BY <1>1 DEF CloseMonth
<1>2. CASE \E a \in Unusual : CloseMonth(a)
  BY <1>1, <1>2, ActivityAssumption
<1>3. CASE Len(history) < Len(Usual) /\ CloseMonth(Usual[Len(history) + 1])
  <2>1. Len(history) + 1 \in DOMAIN Usual
    BY <1>3, ActivityAssumption
  <2>2. Usual[Len(history) + 1] \in Activity
    BY <2>1, ActivityAssumption
  <2> QED
    BY <1>1, <1>3, <2>2
<1>4. CASE \E complete \in BOOLEAN : Decide(complete) \/ Preview(complete)
  BY <1>4 DEF Decide, Preview
<1> QED
  BY <1>2, <1>3, <1>4 DEF Next

\* A report says what its history gives, or that a part of it is unavailable.
FollowsFrom(h, r) ==
    /\ r.complete \in BOOLEAN
    /\ \/ r.forecast = UnavailableForecast(ForecastMonths(h))
       \/ \E error \in Errors : r.forecast = Forecast(h, r.complete, error)
    /\ r.comparison \in {Comparison(h, r.complete), FailedSection}
    /\ r.anomalies \in {Anomalies(h, r.complete), FailedSection}

\* The invariant all of the rest follows from.
ReportFollows ==
    /\ history \in Seq(Activity)
    /\ report # None => FollowsFrom(history, report)

\* A report never outlives the history it was made of (generic_sales/reporting.py:10-49).
THEOREM ReportAlwaysFollows == Spec => []ReportFollows
<1>1. Init => ReportFollows
  BY DEF Init, ReportFollows
<1>2. ReportFollows /\ [Next]_vars => ReportFollows'
  <2> SUFFICES ASSUME ReportFollows, [Next]_vars PROVE ReportFollows'
    OBVIOUS
  <2> USE DEF ReportFollows
  <2>1. CASE UNCHANGED vars
    BY <2>1 DEF vars
  <2>2. ASSUME NEW a, CloseMonth(a), Next PROVE ReportFollows'
    BY <2>2, HistoryIsTyped DEF CloseMonth
  <2>3. ASSUME NEW complete \in BOOLEAN, Decide(complete) PROVE ReportFollows'
    <3>1. history' = history
      BY <2>3 DEF Decide
    <3>2. PICK forecast \in {Forecast(history, complete, error) : error \in Errors},
               comparison \in {Comparison(history, complete), FailedSection},
               anomalies \in {Anomalies(history, complete), FailedSection} :
             report' = [complete |-> complete, forecast |-> forecast,
                        comparison |-> comparison, anomalies |-> anomalies]
      BY <2>3 DEF Decide
    <3>3. FollowsFrom(history, report')
      BY <3>2 DEF FollowsFrom
    <3> QED
      BY <3>1, <3>3
  <2>4. ASSUME NEW complete \in BOOLEAN, Preview(complete) PROVE ReportFollows'
    <3>1. history' = history
      BY <2>4 DEF Preview
    <3>2. FollowsFrom(history, report')
      BY <2>4 DEF Preview, FollowsFrom
    <3> QED
      BY <3>1, <3>2
  <2> QED
    BY <2>1, <2>2, <2>3, <2>4 DEF Next
<1> QED
  BY <1>1, <1>2, PTL DEF Spec

-----------------------------------------------------------------------------
\* The forecast of a report, as ForecastIsTested says of it.
LEMMA ReportedForecast ==
    ASSUME ReportFollows, report # None
    PROVE  LET f == report.forecast
               periods == Cardinality(f.months)
           IN  /\ periods \in Nat
               /\ \/ f = UnavailableForecast(f.months)
                  \/ /\ Consecutive(f.months) /\ periods >= MinExperimental
                     /\ f.months = WithoutLatest(ForecastMonths(history), report.complete)
                     /\ f.status = (IF periods < MinStandard THEN "experimental" ELSE "available")
                     /\ f.horizon = (IF periods < MinStandard THEN 1 ELSE 3)
                     /\ f.models = Candidates(periods)
                     /\ f.folds = Folds(periods)
                     /\ \E error \in Errors \cup {None} : f.trust = Trust(periods, error)
<1>1. history \in Seq(Activity) /\ FollowsFrom(history, report)
  BY DEF ReportFollows
<1>2. CASE report.forecast = UnavailableForecast(ForecastMonths(history))
  <2>1. ForecastMonths(history) \in SUBSET (1 .. Len(history))
    BY <1>1, MonthsOfHistory
  <2>2. Cardinality(ForecastMonths(history)) \in Nat
    <3>1. IsFiniteSet(1 .. Len(history))
      BY <1>1, FS_Interval
    <3> QED
      BY <2>1, <3>1, FS_Subset, FS_CardinalityType
  <2>3. report.forecast.months = ForecastMonths(history)
    BY <1>2 DEF UnavailableForecast
  <2> QED
    BY <1>2, <2>2, <2>3
<1>3. CASE \E error \in Errors : report.forecast = Forecast(history, report.complete, error)
  <2>1. PICK error \in Errors : report.forecast = Forecast(history, report.complete, error)
    BY <1>3
  <2>2. report.complete \in BOOLEAN
    BY <1>1 DEF FollowsFrom
  <2> DEFINE f == report.forecast
             months == WithoutLatest(ForecastMonths(history), report.complete)
             periods == Cardinality(months)
  <2>3. /\ f.months = months
        /\ periods \in Nat
        /\ \/ f = UnavailableForecast(months)
           \/ /\ Consecutive(months) /\ periods >= MinExperimental
              /\ f.status = (IF periods < MinStandard THEN "experimental" ELSE "available")
              /\ f.horizon = (IF periods < MinStandard THEN 1 ELSE 3)
              /\ f.models = Candidates(periods)
              /\ f.folds = Folds(periods)
              /\ f.trust \in {Trust(periods, None), Trust(periods, error)}
    <3> HIDE DEF f
    <3>1. f = Forecast(history, report.complete, error)
      BY <2>1 DEF f
    <3> QED
      BY <1>1, <2>2, <3>1, ForecastIsTested
  <2> HIDE DEF f, months
  <2>4. QED
    BY <2>3 DEF f, months
<1> QED
  BY <1>1, <1>2, <1>3 DEF FollowsFrom

\* TestedAlike, for every history.
THEOREM TestedAlikeHolds == Spec => []TestedAlike
<1>1. ReportFollows => TestedAlike
  <2> SUFFICES ASSUME ReportFollows, report # None PROVE TestedAlike
    BY DEF TestedAlike
  <2> DEFINE f == report.forecast
             periods == Cardinality(f.months)
  <2>1. CASE f = UnavailableForecast(f.months)
    <3>1. f.status = "unavailable" /\ f.models = {}
      <4> DEFINE months == f.months
      <4>1. f = UnavailableForecast(months)
        BY <2>1
      <4> HIDE DEF f, months
      <4> QED
        BY <4>1 DEF UnavailableForecast
    <3> QED
      BY <3>1 DEF TestedAlike
  <2>2. CASE f # UnavailableForecast(f.months)
    <3>1. /\ periods \in Nat /\ periods >= MinExperimental
          /\ f.models = Candidates(periods) /\ f.folds = Folds(periods)
      BY <2>2, ReportedForecast
    <3>2. /\ f.models = Candidates(periods)
          /\ f.folds \in 3 .. 6
          /\ f.folds = Cardinality(Origins(periods))
          /\ \A c \in f.models : CanPredict(c, periods)
      <4> HIDE DEF f, periods
      <4> QED
        BY <3>1, CandidatesAreTested
    <3> QED
      BY <3>2 DEF TestedAlike
  <2> QED
    BY <2>1, <2>2
<1> QED
  BY <1>1, ReportAlwaysFollows, PTL

\* TrustIsEarned, for every history and every error.
THEOREM TrustIsEarnedHolds == Spec => []TrustIsEarned
<1>1. ReportFollows => TrustIsEarned
  <2> SUFFICES ASSUME ReportFollows, report # None PROVE TrustIsEarned
    BY DEF TrustIsEarned
  <2> DEFINE f == report.forecast
             periods == Cardinality(f.months)
             months == f.months
  <2>1. CASE f = UnavailableForecast(months)
    <3>1. f.status = "unavailable" /\ f.trust = "unavailable"
      <4> HIDE DEF f, months
      <4> QED
        BY <2>1 DEF UnavailableForecast
    <3> QED
      BY <3>1 DEF TrustIsEarned
  <2>2. CASE f # UnavailableForecast(months)
    <3>1. /\ periods \in Nat /\ periods >= MinExperimental
          /\ f.models = Candidates(periods) /\ f.folds = Folds(periods)
          /\ f.horizon = (IF periods < MinStandard THEN 1 ELSE 3)
          /\ f.status = (IF periods < MinStandard THEN "experimental" ELSE "available")
      BY <2>2, ReportedForecast
    <3>2. PICK error \in Errors \cup {None} : f.trust = Trust(periods, error)
      BY <2>2, ReportedForecast
    <3>3. error = None \/ error \in Nat
      BY <3>2, ErrorsAssumption
    <3> HIDE DEF f, periods
    <3>4. f.trust = "strong" => periods >= SeasonalEligible /\ f.folds = 6
      BY <3>1, <3>2, <3>3 DEF Trust, Folds, MinTrain, MinStandard, SeasonalEligible
    <3>5. f.trust = "moderate" => periods >= MinStandard /\ f.folds = 6
      BY <3>1, <3>2, <3>3 DEF Trust, Folds, MinTrain, MinStandard, SeasonalEligible
    <3>6. f.trust # "unavailable" /\ f.status # "unavailable"
      BY <3>1, <3>2 DEF Trust
    <3>7. periods >= SeasonalEligible => "seasonal_naive_12" \in f.models
      BY <3>1 DEF Candidates
    <3>8. periods >= MinStandard => f.horizon = 3
      BY <3>1 DEF MinStandard
    <3> QED
      BY <3>4, <3>5, <3>6, <3>7, <3>8 DEF TrustIsEarned, f
  <2> QED
    BY <2>1, <2>2
<1> QED
  BY <1>1, ReportAlwaysFollows, PTL

\* OnlyFinishedConsecutiveMonths, for every history.
THEOREM OnlyFinishedConsecutiveMonthsHolds == Spec => []OnlyFinishedConsecutiveMonths
<1>1. ReportFollows => OnlyFinishedConsecutiveMonths
  <2> SUFFICES ASSUME ReportFollows, report # None PROVE OnlyFinishedConsecutiveMonths
    BY DEF OnlyFinishedConsecutiveMonths
  <2> DEFINE f == report.forecast
             used == CompleteMonths(history, report.complete)
  <2>1. history \in Seq(Activity) /\ FollowsFrom(history, report) /\ report.complete \in BOOLEAN
    BY DEF ReportFollows, FollowsFrom
  <2>2. /\ Len(history) \in Nat
        /\ Recorded(history) \subseteq 1 .. Len(history)
        /\ ForecastMonths(history) \subseteq Recorded(history)
        /\ SalesMonths(history) \subseteq Recorded(history)
        /\ SalesMonths(history) \subseteq 1 .. Len(history)
    BY <2>1, MonthsOfHistory, SalesAreRecorded
  <2>3. ~report.complete =>
            /\ Max(Recorded(history)) \notin used
            /\ Max(Recorded(history)) \notin WithoutLatest(ForecastMonths(history), report.complete)
    BY <2>1, <2>2, LatestIsLeftOut DEF CompleteMonths
  <2>4. used \subseteq SalesMonths(history)
    BY <2>1, <2>2, MonthsAreFew DEF CompleteMonths
  <2>5. ASSUME NEW section \in {report.comparison, report.anomalies}
        PROVE  section.months \subseteq used /\ Consecutive(section.months)
    <3>1. FailedSection.months = {} /\ Consecutive({})
      BY DEF FailedSection, Section, Consecutive
    <3> HIDE DEF used
    <3>2. /\ Comparison(history, report.complete).months \subseteq used
          /\ Consecutive(Comparison(history, report.complete).months)
          /\ Anomalies(history, report.complete).months \subseteq used
          /\ Consecutive(Anomalies(history, report.complete).months)
      BY <2>1, ComparisonMonths, AnomalyMonths DEF used
    <3>3. section \in {Comparison(history, report.complete),
                       Anomalies(history, report.complete), FailedSection}
      BY <2>1 DEF FollowsFrom
    <3> QED
      BY <3>1, <3>2, <3>3
  <2>6. f.status # "unavailable" =>
            /\ Consecutive(f.months)
            /\ f.months = WithoutLatest(ForecastMonths(history), report.complete)
    <3> DEFINE months == f.months
    <3>1. f = UnavailableForecast(months) => f.status = "unavailable"
      <4> HIDE DEF f, months
      <4> QED
        BY DEF UnavailableForecast
    <3> QED
      BY <3>1, ReportedForecast
  <2>7. WithoutLatest(ForecastMonths(history), report.complete) \subseteq Recorded(history)
    BY <2>2 DEF WithoutLatest
  <2> HIDE DEF used, f
  <2>8. f.status # "unavailable" =>
            /\ Consecutive(f.months)
            /\ f.months \subseteq Recorded(history)
            /\ ~report.complete => Max(Recorded(history)) \notin f.months
    BY <2>3, <2>6, <2>7
  <2>9. ~report.complete =>
            Max(Recorded(history)) \notin report.comparison.months \cup report.anomalies.months
    BY <2>3, <2>5
  <2>10. \A section \in {report.comparison, report.anomalies} :
            Consecutive(section.months) /\ section.months \subseteq SalesMonths(history)
    BY <2>4, <2>5
  <2> QED
    BY <2>8, <2>9, <2>10 DEF OnlyFinishedConsecutiveMonths, f
<1> QED
  BY <1>1, ReportAlwaysFollows, PTL

\* Types are kept by every step.
THEOREM TypeCorrect == Spec => []TypeOK
<1>1. ReportFollows => TypeOK
  <2> SUFFICES ASSUME ReportFollows PROVE TypeOK
    OBVIOUS
  <2>1. history \in Seq(Activity)
    BY DEF ReportFollows
  <2>2. ASSUME report # None
        PROVE  /\ report.complete \in BOOLEAN
               /\ report.forecast.status \in {"unavailable", "experimental", "available"}
               /\ report.forecast.trust \in
                     {"unavailable", "limited", "exploratory", "moderate", "strong"}
               /\ report.forecast.models \subseteq DOMAIN Needs
               /\ \A section \in {report.comparison, report.anomalies} :
                     section.status \in {"available", "no_findings", "unavailable"}
    <3> DEFINE f == report.forecast
               months == f.months
    <3>1. FollowsFrom(history, report)
      BY <2>2 DEF ReportFollows
    <3>2. report.complete \in BOOLEAN
      BY <3>1 DEF FollowsFrom
    <3>3. /\ f.status \in {"unavailable", "experimental", "available"}
          /\ f.trust \in {"unavailable", "limited", "exploratory", "moderate", "strong"}
          /\ f.models \subseteq DOMAIN Needs
      <4>1. CASE f = UnavailableForecast(months)
        <5> HIDE DEF f, months
        <5> QED
          BY <4>1 DEF UnavailableForecast
      <4>2. CASE f # UnavailableForecast(months)
        <5> DEFINE periods == Cardinality(months)
        <5>1. /\ f.models = Candidates(periods)
              /\ f.status = (IF periods < MinStandard THEN "experimental" ELSE "available")
              /\ \E error \in Errors \cup {None} : f.trust = Trust(periods, error)
              /\ periods \in Nat
          BY <2>2, <4>2, ReportedForecast
        <5> HIDE DEF f, periods
        <5>2. f.trust \in {"limited", "exploratory", "moderate", "strong"}
          BY <5>1 DEF Trust, MinStandard
        <5>3. f.models \subseteq DOMAIN Needs
          BY <5>1 DEF Candidates, Needs
        <5> QED
          BY <5>1, <5>2, <5>3
      <4> QED
        BY <4>1, <4>2
    <3>4. ASSUME NEW section \in {report.comparison, report.anomalies}
          PROVE  section.status \in {"available", "no_findings", "unavailable"}
      <4>1. section \in {Comparison(history, report.complete),
                         Anomalies(history, report.complete), FailedSection}
        BY <3>1 DEF FollowsFrom
      <4>2. FailedSection.status = "unavailable"
        BY DEF FailedSection, Section
      <4>3. /\ Comparison(history, report.complete).status = "available"
            /\ Anomalies(history, report.complete).status
                  \in {"available", "no_findings", "unavailable"}
        BY <2>1, <3>2, ComparisonMonths, AnomalyMonths
      <4> QED
        BY <4>1, <4>2, <4>3
    <3> QED
      BY <3>2, <3>3, <3>4
  <2> QED
    BY <2>1, <2>2 DEF TypeOK
<1> QED
  BY <1>1, ReportAlwaysFollows, PTL

-----------------------------------------------------------------------------
\* "The contributions add exactly to the recognized-sales change"
\* (comparison.py:34, 82-83), before they are rounded to cents.
THEOREM ContributionsAddUp ==
    ASSUME NEW h \in Seq(Activity), NEW b \in DOMAIN h, NEW c \in DOMAIN h
    PROVE  OrderContribution(h[b], h[c]) + ValueContribution(h[b], h[c])
              = 2 * (Sales(h, c) - Sales(h, b))
<1>1. /\ h[b].orders \in Nat /\ h[b].value \in Nat
      /\ h[c].orders \in Nat /\ h[c].value \in Nat
  BY DEF Activity
<1>2. ASSUME NEW x \in Nat, NEW y \in Nat, NEW u \in Nat, NEW v \in Nat
      PROVE  (u - x) * (y + v) + (v - y) * (x + u) = 2 * (u * v - x * y)
  BY <1>2
<1> QED
  BY <1>1, <1>2 DEF OrderContribution, ValueContribution, Sales

-----------------------------------------------------------------------------
\* An inhabited finite set of numbers has a greatest one.
LEMMA GreatestOf ==
    ASSUME NEW S, S \subseteq Nat, IsFiniteSet(S), S # {}
    PROVE  \E m \in S : \A n \in S : n <= m
<1> DEFINE above(m) == {n \in S : n > m}
           T == {Cardinality(above(m)) : m \in S}
<1>1. ASSUME NEW m \in S PROVE IsFiniteSet(above(m)) /\ Cardinality(above(m)) \in Nat
  BY FS_Subset, FS_CardinalityType
<1>2. T \subseteq Nat /\ T # {}
  BY <1>1
<1>3. PICK t \in T : \A u \in T : t <= u
  <2> HIDE DEF T
  <2> QED
    BY <1>2, LeastOf
<1>4. PICK m \in S : t = Cardinality(above(m))
  OBVIOUS
<1>5. ASSUME NEW n \in S, n > m PROVE FALSE
  <2>1. above(n) \subseteq above(m) /\ n \in above(m) /\ n \notin above(n)
    <3>1. n \in Nat /\ m \in Nat /\ \A x \in S : x \in Nat
      OBVIOUS
    <3>2. \A x \in S : x > n => x > m
      BY <1>5, <3>1
    <3>3. n \in above(m)
      BY <1>5
    <3>4. n \notin above(n)
      BY <3>1
    <3> QED
      BY <3>2, <3>3, <3>4
  <2>2. Cardinality(above(n)) \in T /\ Cardinality(above(m)) <= Cardinality(above(n))
    BY <1>3, <1>4
  <2>3. /\ IsFiniteSet(above(n)) /\ Cardinality(above(n)) \in Nat
        /\ IsFiniteSet(above(m)) /\ Cardinality(above(m)) \in Nat
    BY <1>1
  <2> HIDE DEF above, T
  <2>4. /\ Cardinality(above(n)) <= Cardinality(above(m))
        /\ Cardinality(above(n)) = Cardinality(above(m)) => above(n) = above(m)
    BY <2>1, <2>3, FS_Subset
  <2> QED
    BY <2>1, <2>2, <2>3, <2>4
<1>6. m \in Nat /\ \A n \in S : n \in Nat
  OBVIOUS
<1> QED
  BY <1>5, <1>6

\* The months whose value is below one, and those whose value is not above it.
Under(f, v) == {x \in DOMAIN f : f[x] < v}
UpTo(f, v) == {x \in DOMAIN f : f[x] <= v}

\* Parts of finitely many months are finite.
LEMMA PartsFinite ==
    ASSUME NEW D, IsFiniteSet(D), NEW f \in [D -> Nat], NEW v
    PROVE  /\ IsFiniteSet(Under(f, v)) /\ Cardinality(Under(f, v)) \in Nat
           /\ IsFiniteSet(UpTo(f, v)) /\ Cardinality(UpTo(f, v)) \in Nat
<1>1. Under(f, v) \subseteq D /\ UpTo(f, v) \subseteq D
  BY DEF Under, UpTo
<1> QED
  BY <1>1, FS_Subset, FS_CardinalityType

\* Finitely many months have finitely many values.
LEMMA ValuesFinite ==
    ASSUME NEW S, IsFiniteSet(S), NEW f, S \subseteq DOMAIN f
    PROVE  IsFiniteSet({f[x] : x \in S})
<1> DEFINE g == [x \in S |-> f[x]]
<1>1. g \in Surjection(S, {f[x] : x \in S})
  BY DEF Surjection
<1> QED
  BY <1>1, FS_Surjection

\* Of enough values there is a k-th smallest.
LEMMA SmallestExists ==
    ASSUME NEW D, IsFiniteSet(D), NEW f \in [D -> Nat], NEW k \in 1 .. Cardinality(D)
    PROVE  /\ Smallest(k, f) \in Nat
           /\ Cardinality(Under(f, Smallest(k, f))) < k
           /\ Cardinality(UpTo(f, Smallest(k, f))) >= k
<1> DEFINE values == {f[x] : x \in D}
           enough == {v \in values : Cardinality(UpTo(f, v)) >= k}
<1>1. values \subseteq Nat /\ IsFiniteSet(values) /\ values # {}
  <2>1. D # {}
    <3>1. Cardinality(D) # 0
      BY FS_CardinalityType
    <3> QED
      BY <3>1, FS_EmptySet
  <2> QED
    BY <2>1, ValuesFinite
<1>2. enough # {}
  <2>1. PICK g \in values : \A n \in values : n <= g
    <3> HIDE DEF values
    <3> QED
      BY <1>1, GreatestOf
  <2>2. UpTo(f, g) = D
    BY <2>1 DEF UpTo
  <2> QED
    BY <2>1, <2>2, FS_CardinalityType
<1>3. PICK v \in enough : \A n \in enough : v <= n
  <2>1. enough \subseteq Nat
    BY <1>1
  <2> HIDE DEF enough
  <2> QED
    BY <1>2, <2>1, LeastOf
<1>4. v \in values /\ v \in Nat /\ Cardinality(UpTo(f, v)) >= k
  BY <1>1, <1>3
<1>5. Cardinality(Under(f, v)) < k
  <2> SUFFICES ASSUME ~(Cardinality(Under(f, v)) < k) PROVE FALSE
    OBVIOUS
  <2> DEFINE lower == {f[x] : x \in Under(f, v)}
  <2>1. IsFiniteSet(Under(f, v)) /\ Cardinality(Under(f, v)) \in Nat
    BY PartsFinite
  <2>2. Under(f, v) # {}
    <3>1. Cardinality(Under(f, v)) # 0
      BY <2>1
    <3> QED
      BY <3>1, FS_EmptySet
  <2>3. lower \subseteq Nat /\ IsFiniteSet(lower) /\ lower # {}
    <3>1. Under(f, v) \subseteq DOMAIN f /\ DOMAIN f = D
      BY DEF Under
    <3> QED
      BY <2>1, <2>2, <3>1, ValuesFinite
  <2>4. PICK w \in lower : \A n \in lower : n <= w
    <3> HIDE DEF lower
    <3> QED
      BY <2>3, GreatestOf
  <2>5. w \in values /\ w \in Nat /\ w < v
    BY <2>3, <2>4 DEF Under
  <2>6. UpTo(f, w) = Under(f, v)
    <3>1. UpTo(f, w) \subseteq Under(f, v)
      BY <1>4, <2>5 DEF Under, UpTo
    <3>2. Under(f, v) \subseteq UpTo(f, w)
      BY <2>4 DEF Under, UpTo
    <3> QED
      BY <3>1, <3>2
  <2>7. w \in enough
    BY <2>1, <2>5, <2>6
  <2> QED
    BY <1>3, <1>4, <2>5, <2>7
<1>6. \E u \in {f[x] : x \in DOMAIN f} :
         /\ Cardinality({x \in DOMAIN f : f[x] < u}) < k
         /\ Cardinality({x \in DOMAIN f : f[x] <= u}) >= k
  BY <1>4, <1>5 DEF Under, UpTo
<1>7. /\ Smallest(k, f) \in {f[x] : x \in DOMAIN f}
      /\ Cardinality({x \in DOMAIN f : f[x] < Smallest(k, f)}) < k
      /\ Cardinality({x \in DOMAIN f : f[x] <= Smallest(k, f)}) >= k
  BY <1>6, Zenon DEF Smallest
<1> QED
  BY <1>7 DEF Under, UpTo

\* Where four of six values are one value, the third and the fourth smallest are it.
LEMMA MostAgree ==
    ASSUME NEW D, IsFiniteSet(D), Cardinality(D) = 6, NEW f \in [D -> Nat], NEW v \in Nat,
           Cardinality({x \in D : f[x] = v}) >= 4, NEW k \in {3, 4}
    PROVE  Smallest(k, f) = v
<1> DEFINE same == {x \in D : f[x] = v}
           w == Smallest(k, f)
<1>1. w \in Nat /\ Cardinality(Under(f, w)) < k /\ Cardinality(UpTo(f, w)) >= k
  BY SmallestExists
<1>2. IsFiniteSet(same) /\ Cardinality(same) \in Nat
  BY FS_Subset, FS_CardinalityType
<1>3. IsFiniteSet(D \ same) /\ Cardinality(D \ same) <= 2
  <2>1. /\ IsFiniteSet(D \ same) /\ Cardinality(D \ same) \in Nat
    BY FS_Subset, FS_CardinalityType
  <2>2. same \cap (D \ same) = {} /\ same \cup (D \ same) = D
    OBVIOUS
  <2> HIDE DEF same
  <2>3. Cardinality(D) = Cardinality(same) + Cardinality(D \ same)
    <3>1. Cardinality(same \cup (D \ same)) =
             Cardinality(same) + Cardinality(D \ same) - Cardinality(same \cap (D \ same))
      BY <1>2, <2>1, FS_Union
    <3>2. Cardinality(same \cap (D \ same)) = 0
      BY <2>2, FS_EmptySet
    <3>3. Cardinality(same \cup (D \ same)) = Cardinality(D)
      BY <2>2, Zenon
    <3> DEFINE a == Cardinality(same)
               b == Cardinality(D \ same)
               both == Cardinality(same \cap (D \ same))
               all == Cardinality(D)
    <3>4. a \in Nat /\ b \in Nat /\ both = 0 /\ all = a + b - both
      BY <1>2, <2>1, <3>1, <3>2, <3>3
    <3>5. all = a + b
      <4> HIDE DEF a, b, both, all
      <4> QED
        BY <3>4
    <3> QED
      BY <3>5
  <2> QED
    BY <1>2, <2>1, <2>3 DEF same
<1>4. ~(w < v)
  <2> SUFFICES ASSUME w < v PROVE FALSE
    OBVIOUS
  <2>1. UpTo(f, w) \subseteq D \ same
    BY <1>1 DEF UpTo
  <2>2. Cardinality(UpTo(f, w)) <= Cardinality(D \ same)
    <3> HIDE DEF same, w
    <3> QED
      BY <1>3, <2>1, FS_Subset
  <2>3. Cardinality(UpTo(f, w)) \in Nat /\ Cardinality(D \ same) \in Nat
    BY <1>3, PartsFinite, FS_CardinalityType
  <2> HIDE DEF same, w
  <2> QED
    BY <1>1, <1>3, <2>2, <2>3
<1>5. ~(w > v)
  <2> SUFFICES ASSUME w > v PROVE FALSE
    OBVIOUS
  <2>1. same \subseteq Under(f, w)
    BY <1>1 DEF Under
  <2>2. IsFiniteSet(Under(f, w)) /\ Cardinality(Under(f, w)) \in Nat
    BY PartsFinite
  <2>3. Cardinality(same) <= Cardinality(Under(f, w))
    <3> HIDE DEF same, w
    <3> QED
      BY <2>1, <2>2, FS_Subset
  <2> QED
    BY <1>1, <1>2, <2>2, <2>3
<1> QED
  BY <1>1, <1>4, <1>5

-----------------------------------------------------------------------------
\* A ranking of some insights: all of them, each before those it precedes.
Ranking(s, insights) ==
    /\ s \in [1 .. Cardinality(insights) -> insights]
    /\ {s[i] : i \in DOMAIN s} = insights
    /\ \A i, j \in DOMAIN s : i < j => Precedes(s[i], s[j])

IsInsight(a) == a.priority \in 1 .. 3 /\ a.score \in 0 .. 9 /\ a.metric \in Metrics

\* Insights are in order if these numbers are.
Weight(a) == 100 * a.priority + 10 * a.score - IdOrder[a.metric]

\* The weightier insight comes first.
LEMMA WeightPrecedes ==
    ASSUME NEW a, IsInsight(a), NEW b, IsInsight(b)
    PROVE  /\ Weight(a) \in Nat /\ Weight(b) \in Nat
           /\ Weight(b) <= Weight(a) => Precedes(a, b)
<1>1. /\ a.priority \in 1 .. 3 /\ a.score \in 0 .. 9
      /\ b.priority \in 1 .. 3 /\ b.score \in 0 .. 9
  BY DEF IsInsight
<1>2. IdOrder[a.metric] \in 1 .. 3 /\ IdOrder[b.metric] \in 1 .. 3
  BY DEF IsInsight, IdOrder, Metrics
<1> DEFINE m == IdOrder[a.metric]
           n == IdOrder[b.metric]
<1>3. /\ Weight(a) = 100 * a.priority + 10 * a.score - m
      /\ Weight(b) = 100 * b.priority + 10 * b.score - n
      /\ Precedes(a, b) <=> \/ a.priority > b.priority
                            \/ a.priority = b.priority /\ a.score > b.score
                            \/ a.priority = b.priority /\ a.score = b.score /\ m <= n
  BY DEF Weight, Precedes
<1> HIDE DEF m, n
<1>4. m \in 1 .. 3 /\ n \in 1 .. 3
  BY <1>2 DEF m, n
<1> QED
  BY <1>1, <1>3, <1>4

\* Finitely many insights can be ranked: take the weightless last, rank the others.
LEMMA CanBeRanked ==
    ASSUME NEW S, IsFiniteSet(S), \A a \in S : IsInsight(a)
    PROVE  \E s : Ranking(s, S)
<1> DEFINE Bad == {X \in SUBSET S : ~ \E s : Ranking(s, X)}
           T == {Cardinality(X) : X \in Bad}
<1> SUFFICES ASSUME Bad # {} PROVE FALSE
  OBVIOUS
<1>1. \A X \in SUBSET S : IsFiniteSet(X) /\ Cardinality(X) \in Nat
  BY FS_Subset, FS_CardinalityType
<1>2. PICK n \in T : \A k \in T : n <= k
  <2>1. T \subseteq Nat /\ T # {}
    <3> HIDE DEF Bad
    <3>1. Bad \subseteq SUBSET S
      BY DEF Bad
    <3> QED
      BY <1>1, <3>1
  <2> HIDE DEF T
  <2> QED
    BY <2>1, LeastOf
<1>3. PICK X \in Bad : n = Cardinality(X)
  OBVIOUS
<1>4. X \in SUBSET S /\ IsFiniteSet(X) /\ n \in Nat /\ ~ \E s : Ranking(s, X)
  BY <1>1, <1>3
<1>5. X # {}
  <2> SUFFICES ASSUME X = {} PROVE FALSE
    OBVIOUS
  <2>1. Cardinality(X) = 0
    BY FS_EmptySet
  <2>2. Ranking([i \in {} |-> i], X)
    BY <2>1 DEF Ranking
  <2> QED
    BY <1>4, <2>2
<1>6. PICK x \in X : \A y \in X : Weight(x) <= Weight(y)
  <2> DEFINE weights == {Weight(y) : y \in X}
  <2>1. weights \subseteq Nat /\ weights # {}
    BY <1>4, <1>5, WeightPrecedes
  <2>2. PICK w \in weights : \A v \in weights : w <= v
    <3> HIDE DEF weights
    <3> QED
      BY <2>1, LeastOf
  <2> QED
    BY <2>2
<1> DEFINE rest == X \ {x}
<1>7. Cardinality(rest) = n - 1 /\ rest \in SUBSET S /\ n - 1 \in Nat
  <2>1. Cardinality(rest) = n - 1
    BY <1>3, <1>4, <1>6, FS_RemoveElement
  <2>2. rest \in SUBSET S
    BY <1>4
  <2> HIDE DEF rest
  <2> QED
    BY <1>1, <2>1, <2>2
<1>8. PICK s : Ranking(s, rest)
  <2> SUFFICES ASSUME rest \in Bad PROVE FALSE
    BY <1>7
  <2>1. Cardinality(rest) \in T
    OBVIOUS
  <2> HIDE DEF T, rest
  <2>2. n <= n - 1
    BY <1>2, <1>7, <2>1
  <2> QED
    BY <1>4, <2>2
<1>9. /\ s \in [1 .. n - 1 -> rest] /\ {s[i] : i \in DOMAIN s} = rest
      /\ \A i, j \in DOMAIN s : i < j => Precedes(s[i], s[j])
  <2> HIDE DEF rest
  <2> QED
    BY <1>7, <1>8 DEF Ranking
<1> DEFINE t == [i \in 1 .. n |-> IF i = n THEN x ELSE s[i]]
<1>10. \A i \in 1 .. n - 1 : t[i] = s[i] /\ s[i] \in rest
  BY <1>4, <1>9
<1>11. t[n] = x
  BY <1>4, <1>7
<1>12. 1 .. n = (1 .. n - 1) \cup {n}
  BY <1>4, <1>7
<1>13. t \in [1 .. n -> X] /\ {t[i] : i \in DOMAIN t} = X
  <2>1. \A i \in 1 .. n : t[i] \in X
    BY <1>10, <1>11, <1>12
  <2>2. \A y \in X : \E i \in 1 .. n : t[i] = y
    <3> TAKE y \in X
    <3>1. CASE y = x
      BY <1>11, <1>12, <3>1
    <3>2. CASE y # x
      <4>1. PICK i \in DOMAIN s : s[i] = y
        BY <1>9, <3>2
      <4> QED
        BY <1>9, <1>10, <1>12, <4>1
    <3> QED
      BY <3>1, <3>2
  <2>3. t \in [1 .. n -> X]
    BY <2>1
  <2> HIDE DEF t
  <2> QED
    BY <2>1, <2>2, <2>3
<1>14. ASSUME NEW i \in 1 .. n, NEW j \in 1 .. n, i < j PROVE Precedes(t[i], t[j])
  <2>1. i \in 1 .. n - 1
    BY <1>4, <1>14
  <2>2. CASE j = n
    <3>1. t[i] \in X /\ x \in X /\ IsInsight(t[i]) /\ IsInsight(x)
      BY <1>4, <1>13
    <3>2. Weight(x) <= Weight(t[i])
      BY <1>6, <3>1
    <3> HIDE DEF t
    <3> QED
      BY <1>11, <2>2, <3>1, <3>2, WeightPrecedes
  <2>3. CASE j # n
    <3>1. j \in 1 .. n - 1
      BY <1>4, <2>3
    <3> HIDE DEF t
    <3> QED
      BY <1>9, <1>10, <1>14, <2>1, <3>1
  <2> QED
    BY <2>2, <2>3
<1>15. Ranking(t, X)
  <2>1. DOMAIN t = 1 .. n
    OBVIOUS
  <2> HIDE DEF t
  <2> QED
    BY <1>3, <1>13, <1>14, <2>1 DEF Ranking
<1> QED
  BY <1>4, <1>15

\* So what is ranked are the insights, in their order.
LEMMA RankedIsRanking ==
    ASSUME NEW S, IsFiniteSet(S), \A a \in S : IsInsight(a)
    PROVE  Ranking(Ranked(S), S)
<1>1. \E s \in [1 .. Cardinality(S) -> S] :
         /\ {s[i] : i \in DOMAIN s} = S
         /\ \A i, j \in DOMAIN s : i < j => Precedes(s[i], s[j])
  BY CanBeRanked DEF Ranking
<1> QED
  BY <1>1, Zenon DEF Ranked, Ranking

\* An unusual change is an insight, and a large loss of sales or orders is urgent.
LEMMA AnomalyScored ==
    ASSUME NEW metric \in Metrics, NEW change, NEW baseline
    PROVE  /\ IsInsight(Anomaly(metric, change, baseline))
           /\ Anomaly(metric, change, baseline).metric = metric
           /\ Anomaly(metric, change, baseline).change = change
           /\ Anomaly(metric, change, baseline).baseline = baseline
           /\ (/\ change \in Int /\ baseline \in Nat /\ change # 0 /\ change >= -baseline
               /\ metric # "average_order_value" /\ 5 * change <= -baseline)
              => Anomaly(metric, change, baseline).priority = 3
<1> DEFINE a == Anomaly(metric, change, baseline)
           score == Impact(change, baseline) + Urgency(metric, change) + Confidence
<1>1. Impact(change, baseline) \in 0 .. 3
  BY DEF Impact
<1>2. Urgency(metric, change) \in 1 .. 3
  BY DEF Urgency
<1>3. score \in 3 .. 8
  BY <1>1, <1>2 DEF Confidence
<1>4. /\ a.metric = metric /\ a.change = change /\ a.baseline = baseline
      /\ a.score = score /\ a.priority = Priority(score)
  BY DEF Anomaly
<1>5. IsInsight(a)
  <2> HIDE DEF a, score
  <2>1. Priority(score) \in 1 .. 3
    BY DEF Priority
  <2> QED
    BY <1>3, <1>4, <2>1 DEF IsInsight
<1>6. ASSUME change \in Int, baseline \in Nat, change # 0, change >= -baseline,
             metric # "average_order_value", 5 * change <= -baseline
      PROVE  a.priority = 3
  <2>1. change < 0 /\ baseline > 0
    BY <1>6
  <2>2. 5 * Abs(change) >= baseline
    BY <1>6, <2>1 DEF Abs
  <2>3. Impact(change, baseline) \in {2, 3}
    BY <1>6, <2>1, <2>2 DEF Impact
  <2>4. Urgency(metric, change) = 3
    BY <1>6, <2>1 DEF Urgency
  <2>5. score \in {7, 8}
    BY <2>3, <2>4 DEF Confidence
  <2> HIDE DEF a, score
  <2> QED
    BY <1>4, <2>5 DEF Priority
<1> QED
  BY <1>4, <1>5, <1>6

-----------------------------------------------------------------------------
\* Medians of six values, and their spread.
LEMMA MediansTyped ==
    ASSUME NEW D, IsFiniteSet(D), Cardinality(D) = 6, NEW f \in [D -> Nat]
    PROVE  TwiceMedian(f) \in Nat /\ Spread(f) \in Nat
<1>1. ASSUME NEW g \in [D -> Nat] PROVE TwiceMedian(g) \in Nat
  <2>1. Smallest(3, g) \in Nat /\ Smallest(4, g) \in Nat
    BY SmallestExists
  <2> QED
    BY <2>1 DEF TwiceMedian
<1> DEFINE median == TwiceMedian(f)
           deviation == [x \in D |-> Abs(2 * f[x] - median)]
<1>2. median \in Nat
  BY <1>1
<1>3. deviation \in [D -> Nat]
  <2> HIDE DEF median
  <2> QED
    BY <1>2 DEF Abs
<1>4. Spread(f) = TwiceMedian(deviation)
  BY DEF Spread
<1> HIDE DEF deviation
<1> QED
  BY <1>1, <1>2, <1>3, <1>4

\* What is unlikely is a change, and no value can fall by more than all of it.
LEMMA UnlikelyIsChange ==
    ASSUME NEW D, IsFiniteSet(D), Cardinality(D) = 6, NEW f \in [D -> Nat], NEW now \in Nat,
           Unlikely(f, now)
    PROVE  /\ 2 * now - TwiceMedian(f) # 0
           /\ 2 * now - TwiceMedian(f) >= -TwiceMedian(f)
<1> DEFINE median == TwiceMedian(f)
           spread == Spread(f)
<1>1. median \in Nat /\ spread \in Nat
  BY MediansTyped
<1>2. IF spread = 0 THEN 2 * now - median # 0
      ELSE 20000 * Abs(2 * now - median) >= 51891 * spread
  BY DEF Unlikely
<1> HIDE DEF median, spread
<1>3. 2 * now - median # 0
  BY <1>1, <1>2 DEF Abs
<1>4. 2 * now - median >= -median
  BY <1>1
<1> QED
  BY <1>3, <1>4 DEF median

\* Two odd months among six move neither the median nor the spread.
LEMMA MedianHolds ==
    ASSUME NEW D, IsFiniteSet(D), Cardinality(D) = 6, NEW f \in [D -> Nat], NEW v \in Nat,
           Cardinality({x \in D : f[x] = v}) >= 4, NEW now \in Nat
    PROVE  Unlikely(f, now) <=> now # v
<1> DEFINE median == TwiceMedian(f)
           deviation == [x \in D |-> Abs(2 * f[x] - median)]
<1>1. median = 2 * v
  <2>1. Smallest(3, f) = v /\ Smallest(4, f) = v
    BY MostAgree
  <2> QED
    BY <2>1 DEF TwiceMedian
<1>2. deviation \in [D -> Nat]
  <2> HIDE DEF median
  <2> QED
    BY <1>1 DEF Abs
<1>3. {x \in D : deviation[x] = 0} = {x \in D : f[x] = v}
  <2>1. ASSUME NEW x \in D PROVE deviation[x] = 0 <=> f[x] = v
    <3>1. deviation[x] = Abs(2 * f[x] - 2 * v) /\ f[x] \in Nat
      <4> HIDE DEF median
      <4> QED
        BY <1>1
    <3> HIDE DEF deviation
    <3> QED
      BY <3>1 DEF Abs
  <2> HIDE DEF deviation
  <2> QED
    BY <2>1
<1>4. Smallest(3, deviation) = 0 /\ Smallest(4, deviation) = 0
  <2>1. Cardinality({x \in D : deviation[x] = 0}) >= 4
    BY <1>3
  <2> HIDE DEF deviation
  <2> QED
    BY <1>2, <2>1, MostAgree
<1>5. Spread(f) = 0
  <2>1. Spread(f) = TwiceMedian(deviation)
    BY DEF Spread
  <2> HIDE DEF deviation
  <2> QED
    BY <1>4, <2>1 DEF TwiceMedian
<1>6. Unlikely(f, now) <=> 2 * now - median # 0
  BY <1>5 DEF Unlikely
<1> HIDE DEF median
<1> QED
  BY <1>1, <1>6

-----------------------------------------------------------------------------
\* The values of the six months before the latest, and what is found unusual.
Past(h, months, metric) == [m \in Before(months, BaselinePeriods) |-> Metric(h, metric, m)]
Found(h, months) ==
    {Anomaly(metric,
             2 * Metric(h, metric, Max(months)) - TwiceMedian(Past(h, months, metric)),
             TwiceMedian(Past(h, months, metric))) :
        metric \in {k \in Metrics : Unlikely(Past(h, months, k), Metric(h, k, Max(months)))}}

\* What is measured of a month is a number.
LEMMA MetricTyped ==
    ASSUME NEW h \in Seq(Activity), NEW m \in DOMAIN h, NEW metric \in Metrics
    PROVE  Metric(h, metric, m) \in Nat
<1>1. h[m].orders \in Nat /\ h[m].value \in Nat
  BY DEF Activity
<1> QED
  BY <1>1 DEF Metric, Metrics, Sales

\* What a report says is unusual: nothing, or the ranking of what was found.
LEMMA AnomalyContent ==
    ASSUME NEW h \in Seq(Activity), NEW complete \in BOOLEAN
    PROVE  LET months == CompleteMonths(h, complete)
               section == Anomalies(h, complete)
           IN  \/ section = FailedSection
               \/ /\ Cardinality(months) >= 7 /\ Consecutive(months)
                  /\ section.months = Before(months, BaselinePeriods) \cup {Max(months)}
                  /\ section.insights = Ranked(Found(h, months))
<1> DEFINE months == CompleteMonths(h, complete)
<1>1. Cardinality(months) \in Nat
  BY MonthsOfHistory, MonthsAreFew DEF CompleteMonths
<1>2. CASE Cardinality(months) < BaselinePeriods + 1 \/ ~Consecutive(months)
  BY <1>2 DEF Anomalies
<1>3. CASE Cardinality(months) >= 7 /\ Consecutive(months)
  BY <1>1, <1>3 DEF Anomalies, Section, BaselinePeriods, Found, Past
<1> QED
  BY <1>1, <1>2, <1>3 DEF BaselinePeriods

\* The six months before the latest, and the values measured of them.
LEMMA WindowTyped ==
    ASSUME NEW h \in Seq(Activity), NEW complete \in BOOLEAN,
           Cardinality(CompleteMonths(h, complete)) >= 7, Consecutive(CompleteMonths(h, complete))
    PROVE  LET months == CompleteMonths(h, complete)
               earlier == Before(months, BaselinePeriods)
           IN  /\ Max(months) \in Nat \ earlier
               /\ Max(earlier \cup {Max(months)}) = Max(months)
               /\ IsFiniteSet(earlier) /\ Cardinality(earlier) = 6
               /\ \A metric \in Metrics :
                     /\ Metric(h, metric, Max(months)) \in Nat
                     /\ Past(h, months, metric) \in [earlier -> Nat]
<1> DEFINE months == CompleteMonths(h, complete)
           current == Max(months)
           earlier == Before(months, BaselinePeriods)
<1>1. /\ current \in Nat /\ earlier = (current - 6) .. (current - 1)
      /\ earlier \cup {current} = (current - 6) .. current
      /\ (current - 6) .. current \subseteq months /\ months \subseteq DOMAIN h
  BY AnomalyWindow
<1>2. \A metric \in Metrics : /\ Metric(h, metric, current) \in Nat
                              /\ Past(h, months, metric) \in [earlier -> Nat]
  <2>1. \A m \in earlier \cup {current} : m \in DOMAIN h
    <3> HIDE DEF months, current, earlier
    <3> QED
      BY <1>1
  <2>2. \A metric \in Metrics : \A m \in earlier \cup {current} : Metric(h, metric, m) \in Nat
    <3> HIDE DEF months, current, earlier
    <3> QED
      BY <2>1, MetricTyped
  <2> QED
    BY <2>2 DEF Past
<1> HIDE DEF months, current, earlier
<1>3. IsFiniteSet(earlier) /\ Cardinality(earlier) = 6
  <2>1. current - 6 \in Int /\ current - 1 \in Int
    BY <1>1
  <2>2. /\ IsFiniteSet((current - 6) .. (current - 1))
        /\ Cardinality((current - 6) .. (current - 1)) =
              IF current - 6 > current - 1 THEN 0 ELSE (current - 1) - (current - 6) + 1
    BY <2>1, FS_Interval
  <2> QED
    BY <1>1, <2>2
<1>4. current \notin earlier
  BY <1>1
<1>5. Max(earlier \cup {current}) = current
  <2>1. /\ current \in earlier \cup {current}
        /\ \A y \in earlier \cup {current} : current >= y
    BY <1>1
  <2>2. \A x \in earlier \cup {current} :
           (\A y \in earlier \cup {current} : x >= y) => x = current
    BY <1>1
  <2> QED
    BY <2>1, <2>2 DEF Max
<1> QED
  BY <1>1, <1>2, <1>3, <1>4, <1>5 DEF months, current, earlier

\* What is found is finite, and can be ranked.
LEMMA FoundIsRanked ==
    ASSUME NEW h \in Seq(Activity), NEW months
    PROVE  /\ Ranking(Ranked(Found(h, months)), Found(h, months))
           /\ Cardinality(Found(h, months)) \in Nat
<1> DEFINE S == Found(h, months)
           unusual == {k \in Metrics : Unlikely(Past(h, months, k), Metric(h, k, Max(months)))}
           g == [metric \in unusual |->
                    Anomaly(metric,
                       2 * Metric(h, metric, Max(months)) - TwiceMedian(Past(h, months, metric)),
                       TwiceMedian(Past(h, months, metric)))]
<1>1. IsFiniteSet(unusual)
  <2>1. IsFiniteSet({"recognized_sales"})
    BY FS_Singleton
  <2>2. IsFiniteSet({"recognized_sales"} \cup {"completed_orders"})
    BY <2>1, FS_AddElement
  <2>3. IsFiniteSet(({"recognized_sales"} \cup {"completed_orders"}) \cup {"average_order_value"})
    BY <2>2, FS_AddElement
  <2>4. Metrics = ({"recognized_sales"} \cup {"completed_orders"}) \cup {"average_order_value"}
    BY DEF Metrics
  <2> QED
    BY <2>3, <2>4, FS_Subset
<1>2. S = {g[x] : x \in unusual}
  BY DEF Found
<1>3. IsFiniteSet(S)
  <2>1. unusual \subseteq DOMAIN g
    OBVIOUS
  <2> HIDE DEF S, g, unusual
  <2> QED
    BY <1>1, <1>2, <2>1, ValuesFinite
<1>4. \A a \in S : IsInsight(a)
  BY AnomalyScored DEF Found
<1> QED
  BY <1>3, <1>4, RankedIsRanking, FS_CardinalityType

\* An unusual loss of a fifth of sales or orders is of high priority and before
\* all that is not, in every report (recommendations.py:24-49, 112-166).
THEOREM LargeFallsComeFirstHolds == Spec => []LargeFallsComeFirst
<1>1. ReportFollows => LargeFallsComeFirst
  <2> SUFFICES ASSUME ReportFollows, report # None PROVE LargeFallsComeFirst
    BY DEF LargeFallsComeFirst
  <2> DEFINE s == report.anomalies.insights
             months == CompleteMonths(history, report.complete)
             found == Found(history, months)
  <2>1. history \in Seq(Activity) /\ FollowsFrom(history, report) /\ report.complete \in BOOLEAN
    BY DEF ReportFollows, FollowsFrom
  <2>2. ASSUME NEW i \in DOMAIN report.comparison.insights
        PROVE  report.comparison.insights[i].priority < 3
    <3>1. CASE report.comparison.insights = <<>>
      BY <2>2, <3>1
    <3>2. ASSUME NEW change, NEW baseline,
                 report.comparison.insights = <<SalesChange(change, baseline)>>
          PROVE  report.comparison.insights[i].priority < 3
      <4>1. SalesChange(change, baseline).priority \in {1, 2}
        BY DEF SalesChange, Priority
      <4>2. report.comparison.insights[i] = SalesChange(change, baseline)
        <5> DEFINE x == SalesChange(change, baseline)
        <5> HIDE DEF x
        <5>1. DOMAIN <<x>> = {1} /\ <<x>>[1] = x
          OBVIOUS
        <5> QED
          BY <2>2, <3>2, <5>1 DEF x
      <4> QED
        BY <4>1, <4>2
    <3>3. \/ report.comparison.insights = <<>>
          \/ \E change, baseline :
                report.comparison.insights = <<SalesChange(change, baseline)>>
      BY <2>1 DEF FollowsFrom, Comparison, FailedSection, Section
    <3> QED
      BY <3>1, <3>2, <3>3
  <2>3. CASE s = <<>>
    BY <2>2, <2>3 DEF LargeFallsComeFirst
  <2>4. CASE s # <<>>
    <3>1. /\ Cardinality(months) >= 7 /\ Consecutive(months) /\ s = Ranked(found)
      <4>1. report.anomalies = Anomalies(history, report.complete) /\ report.anomalies # FailedSection
        BY <2>1, <2>4 DEF FollowsFrom, FailedSection, Section
      <4> QED
        BY <2>1, <4>1, AnomalyContent
    <3>2. Ranking(s, found)
      BY <2>1, <3>1, FoundIsRanked
    <3>3. ASSUME NEW i \in DOMAIN s,
                 s[i].metric # "average_order_value", 5 * s[i].change <= -s[i].baseline
          PROVE  s[i].priority = 3 /\ \A j \in 1 .. i : s[j].priority = 3
      <4> DEFINE earlier == Before(months, BaselinePeriods)
                 past(metric) == Past(history, months, metric)
                 now(metric) == Metric(history, metric, Max(months))
      <4>1. /\ i \in 1 .. Cardinality(found) /\ DOMAIN s = 1 .. Cardinality(found)
            /\ \A j \in DOMAIN s : s[j] \in found
            /\ \A k, j \in DOMAIN s : k < j => Precedes(s[k], s[j])
        <5> HIDE DEF s, found
        <5> QED
          BY <3>2, <3>3 DEF Ranking
      <4>2. PICK metric \in Metrics :
               /\ Unlikely(past(metric), now(metric))
               /\ s[i] = Anomaly(metric, 2 * now(metric) - TwiceMedian(past(metric)),
                                 TwiceMedian(past(metric)))
        <5>1. s[i] \in found
          BY <3>3, <4>1
        <5> HIDE DEF s
        <5> QED
          BY <5>1 DEF Found
      <4>3. /\ IsFiniteSet(earlier) /\ Cardinality(earlier) = 6
            /\ now(metric) \in Nat /\ past(metric) \in [earlier -> Nat]
        BY <2>1, <3>1, WindowTyped
      <4>4. s[i].priority = 3
        <5> DEFINE n == now(metric)
                   f == past(metric)
                   baseline == TwiceMedian(f)
                   change == 2 * n - baseline
        <5> HIDE DEF s, n, f, earlier, months
        <5>1. /\ Unlikely(f, n) /\ s[i] = Anomaly(metric, change, baseline)
              /\ IsFiniteSet(earlier) /\ Cardinality(earlier) = 6
              /\ n \in Nat /\ f \in [earlier -> Nat]
          BY <4>2, <4>3 DEF n, f
        <5>2. baseline \in Nat /\ change # 0 /\ change >= -baseline
          BY <5>1, MediansTyped, UnlikelyIsChange
        <5> HIDE DEF baseline
        <5>3. change \in Int
          BY <5>1, <5>2
        <5> HIDE DEF change
        <5>4. s[i].metric = metric /\ s[i].change = change /\ s[i].baseline = baseline
          BY <5>1, AnomalyScored
        <5> QED
          BY <3>3, <5>1, <5>2, <5>3, <5>4, AnomalyScored
      <4>5. ASSUME NEW j \in 1 .. i PROVE s[j].priority = 3
        <5> HIDE DEF s, found
        <5> DEFINE n == Cardinality(found)
        <5>1. n \in Nat
          BY <2>1, FoundIsRanked DEF found
        <5>2. CASE j = i
          BY <4>4, <5>2
        <5>3. CASE j # i
          <6>1. j \in DOMAIN s /\ j < i /\ i \in DOMAIN s
            <7>1. i \in 1 .. n /\ DOMAIN s = 1 .. n
              BY <4>1
            <7> HIDE DEF n
            <7> QED
              BY <5>1, <5>3, <7>1
          <6>2. Precedes(s[j], s[i]) /\ s[j] \in found
            BY <4>1, <6>1
          <6>3. s[j].priority \in 1 .. 3
            BY <6>2, AnomalyScored DEF found, Found, IsInsight
          <6> QED
            BY <4>4, <6>2, <6>3 DEF Precedes
        <5> QED
          BY <5>2, <5>3
      <4> QED
        BY <4>4, <4>5
    <3> HIDE DEF s
    <3> QED
      BY <2>2, <3>3 DEF LargeFallsComeFirst, s
  <2> QED
    BY <2>3, <2>4
<1> QED
  BY <1>1, ReportAlwaysFollows, PTL

\* Whatever happened in two of the six months before, a month is unusual exactly when
\* it differs from what the other four agree on (anomaly.py:107-125).
THEOREM SpikesDoNotMaskHolds == Spec => []SpikesDoNotMask
<1>1. ReportFollows => SpikesDoNotMask
  <2> SUFFICES ASSUME ReportFollows, report # None, report.anomalies.months # {}
               PROVE  SpikesDoNotMask
    BY DEF SpikesDoNotMask
  <2> DEFINE s == report.anomalies.insights
             months == CompleteMonths(history, report.complete)
             earlier == Before(months, BaselinePeriods)
             current == Max(months)
             found == {s[i].metric : i \in DOMAIN s}
             past(metric) == Past(history, months, metric)
  <2>1. history \in Seq(Activity) /\ FollowsFrom(history, report) /\ report.complete \in BOOLEAN
    BY DEF ReportFollows, FollowsFrom
  <2>2. /\ Cardinality(months) >= 7 /\ Consecutive(months)
        /\ report.anomalies.months = earlier \cup {current}
        /\ s = Ranked(Found(history, months))
    <3>1. report.anomalies = Anomalies(history, report.complete) /\ report.anomalies # FailedSection
      BY <2>1 DEF FollowsFrom, FailedSection, Section
    <3> QED
      BY <2>1, <3>1, AnomalyContent
  <2>3. /\ current \in Nat \ earlier /\ Max(earlier \cup {current}) = current
        /\ IsFiniteSet(earlier) /\ Cardinality(earlier) = 6
        /\ \A metric \in Metrics : /\ Metric(history, metric, current) \in Nat
                                   /\ past(metric) \in [earlier -> Nat]
    BY <2>1, <2>2, WindowTyped
  <2>4. /\ Max(report.anomalies.months) = current
        /\ report.anomalies.months \ {current} = earlier
    BY <2>2, <2>3
  <2>5. {s[i] : i \in DOMAIN s} = Found(history, months)
    BY <2>1, <2>2, FoundIsRanked DEF Ranking
  <2>6. \A metric \in Metrics :
           metric \in found <=> Unlikely(past(metric), Metric(history, metric, current))
    <3>1. found = {a.metric : a \in Found(history, months)}
      <4> HIDE DEF s
      <4> QED
        BY <2>5
    <3> HIDE DEF found
    <3> QED
      BY <3>1, AnomalyScored DEF Found
  <2>7. ASSUME NEW metric \in Metrics, NEW m \in earlier,
               Cardinality({n \in earlier :
                  Metric(history, metric, n) = Metric(history, metric, m)}) >= 4
        PROVE  metric \in found <=>
                  Metric(history, metric, current) # Metric(history, metric, m)
    <3> DEFINE f == past(metric)
               v == Metric(history, metric, m)
               now == Metric(history, metric, current)
    <3>1. f \in [earlier -> Nat] /\ \A n \in earlier : f[n] = Metric(history, metric, n)
      BY <2>3 DEF Past
    <3>2. v \in Nat /\ now \in Nat
      BY <2>3, <3>1
    <3>3. Cardinality({n \in earlier : f[n] = v}) >= 4
      <4>1. {n \in earlier : f[n] = v} = {n \in earlier : Metric(history, metric, n) = v}
        BY <3>1
      <4> QED
        BY <2>7, <4>1
    <3>4. metric \in found <=> Unlikely(f, now)
      BY <2>6
    <3> HIDE DEF f, v, now, earlier, found
    <3>5. Unlikely(f, now) <=> now # v
      BY <2>3, <3>1, <3>2, <3>3, MedianHolds
    <3> QED
      BY <3>4, <3>5 DEF v, now
  <2> HIDE DEF earlier, current, months
  <2> QED
    BY <2>4, <2>7 DEF SpikesDoNotMask
<1> QED
  BY <1>1, ReportAlwaysFollows, PTL

-----------------------------------------------------------------------------
\* The standing of a forecast follows from its months: they follow each other, and
\* how many they are.
LEMMA StandingOf ==
    ASSUME NEW h \in Seq(Activity)
    PROVE  LET months == ForecastMonths(h)
               periods == Cardinality(months)
           IN  /\ IsFiniteSet(months) /\ periods \in Nat
               /\ Standing(Forecast(h, TRUE, None)) =
                     IF ~Consecutive(months) \/ periods < MinExperimental THEN 0
                     ELSE IF periods < MinStandard THEN 1 ELSE 2
<1> DEFINE months == ForecastMonths(h)
           periods == Cardinality(months)
<1>1. IsFiniteSet(months) /\ periods \in Nat
  <2>1. months \subseteq 1 .. Len(h) /\ IsFiniteSet(1 .. Len(h))
    BY MonthsOfHistory, FS_Interval
  <2> HIDE DEF months
  <2> QED
    BY <2>1, FS_Subset, FS_CardinalityType
<1>2. WithoutLatest(months, TRUE) = months
  BY DEF WithoutLatest
<1>3. periods >= MinExperimental => Backtested(periods) # {}
  <2> HIDE DEF periods
  <2> QED
    BY <1>1, CandidatesAreTested DEF Candidates
<1>4. CASE ~Consecutive(months) \/ periods < MinExperimental
  <2>1. Forecast(h, TRUE, None) = UnavailableForecast(months)
    BY <1>2, <1>4 DEF Forecast
  <2>2. Standing(UnavailableForecast(months)) = 0
    BY DEF UnavailableForecast, Standing
  <2> HIDE DEF months
  <2> QED
    BY <1>1, <1>4, <2>1, <2>2 DEF months
<1>5. CASE ~(~Consecutive(months) \/ periods < MinExperimental)
  <2>1. Backtested(periods) # {}
    BY <1>1, <1>3, <1>5 DEF MinExperimental
  <2>2. Forecast(h, TRUE, None).status =
           IF periods < MinStandard THEN "experimental" ELSE "available"
    BY <1>2, <1>5, <2>1 DEF Forecast
  <2> HIDE DEF periods
  <2> QED
    BY <1>1, <1>5, <2>2 DEF Standing, periods
<1> QED
  BY <1>1, <1>4, <1>5

\* The first months of some that follow each other do so too.
LEMMA BeginningsAreConsecutive ==
    ASSUME NEW n \in Nat, NEW S, S \subseteq 1 .. n, Consecutive(S),
           NEW F, F \subseteq S, \A x \in F : \A y \in S : y <= x => y \in F
    PROVE  Consecutive(F)
<1> SUFFICES ASSUME F # {} PROVE F = Min(F) .. Max(F)
  BY DEF Consecutive
<1>1. /\ Min(F) \in F /\ Max(F) \in F /\ \A m \in F : Min(F) <= m /\ m <= Max(F)
      /\ Min(S) \in S /\ Max(S) \in S /\ \A m \in S : Min(S) <= m /\ m <= Max(S)
  BY FirstAndLast
<1>2. S = Min(S) .. Max(S)
  BY DEF Consecutive
<1>3. \A x \in S : x \in Nat
  OBVIOUS
<1>4. ASSUME NEW x \in Min(F) .. Max(F) PROVE x \in F
  <2>1. /\ Min(F) \in Nat /\ Max(F) \in Nat /\ Min(S) \in Nat /\ Max(S) \in Nat
        /\ Min(S) <= Min(F) /\ Max(F) <= Max(S)
    BY <1>1, <1>3
  <2>2. x \in Min(S) .. Max(S) /\ x <= Max(F)
    BY <2>1
  <2> QED
    BY <1>1, <1>2, <2>2
<1>5. ASSUME NEW x \in F PROVE x \in Min(F) .. Max(F)
  BY <1>1, <1>3
<1> QED
  BY <1>4, <1>5

\* Months at the end that hold nothing but refunds are left out, the others are a
\* beginning.
LEMMA ForecastIsBeginning ==
    ASSUME NEW h \in Seq(Activity)
    PROVE  /\ ForecastMonths(h) = {m \in Recorded(h) :
                                      \E n \in Recorded(h) \ AdjustmentOnly(h) : m <= n}
           /\ Consecutive(Recorded(h)) => Consecutive(ForecastMonths(h))
<1>1. Len(h) \in Nat /\ Recorded(h) \subseteq 1 .. Len(h)
  BY MonthsOfHistory
<1>2. \A m \in Recorded(h) : m \in Nat
  BY <1>1
<1>3. \A m \in Recorded(h) : \A n \in Recorded(h) : ~(n < m) <=> m <= n
  BY <1>2
<1>4. ForecastMonths(h) = {m \in Recorded(h) :
                              \E n \in Recorded(h) \ AdjustmentOnly(h) : m <= n}
  BY <1>3 DEF ForecastMonths, TrailingAdjustments
<1>5. ASSUME NEW x \in ForecastMonths(h), NEW y \in Recorded(h), y <= x
      PROVE  y \in ForecastMonths(h)
  <2>1. PICK n \in Recorded(h) \ AdjustmentOnly(h) : x <= n
    BY <1>4
  <2>2. y <= n
    BY <1>2, <1>4, <1>5, <2>1
  <2> QED
    BY <1>4, <2>1, <2>2
<1>6. Consecutive(Recorded(h)) => Consecutive(ForecastMonths(h))
  <2>1. ForecastMonths(h) \subseteq Recorded(h)
    BY <1>4
  <2> QED
    BY <1>1, <1>5, <2>1, BeginningsAreConsecutive
<1> QED
  BY <1>4, <1>6

\* A further month takes none away from the forecast.
LEMMA ForecastMonthsGrow ==
    ASSUME NEW h \in Seq(Activity), NEW a \in Activity
    PROVE  ForecastMonths(h) \subseteq ForecastMonths(Append(h, a))
<1> DEFINE g == Append(h, a)
<1>1. /\ g \in Seq(Activity) /\ DOMAIN h \subseteq DOMAIN g
      /\ \A m \in DOMAIN h : g[m] = h[m]
  OBVIOUS
<1> HIDE DEF g
<1>2. /\ Recorded(h) \subseteq Recorded(g)
      /\ Recorded(h) \ AdjustmentOnly(h) \subseteq Recorded(g) \ AdjustmentOnly(g)
  BY <1>1 DEF Recorded, AdjustmentOnly, Sales
<1>3. ForecastMonths(h) \subseteq ForecastMonths(g)
  BY <1>1, <1>2, ForecastIsBeginning
<1> QED
  BY <1>3 DEF g

\* If something is known of every month, a further month never costs the seller a
\* forecast (analytics.py:138-150, forecasting.py:23-42), at any length.
THEOREM MoreHistoryNeverHurtsHolds == Spec => MoreHistoryNeverHurts
<1> DEFINE Grows(h, g) ==
        Consecutive(Recorded(g)) =>
            Standing(Forecast(h, TRUE, None)) <= Standing(Forecast(g, TRUE, None))
<1>1. ASSUME NEW h \in Seq(Activity), NEW a \in Activity
      PROVE  Grows(h, Append(h, a))
  <2> DEFINE g == Append(h, a)
             few == ForecastMonths(h)
             more == ForecastMonths(g)
  <2>1. g \in Seq(Activity)
    OBVIOUS
  <2> SUFFICES ASSUME Consecutive(Recorded(g))
               PROVE  Standing(Forecast(h, TRUE, None)) <= Standing(Forecast(g, TRUE, None))
    OBVIOUS
  <2>2. few \subseteq more
    BY ForecastMonthsGrow
  <2>3. Consecutive(more)
    BY <2>1, ForecastIsBeginning
  <2>4. /\ IsFiniteSet(few) /\ Cardinality(few) \in Nat
        /\ Standing(Forecast(h, TRUE, None)) =
              IF ~Consecutive(few) \/ Cardinality(few) < MinExperimental THEN 0
              ELSE IF Cardinality(few) < MinStandard THEN 1 ELSE 2
    BY StandingOf
  <2>5. /\ IsFiniteSet(more) /\ Cardinality(more) \in Nat
        /\ Standing(Forecast(g, TRUE, None)) =
              IF ~Consecutive(more) \/ Cardinality(more) < MinExperimental THEN 0
              ELSE IF Cardinality(more) < MinStandard THEN 1 ELSE 2
    BY <2>1, StandingOf
  <2> HIDE DEF few, more, g
  <2>6. Cardinality(few) <= Cardinality(more)
    BY <2>2, <2>5, FS_Subset
  <2> DEFINE m == Cardinality(few)
             n == Cardinality(more)
             u == Standing(Forecast(h, TRUE, None))
             v == Standing(Forecast(g, TRUE, None))
  <2>7. /\ m \in Nat /\ n \in Nat /\ m <= n
        /\ u = 0 \/ (m >= 6 /\ u = IF m < 12 THEN 1 ELSE 2)
        /\ v = IF n < 6 THEN 0 ELSE IF n < 12 THEN 1 ELSE 2
    <3>1. u = IF ~Consecutive(few) \/ m < 6 THEN 0 ELSE IF m < 12 THEN 1 ELSE 2
      BY <2>4, Zenon DEF MinExperimental, MinStandard
    <3>2. v = IF ~Consecutive(more) \/ n < 6 THEN 0 ELSE IF n < 12 THEN 1 ELSE 2
      BY <2>5, Zenon DEF MinExperimental, MinStandard
    <3>3. m \in Nat /\ n \in Nat /\ m <= n
      BY <2>4, <2>5, <2>6
    <3> HIDE DEF m, n, u, v
    <3> QED
      BY <2>3, <3>1, <3>2, <3>3
  <2> HIDE DEF m, n, u, v
  <2>8. u <= v
    BY <2>7
  <2> QED
    BY <2>8 DEF u, v
<1>2. ReportFollows /\ [Next]_vars =>
         [(report = None /\ Consecutive(Recorded(history'))) =>
             Standing(Forecast(history, TRUE, None)) <= Standing(Forecast(history', TRUE, None))
         ]_history
  <2> SUFFICES ASSUME ReportFollows, Next, history' # history
               PROVE  Grows(history, history')
    BY DEF vars
  <2>1. history \in Seq(Activity)
    BY DEF ReportFollows
  <2>2. PICK a \in Activity : history' = Append(history, a)
    <3>1. CASE \E a \in Unusual : CloseMonth(a)
      BY <3>1, ActivityAssumption DEF CloseMonth
    <3>2. CASE Len(history) < Len(Usual) /\ CloseMonth(Usual[Len(history) + 1])
      <4>1. Len(history) + 1 \in DOMAIN Usual
        BY <2>1, <3>2, ActivityAssumption
      <4> QED
        BY <3>2, <4>1, ActivityAssumption DEF CloseMonth
    <3>3. CASE \E complete \in BOOLEAN : Decide(complete) \/ Preview(complete)
      BY <3>3 DEF Decide, Preview
    <3> QED
      BY <3>1, <3>2, <3>3 DEF Next
  <2> HIDE DEF Grows
  <2> QED
    BY <1>1, <2>1, <2>2
<1> QED
  BY <1>2, ReportAlwaysFollows, PTL DEF Spec, MoreHistoryNeverHurts

=============================================================================
