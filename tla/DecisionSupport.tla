-------------------------- MODULE DecisionSupport --------------------------
(***************************************************************************)
(* What src/generic_sales and src/diagnostics make of the sales of one     *)
(* currency, month by month: the forecast, the comparison of two months,   *)
(* the unusual changes and how they are ranked.                            *)
(*                                                                         *)
(* A month is what the canonical rows say of it: whether a row is          *)
(* recognised in it, how many orders were completed, their average value   *)
(* (so that sales are orders * value), and whether a refund is dated in    *)
(* it.  History grows by one month at a time and can be analysed at any    *)
(* time.  Errors of the models are not computed: the selected model's      *)
(* error is any of Errors.  Percentages are not rounded.                   *)
(***************************************************************************)
EXTENDS Integers, Sequences, FiniteSets, FiniteSetsExt

CONSTANTS Usual,       \* Usual[m]: what happens in month m unless something unusual does
          Unusual,     \* what else can happen in a month
          MaxUnusual,  \* MaxUnusual[n]: bound on the unusual months of a history of n months
          Errors,      \* errors of a forecast (wape_percent, whole percents)
          None         \* no value, no report

\* A completed order has a positive value and comes from a row.
Activity ==
    {a \in [rows : BOOLEAN, orders : Nat, value : Nat, refund : BOOLEAN] :
        a.orders > 0 => a.rows /\ a.value > 0}

ASSUME ActivityAssumption ==
    /\ Len(Usual) \in Nat /\ DOMAIN Usual = 1 .. Len(Usual)
    /\ \A m \in DOMAIN Usual : Usual[m] \in Activity
    /\ Unusual \subseteq Activity
ASSUME ErrorsAssumption == Errors \subseteq Nat
ASSUME NoneAssumption == None \notin Nat

VARIABLES
    history,  \* the months so far, oldest first
    report    \* the report of the latest analysis of this history, or None

vars == <<history, report>>

-----------------------------------------------------------------------------
\* Months.
Sales(h, m) == h[m].orders * h[m].value
HasRows(h) == {m \in DOMAIN h : h[m].rows} # {}
Recorded(h) == {m \in DOMAIN h : h[m].rows \/ h[m].refund}
SalesMonths(h) == {m \in DOMAIN h : h[m].orders > 0}
AdjustmentOnly(h) == {m \in DOMAIN h : Sales(h, m) = 0 /\ h[m].refund}

\* (mistake) Refunds between sales are set aside too.
AllAdjustments(h) == Recorded(h) \cap AdjustmentOnly(h)

\* Months at the end with nothing but refunds.
TrailingAdjustments(h) ==
    LET others == Recorded(h) \ AdjustmentOnly(h)
    IN  {m \in Recorded(h) : \A n \in others : n < m}

WithoutLatest(months, complete) ==
    IF complete \/ months = {} THEN months ELSE months \ {Max(months)}

\* (mistake) The unfinished month stays when there would be nothing to compare with.
KeepsLatestOfFew(h, complete) ==
    IF Cardinality(SalesMonths(h)) <= 2 THEN SalesMonths(h)
    ELSE WithoutLatest(SalesMonths(h), complete)

ForecastMonths(h) == Recorded(h) \ TrailingAdjustments(h)
CompleteMonths(h, complete) == WithoutLatest(SalesMonths(h), complete)

Consecutive(months) ==
    months # {} => months = Min(months) .. Max(months)

\* What precedes the latest of some months, n of them.
Before(months, n) == (Max(months) - n) .. (Max(months) - 1)

-----------------------------------------------------------------------------
\* The forecast.
MinExperimental == 6
MinStandard == 12
SeasonalEligible == 24

Candidates(periods) ==
    {"latest_month", "linear_trend", "moving_average_3"} \cup
    (IF periods >= MinStandard THEN {"moving_average_6", "linear_trend_recent_6"} ELSE {}) \cup
    (IF periods >= SeasonalEligible THEN {"seasonal_naive_12"} ELSE {})

\* The months a model needs before the one it predicts.
Needs == [latest_month |-> 1, linear_trend |-> 3, moving_average_3 |-> 3,
          moving_average_6 |-> 6, linear_trend_recent_6 |-> 3, seasonal_naive_12 |-> 12]

CanPredict(model, periods) == periods >= Needs[model]

\* (mistake) One more fold for a short history.
EarlyTrain(periods) == IF periods < MinStandard THEN 2 ELSE 6

MinTrain(periods) == IF periods < MinStandard THEN 3 ELSE 6

\* The last six months that follow enough others are predicted from those before them.
Origins(periods) == {o \in MinTrain(periods) .. periods - 1 : o >= periods - 6}
Folds(periods) == IF periods - MinTrain(periods) > 6 THEN 6 ELSE periods - MinTrain(periods)

Backtested(periods) ==
    {c \in Candidates(periods) :
        Folds(periods) >= 3 /\ \A o \in Origins(periods) : CanPredict(c, o)}

\* (mistake) A year is enough for strong trust.
StrongAfterAYear(periods, error) ==
    CASE periods < MinStandard -> "limited"
      [] periods >= MinStandard /\ (error = None \/ Folds(periods) < 6) -> "exploratory"
      [] OTHER -> IF error <= 10 THEN "strong"
                  ELSE IF error <= 25 THEN "moderate" ELSE "exploratory"

\* (mistake) The last return is missing.
TrustFallsThrough(periods, error) ==
    CASE periods < MinStandard -> "limited"
      [] periods >= MinStandard /\ (error = None \/ Folds(periods) < 6) -> "exploratory"
      [] OTHER -> IF periods >= SeasonalEligible /\ error <= 10 THEN "strong"
                  ELSE IF error <= 25 THEN "moderate" ELSE None

Trust(periods, error) ==
    CASE periods < MinStandard -> "limited"
      [] periods >= MinStandard /\ (error = None \/ Folds(periods) < 6) -> "exploratory"
      [] OTHER -> IF periods >= SeasonalEligible /\ error <= 10 THEN "strong"
                  ELSE IF error <= 25 THEN "moderate" ELSE "exploratory"

UnavailableForecast(months) ==
    [status |-> "unavailable", months |-> months, horizon |-> 0, models |-> {},
     folds |-> 0, trust |-> "unavailable"]

\* The series is of recognised sales (analytics.py:44-46).  Months without any have
\* nothing to relate an error to: a sum of absolute values is zero if each is.
Forecast(h, complete, error) ==
    LET months == WithoutLatest(ForecastMonths(h), complete)
        periods == Cardinality(months)
        tested == {Min(months) + o : o \in Origins(periods)}
        wape == IF \A m \in tested : Sales(h, m) = 0 THEN None ELSE error
    IN  IF ~Consecutive(months) \/ periods < MinExperimental \/ Backtested(periods) = {}
        THEN UnavailableForecast(months)
        ELSE [status |-> IF periods < MinStandard THEN "experimental" ELSE "available",
              months |-> months,
              horizon |-> IF periods < MinStandard THEN 1 ELSE 3,
              models |-> Backtested(periods), folds |-> Folds(periods),
              trust |-> Trust(periods, wape)]

-----------------------------------------------------------------------------
\* Recommendations: what an insight is about decides how urgent it is.
Abs(n) == IF n < 0 THEN -n ELSE n

Impact(change, baseline) ==
    IF baseline = 0 \/ change = 0 THEN 0
    ELSE IF 2 * Abs(change) >= baseline THEN 3
    ELSE IF 5 * Abs(change) >= baseline THEN 2
    ELSE 1

\* (mistake) A rise is urgent, a fall is not.
UrgencyOfRises(metric, change) ==
    CASE metric = "average_order_value" -> IF change > 0 THEN 2 ELSE 1
      [] OTHER -> IF change > 0 THEN 3 ELSE 2

Urgency(metric, change) ==
    CASE metric = "average_order_value" -> IF change > 0 THEN 1 ELSE 2
      [] OTHER -> IF change > 0 THEN 2 ELSE 3

Confidence == 2  \* every insight is of medium confidence

Priority(score) == IF score >= 7 THEN 3 ELSE IF score >= 4 THEN 2 ELSE 1

\* An unusual change, and the two-month comparison, which is never of high priority.
Anomaly(metric, change, baseline) ==
    LET score == Impact(change, baseline) + Urgency(metric, change) + Confidence
    IN  [metric |-> metric, change |-> change, baseline |-> baseline, score |-> score,
         priority |-> Priority(score)]

SalesChange(change, baseline) ==
    LET capped == IF Impact(change, baseline) > 2 THEN 2 ELSE Impact(change, baseline)
        score == capped + 1 + Confidence
    IN  [metric |-> "recognized_sales", change |-> change, baseline |-> baseline,
         score |-> score, priority |-> IF Priority(score) = 3 THEN 2 ELSE Priority(score)]

IdOrder == [average_order_value |-> 1, completed_orders |-> 2, recognized_sales |-> 3]

Precedes(a, b) ==
    \/ a.priority > b.priority
    \/ a.priority = b.priority /\ a.score > b.score
    \/ a.priority = b.priority /\ a.score = b.score /\ IdOrder[a.metric] <= IdOrder[b.metric]

Ranked(insights) ==
    CHOOSE s \in [1 .. Cardinality(insights) -> insights] :
        /\ {s[i] : i \in DOMAIN s} = insights
        /\ \A i, j \in DOMAIN s : i < j => Precedes(s[i], s[j])

-----------------------------------------------------------------------------
\* The sections of the diagnostics: months is what a section speaks of.
Section(status, months, insights) ==
    [status |-> status, months |-> months, insights |-> insights]
FailedSection == Section("unavailable", {}, <<>>)

\* A comparison that cannot be made keeps the default status of a report.
Comparison(h, complete) ==
    LET months == CompleteMonths(h, complete)
        current == Max(months)
        baseline == Max(months \ {current})
    IN  IF \/ Cardinality(months) < 2
           \/ current # baseline + 1
           \/ h[baseline].orders = 0 \/ h[current].orders = 0
        THEN Section("available", {}, <<>>)
        ELSE Section("available", {baseline, current},
                     <<SalesChange(Sales(h, current) - Sales(h, baseline), Sales(h, baseline))>>)

\* Twice what more or fewer orders, and a higher or lower average, contributed.
OrderContribution(b, c) == (c.orders - b.orders) * (b.value + c.value)
ValueContribution(b, c) == (c.value - b.value) * (b.orders + c.orders)

Metrics == {"recognized_sales", "completed_orders", "average_order_value"}
Metric(h, metric, m) ==
    CASE metric = "recognized_sales" -> Sales(h, m)
      [] metric = "completed_orders" -> h[m].orders
      [] metric = "average_order_value" -> h[m].value

\* The k-th smallest value of f, and twice the median of six values.
Smallest(k, f) ==
    CHOOSE v \in {f[x] : x \in DOMAIN f} :
        /\ Cardinality({x \in DOMAIN f : f[x] < v}) < k
        /\ Cardinality({x \in DOMAIN f : f[x] <= v}) >= k
TwiceMedian(f) == Smallest(3, f) + Smallest(4, f)

\* (mistake) The mean deviation instead of the median one.
MeanSpread(f) ==
    LET median == TwiceMedian(f)
    IN  MapThenSumSet(LAMBDA x : Abs(2 * f[x] - median), DOMAIN f) \div 3

\* Four times the median absolute deviation from the median.
Spread(f) ==
    LET median == TwiceMedian(f)
    IN  TwiceMedian([x \in DOMAIN f |-> Abs(2 * f[x] - median)])

\* Beyond 3.5 deviations, a deviation being 1.4826 times the median one; any
\* difference if there is no spread.
Unlikely(f, now) ==
    LET change == 2 * now - TwiceMedian(f)
    IN  IF Spread(f) = 0 THEN change # 0 ELSE 20000 * Abs(change) >= 51891 * Spread(f)

BaselinePeriods == 6

Anomalies(h, complete) ==
    LET months == CompleteMonths(h, complete)
        current == Max(months)
        earlier == Before(months, BaselinePeriods)
        Past(metric) == [m \in earlier |-> Metric(h, metric, m)]
        found == {Anomaly(metric, 2 * Metric(h, metric, current) - TwiceMedian(Past(metric)),
                          TwiceMedian(Past(metric))) :
                     metric \in {k \in Metrics : Unlikely(Past(k), Metric(h, k, current))}}
    IN  IF Cardinality(months) < BaselinePeriods + 1 \/ ~Consecutive(months)
        THEN FailedSection
        ELSE Section(IF found = {} THEN "no_findings" ELSE "available",
                     earlier \cup {current}, Ranked(found))

-----------------------------------------------------------------------------
Init == history = <<>> /\ report = None

UnusualMonths(h) == Cardinality({m \in DOMAIN h : h[m] # Usual[m]})

\* A month passes; the next export has one more.
CloseMonth(a) ==
    /\ Len(history) < Len(Usual)
    /\ history' = Append(history, a)
    /\ UnusualMonths(history') <= MaxUnusual[Len(history')]
    /\ report' = None

\* A report for which the data is good enough.  A section of the diagnostics that
\* raises is unavailable, whatever becomes of the other.
Decide(complete) ==
    /\ HasRows(history)
    /\ report = None
    /\ \E forecast \in {Forecast(history, complete, error) : error \in Errors},
          comparison \in {Comparison(history, complete), FailedSection},
          anomalies \in {Anomalies(history, complete), FailedSection} :
          report' = [complete |-> complete, forecast |-> forecast,
                     comparison |-> comparison, anomalies |-> anomalies]
    /\ UNCHANGED history

\* A report for which it is not: only what is described, nothing decided.
Preview(complete) ==
    /\ HasRows(history)
    /\ report = None
    /\ report' = [complete |-> complete,
                  forecast |-> UnavailableForecast(ForecastMonths(history)),
                  comparison |-> FailedSection, anomalies |-> FailedSection]
    /\ UNCHANGED history

Next ==
    \/ \E a \in Unusual : CloseMonth(a)
    \/ Len(history) < Len(Usual) /\ CloseMonth(Usual[Len(history) + 1])
    \/ \E complete \in BOOLEAN : Decide(complete) \/ Preview(complete)

Spec == Init /\ [][Next]_vars

-----------------------------------------------------------------------------
\* Types: months of activity, and the report of a known shape.
TypeOK ==
    /\ history \in Seq(Activity)
    /\ report # None =>
          /\ report.complete \in BOOLEAN
          /\ report.forecast.status \in {"unavailable", "experimental", "available"}
          /\ report.forecast.trust \in
                {"unavailable", "limited", "exploratory", "moderate", "strong"}
          /\ report.forecast.models \subseteq DOMAIN Needs
          /\ \A section \in {report.comparison, report.anomalies} :
                section.status \in {"available", "no_findings", "unavailable"}

Shown(section) == section.insights # <<>>

\* The months a report draws on.  An unfinished month is used by no part of it,
\* whatever else was set aside before: refunds that came last, months without sales.
\* And no part of it reaches over a month nothing is known of
\* (forecasting.py:23-42, comparison.py:213-243, anomaly.py:169-184).
OnlyFinishedConsecutiveMonths ==
    report # None =>
        /\ ~report.complete =>
              Max(Recorded(history)) \notin
                  report.comparison.months \cup report.anomalies.months
        /\ report.forecast.status # "unavailable" =>
              /\ Consecutive(report.forecast.months)
              /\ report.forecast.months \subseteq Recorded(history)
              /\ ~report.complete => Max(Recorded(history)) \notin report.forecast.months
        /\ \A section \in {report.comparison, report.anomalies} :
              /\ Consecutive(section.months)
              /\ section.months \subseteq SalesMonths(history)

\* Candidates are compared by their mean error, which is fair only if all of them
\* were tested, on the same months, at least three of them; and whichever is
\* selected can predict the coming months (forecasting.py:44-61, 114-170).  The
\* early return "Not enough rolling backtest folds" (lines 53-57) is never taken.
TestedAlike ==
    report # None =>
        LET periods == Cardinality(report.forecast.months)
        IN  \/ /\ report.forecast.status = "unavailable"
               /\ report.forecast.models = {}
            \/ /\ report.forecast.models = Candidates(periods)
               /\ report.forecast.folds \in 3 .. 6
               /\ report.forecast.folds = Cardinality(Origins(periods))
               /\ \A c \in report.forecast.models : CanPredict(c, periods)

\* A forecast is called strong only when the annual pattern was among what was
\* tested, as its message says, and moderate only when more than one month ahead can
\* be predicted (forecasting.py:187-223).
TrustIsEarned ==
    report # None =>
        /\ report.forecast.trust = "strong" =>
              "seasonal_naive_12" \in report.forecast.models /\ report.forecast.folds = 6
        /\ report.forecast.trust = "moderate" =>
              report.forecast.horizon = 3 /\ report.forecast.folds = 6
        /\ report.forecast.status = "unavailable" <=> report.forecast.trust = "unavailable"

\* What history a forecast rests on only grows: as long as something is recorded in
\* every month, be it only refunds, a further month never costs the seller a forecast
\* (analytics.py:138-150, forecasting.py:23-42).
Standing(forecast) ==
    CASE forecast.status = "unavailable" -> 0
      [] forecast.status = "experimental" -> 1
      [] OTHER -> 2
MoreHistoryNeverHurts ==
    [][(report = None /\ Consecutive(Recorded(history'))) =>
          Standing(Forecast(history, TRUE, None)) <= Standing(Forecast(history', TRUE, None))
      ]_history

\* Median and MAD are there so that one or two odd months among the six do not hide
\* the next one: if the others agree on a value, a month is unusual exactly when it
\* differs from that value (anomaly.py:107-125).
SpikesDoNotMask ==
    (report # None /\ report.anomalies.months # {}) =>
        LET current == Max(report.anomalies.months)
            earlier == report.anomalies.months \ {current}
            found == {report.anomalies.insights[i].metric : i \in DOMAIN report.anomalies.insights}
            of(metric, m) == Metric(history, metric, m)
        IN  \A metric \in Metrics : \A m \in earlier :
               Cardinality({n \in earlier : of(metric, n) = of(metric, m)}) >= 4 =>
                  (metric \in found <=> of(metric, current) # of(metric, m))

\* An unusual loss of a fifth of sales or orders is of high priority, listed before
\* every insight that is not; the two-month comparison is never of high priority
\* (recommendations.py:24-49, 112-166).
LargeFallsComeFirst ==
    report # None =>
        LET s == report.anomalies.insights
        IN  /\ \A i \in DOMAIN s :
                  (s[i].metric # "average_order_value" /\ 5 * s[i].change <= -s[i].baseline) =>
                      /\ s[i].priority = 3
                      /\ \A j \in 1 .. i : s[j].priority = 3
            /\ \A i \in DOMAIN report.comparison.insights :
                  report.comparison.insights[i].priority < 3

\* "unavailable: the data or history was insufficient"
\* (docs/DIAGNOSTIC_INTELLIGENCE_ROADMAP.txt:356), and only then does the frontend say
\* why (DiagnosticIntelligence.tsx:69): a section that is available shows something.
StatusTellsWhy ==
    report # None =>
        \A section \in {report.comparison, report.anomalies} :
            section.status = "available" => Shown(section)
=============================================================================
