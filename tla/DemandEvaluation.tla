-------------------------- MODULE DemandEvaluation --------------------------
(***************************************************************************)
(* How the weekly and daily baselines are tried on a daily series          *)
(* (src/product_demand/baselines.py, rolling_evaluation.py, metrics.py and *)
(* trust_gate.py).                                                         *)
(*                                                                         *)
(* A series is a sequence of points [status, units].  An origin is the     *)
(* number of days known when a forecast is made; the fold of an origin     *)
(* tests the HorizonDays days after it.  Units are multiplied by Scale, so *)
(* that every mean is a whole number.  croston gives the total that        *)
(* sba_croston predicts at an origin: its exponential smoothing is left    *)
(* open, when it may be used is not.                                       *)
(***************************************************************************)
EXTENDS DemandCalendar, Sequences

CONSTANTS
    HorizonDays,    \* horizon_days = origin_step_days: 7
    MeanWeeks,      \* weeks in mean_4_weekly_totals: 4
    MinTraining,    \* minimum_training_days: 28
    MinFolds        \* minimum_folds: 3

ASSUME EvaluationAssumption ==
    /\ HorizonDays \in Nat \ {0}
    /\ MeanWeeks \in Nat \ {0}
    /\ MinFolds \in Nat \ {0}
    /\ MinTraining \in Nat
    /\ MinTraining >= MeanWeeks * HorizonDays

Scale == MeanWeeks * HorizonDays

(***************************************************************************)
(* BASELINE_DEFINITIONS, simplest first (complexity_rank, then name).      *)
(***************************************************************************)
Simplest == <<"zero", "last_week_total", "latest_value", "mean_4_weekly_totals",
              "moving_average_7", "seasonal_naive_7", "moving_average_28", "sba_croston">>
Weekly == {"last_week_total", "mean_4_weekly_totals", "sba_croston"}
Daily == {"zero", "latest_value", "seasonal_naive_7", "moving_average_7", "moving_average_28"}
Candidates == Daily \cup Weekly
ASSUME MethodAssumption == None \notin Candidates

History(c) ==
    CASE c \in {"zero", "latest_value"} -> 1
      [] c \in {"seasonal_naive_7", "moving_average_7", "last_week_total"} -> HorizonDays
      [] OTHER -> MeanWeeks * HorizonDays

(***************************************************************************)
(* forecast_baseline: a forecast needs a known day somewhere, and every    *)
(* day its formula reads.                                                  *)
(***************************************************************************)
IsKnown(p) == p.status \in Known
AllKnown(s, days) == \A d \in days : IsKnown(s[d])

Needed(c, o) ==
    CASE c = "zero" -> {}
      [] c = "sba_croston" -> 1 .. o
      [] OTHER -> (o - History(c) + 1) .. o

CanForecast(s, o, c) ==
    /\ o >= History(c)
    /\ \E d \in 1 .. o : IsKnown(s[d])
    /\ AllKnown(s, Needed(c, o))

Units(s, days) == Sum([d \in days |-> s[d].units])

\* The prediction of a daily method for the i-th day after o.
PredictedDay(s, o, c, i) ==
    CASE c = "zero" -> 0
      [] c = "latest_value" -> Scale * s[o].units
      [] c = "seasonal_naive_7" -> Scale * s[o - HorizonDays + i].units
      [] c = "moving_average_7" -> MeanWeeks * Units(s, Needed(c, o))
      [] c = "moving_average_28" -> Units(s, Needed(c, o))

PredictedTotal(s, o, c, croston) ==
    CASE c = "zero" -> 0
      [] c = "last_week_total" -> Scale * Units(s, Needed(c, o))
      [] c = "mean_4_weekly_totals" -> HorizonDays * Units(s, Needed(c, o))
      [] c = "sba_croston" -> croston[o]
      [] c \in Daily \ {"zero"} -> Sum([i \in 1 .. HorizonDays |-> PredictedDay(s, o, c, i)])

(***************************************************************************)
(* evaluate_baseline_rolling_origin: origins a horizon apart, skipped when *)
(* their test days are not all known or no forecast can be made.           *)
(***************************************************************************)
\* (mistake) Every method is tried from its own first possible day.
OwnFirstOrigin(c) == History(c)
FirstOrigin(c) == Max({MinTraining, History(c)})
Origins(s, c) ==
    {o \in FirstOrigin(c) .. (Len(s) - HorizonDays) : (o - FirstOrigin(c)) % HorizonDays = 0}
TestDays(o) == (o + 1) .. (o + HorizonDays)

Folds(s, c) == {o \in Origins(s, c) : AllKnown(s, TestDays(o)) /\ CanForecast(s, o, c)}

\* folds maps every candidate to its folds; with too few it is not evaluated.
EvaluatedOn(folds) == {c \in Candidates : Cardinality(folds[c]) >= MinFolds}

ExclusionReason(s, days) ==
    LET statuses == {s[d].status : d \in days}
    IN  CASE "missing_unknown" \in statuses -> "unknown_target_gap"
          [] "missing_unknown" \notin statuses /\ "stockout_limited" \in statuses ->
                "censored_target"
          [] OTHER -> "product_activity_unconfirmed"

SkipReason(s, o, c) ==
    IF ~AllKnown(s, TestDays(o)) THEN ExclusionReason(s, TestDays(o))
    ELSE IF \A d \in 1 .. o : ~IsKnown(s[d]) THEN "short_history"
    ELSE ExclusionReason(s, Needed(c, o))

UnavailableReasons(s, c) ==
    IF Origins(s, c) = {} THEN {"short_history"}
    ELSE {SkipReason(s, o, c) : o \in Origins(s, c) \ Folds(s, c)} \cup {"insufficient_folds"}

(***************************************************************************)
(* Errors over a set of folds.  The means divide by the same number of     *)
(* folds for every candidate, so sums compare like means.                  *)
(***************************************************************************)
Abs(n) == IF n < 0 THEN -n ELSE n

\* _Directional: what was predicted too much, and what too little.
Over(e) == Sum([x \in DOMAIN e |-> IF e[x] > 0 THEN e[x] ELSE 0])
Under(e) == Sum([x \in DOMAIN e |-> IF e[x] < 0 THEN -e[x] ELSE 0])
AbsoluteError(e) == Sum([x \in DOMAIN e |-> Abs(e[x])])
SquaredError(e) == Sum([x \in DOMAIN e |-> e[x] * e[x]])
Bias(e) == Abs(Over(e) - Under(e))

TotalErrors(s, folds, c, croston) ==
    [o \in folds |-> PredictedTotal(s, o, c, croston) - Scale * Units(s, TestDays(o))]
DayErrors(s, folds, c) ==
    [x \in folds \X (1 .. HorizonDays) |->
        PredictedDay(s, x[1], c, x[2]) - Scale * s[x[1] + x[2]].units]

\* _rmsse_scale is positive: two neighbouring known days of the first training
\* window differ.  All candidates share the scale, so RMSSE ranks like the
\* squared error.
ScaleDefined(s, folds) ==
    \E d \in 2 .. Min(folds) : /\ AllKnown(s, {d - 1, d})
                               /\ s[d - 1].units # s[d].units

(***************************************************************************)
(* The leaderboards compare the evaluated candidates on the folds they     *)
(* share.  zero is a benchmark and cannot win.                             *)
(***************************************************************************)
Rank(c) == CHOOSE i \in 1 .. Len(Simplest) : Simplest[i] = c

Before(c, d, error, bias) ==
    \/ error[c] < error[d]
    \/ error[c] = error[d] /\ bias[c] < bias[d]
    \/ error[c] = error[d] /\ bias[c] = bias[d] /\ Rank(c) < Rank(d)

Best(contenders, error, bias) ==
    IF contenders = {} THEN None
    ELSE CHOOSE c \in contenders : \A d \in contenders \ {c} : Before(c, d, error, bias)

NoBoard(metric) == [entries |-> {}, winner |-> None, metric |-> metric]

WeeklyBoard(s, entries, common, croston) ==
    LET errors == [c \in entries |-> TotalErrors(s, common, c, croston)]
    IN  [entries |-> entries, metric |-> "mean_absolute_total_error",
         winner |-> Best(entries, [c \in entries |-> AbsoluteError(errors[c])],
                                  [c \in entries |-> Bias(errors[c])])]

DailyBoard(s, entries, common) ==
    LET errors == [c \in entries |-> DayErrors(s, common, c)]
        scaled == ScaleDefined(s, common)
    IN  [entries |-> entries, metric |-> IF scaled THEN "rmsse" ELSE "mae",
         winner |-> Best(entries \ {"zero"},
                         [c \in entries |-> IF scaled THEN SquaredError(errors[c])
                                            ELSE AbsoluteError(errors[c])],
                         [c \in entries |-> Bias(errors[c])])]

Common(folds, entries) ==
    {o \in UNION {folds[c] : c \in entries} : \A c \in entries : o \in folds[c]}

\* evaluate_product_baselines.
Report(s, croston) ==
    LET folds == [c \in Candidates |-> Folds(s, c)]
        evaluated == EvaluatedOn(folds)
        Shared(kind) == Common(folds, evaluated \cap kind)
        weekly == IF Cardinality(Shared(Weekly)) < MinFolds THEN NoBoard("mean_absolute_total_error")
                  ELSE WeeklyBoard(s, evaluated \cap Weekly, Shared(Weekly), croston)
        daily == IF Cardinality(Shared(Daily)) < MinFolds THEN NoBoard("rmsse")
                 ELSE DailyBoard(s, evaluated \cap Daily, Shared(Daily))
    IN  [folds |-> folds, weekly |-> weekly, daily |-> daily,
         reasons |-> IF weekly.entries # {} \/ daily.entries # {} THEN {}
                     ELSE UNION {UnavailableReasons(s, c) : c \in Candidates \ evaluated}]

(***************************************************************************)
(* assess_weekly_zero_skill: the winner against forecasting zero, on the   *)
(* weeks both were tried on.  weeks keeps what the winner predicted.       *)
(***************************************************************************)
NoWeeks == [o \in {} |-> 0]
NoEvidence(c) ==
    [status |-> "unavailable", selected |-> c, weeks |-> NoWeeks, error |-> 0, zero_error |-> 0]

ZeroSkill(s, report, croston) ==
    LET c == report.weekly.winner
        shared == report.folds[c] \cap report.folds["zero"]
        error == AbsoluteError(TotalErrors(s, shared, c, croston))
        zero_error == AbsoluteError(TotalErrors(s, shared, "zero", croston))
    IN  IF c # None /\ {c, "zero"} \subseteq EvaluatedOn(report.folds) /\ shared # {}
        THEN [status |-> IF zero_error # 0 /\ error < zero_error THEN "passed" ELSE "failed",
              selected |-> c, weeks |-> [o \in shared |-> PredictedTotal(s, o, c, croston)],
              error |-> error, zero_error |-> zero_error]
        ELSE NoEvidence(c)
=============================================================================
