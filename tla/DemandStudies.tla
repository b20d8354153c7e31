---------------------------- MODULE DemandStudies ----------------------------
(***************************************************************************)
(* The offline studies of the preview policy: the demand of the last weeks *)
(* is held back, the decision of the service on what came before is kept,  *)
(* and each held back week is forecast from the days up to it.             *)
(*                                                                         *)
(* An independent evaluation (independent_evaluation.py) sends the history *)
(* of one business through the service.  A cohort evaluation draws         *)
(* products from public sales (public_data_evaluation.py), evaluates each  *)
(* (locked_evaluation.py), and judges stricter policies on it (the         *)
(* scripts compare_product_demand_sparse_policies.py,                      *)
(* compare_global_consistency_policy.py and                                *)
(* evaluate_sparse_abstention_fresh_cohort.py).                            *)
(***************************************************************************)
EXTENDS ProductDemand

CONSTANTS
    Exports,        \* what a business may export, with the confirmed semantics
    PublicSales,    \* daily sales of the public products
    PerStratum,     \* products drawn from a stratum: 6 or 12
    LateStart,      \* first sale after this day is a delayed start: 365
    HoldoutWeeks,   \* 13
    BlockWeeks,     \* 13
    BlockCount      \* 3

ASSUME StudyAssumption ==
    /\ {PerStratum, HoldoutWeeks, BlockWeeks, BlockCount} \subseteq Nat \ {0}
    /\ LateStart \in Nat
    /\ \A x \in Exports : ProperRows(x.rows) /\ \A r \in x.rows : r.ordered \in Nat
    /\ \A sales \in PublicSales :
        IsFiniteSet(DOMAIN sales) /\ sales \in [DOMAIN sales -> Seq(Nat)]

VARIABLES
    study,      \* [kind, ...]: a plain request, an independent or a cohort evaluation
    scored,     \* product or category -> how its held back weeks went
    outcome     \* what the study concludes

studyVars == <<study, scored, outcome>>

HoldoutDays == HoldoutWeeks * HorizonDays

(***************************************************************************)
(* The held back weeks of a series, o days known before the first.  The    *)
(* method is never chosen again.                                           *)
(***************************************************************************)
Start(o, w) == o + (w - 1) * HorizonDays

\* (mistake) Each week is forecast with its own sales already known.
WeeksAsKnown(s, o, c, croston) ==
    [w \in 1 .. HoldoutWeeks |->
        LET q == Start(o, w) + HorizonDays
        IN  [shown |-> c # None /\ CanForecast(s, q, c),
             predicted |-> IF c # None /\ CanForecast(s, q, c)
                           THEN PredictedTotal(s, q, c, croston) ELSE None,
             actual |-> Scale * Units(s, TestDays(Start(o, w)))]]

Weeks(s, o, c, croston) ==
    [w \in 1 .. HoldoutWeeks |->
        LET q == Start(o, w)
        IN  [shown |-> c # None /\ CanForecast(s, q, c),
             predicted |-> IF c # None /\ CanForecast(s, q, c)
                           THEN PredictedTotal(s, q, c, croston) ELSE None,
             actual |-> Scale * Units(s, TestDays(q))]]

Skipped(reason) == [status |-> "skipped", reason |-> reason]
Assessed(c, weeks) == [status |-> "assessed", selected |-> c, weeks |-> weeks]

\* Every way sba_croston may turn out over the held back weeks.
CrostonAhead(s, o, c) ==
    IF c # "sba_croston" THEN {Nothing}
    ELSE [{q \in {Start(o, w) : w \in 1 .. HoldoutWeeks} : CanForecast(s, q, c)} -> CrostonTotals]

(***************************************************************************)
(* Errors over the shown weeks of some scopes, and whether they beat       *)
(* forecasting zero.  A skill against a perfect zero is undefined.         *)
(***************************************************************************)
ShownWeeks(scopes) ==
    {x \in {k \in scopes : scored[k].status = "assessed"} \X (1 .. HoldoutWeeks) :
        scored[x[1]].weeks[x[2]].shown}

Error(weeks) ==
    Sum([x \in weeks |-> Abs(scored[x[1]].weeks[x[2]].predicted - scored[x[1]].weeks[x[2]].actual)])
ZeroError(weeks) == Sum([x \in weeks |-> scored[x[1]].weeks[x[2]].actual])

Skill(weeks) ==
    IF weeks = {} \/ ZeroError(weeks) = 0 THEN "undefined"
    ELSE IF Error(weeks) < ZeroError(weeks) THEN "positive" ELSE "not_positive"

(***************************************************************************)
(* The independent evaluation.  x = [rows, columns, mode, assumptions,     *)
(* accepted]: the rows as transformed, whether quality, quarantine and     *)
(* transformation let the study begin.  Rows carry ordered, the day of the *)
(* order, by which history and holdout are told apart, and day, on which   *)
(* they are recognised, by which the calendars count them.                 *)
(***************************************************************************)
HoldoutStart(rows) == Max({r.ordered : r \in rows}) - HoldoutDays + 1
HoldoutEnd(rows) == Max({r.ordered : r \in rows})
Historical(rows) ==
    IF rows = {} THEN {} ELSE {r \in rows : r.ordered < HoldoutStart(rows)}

HistoryOf(x) ==
    [data |-> [rows |-> Historical(x.rows), columns |-> x.columns, mode |-> x.mode],
     assumptions |-> x.assumptions, decision_ready |-> TRUE]

Withheld(x) == ~x.accepted \/ Historical(x.rows) = {}

\* The calendars and category candidates of all rows, held back ones included.
FullData(x) == [rows |-> x.rows, columns |-> x.columns, mode |-> x.mode]
FullCalendar(x, k) ==
    IF k \in Usable(Readiness(FullData(x), x.assumptions))
    THEN Calendar(x.rows, x.assumptions, k) ELSE None

FullCandidates(x) ==
    LET ready == Readiness(FullData(x), x.assumptions)
    IN  PrepareCandidates(FullData(x), x.assumptions, ready,
                          [k \in Usable(ready) |-> Calendar(x.rows, x.assumptions, k)], {})
FullSeries(x, c) ==
    LET all == FullCandidates(x)
    IN  IF c \in DOMAIN all THEN all[c].series ELSE None

\* _score_scope.
Scores(analysis, calendar, first, last) ==
    LET s == Series(calendar)
        before == {d \in DOMAIN calendar : d < first}
        c == IF analysis.reason = None THEN analysis.evidence.selected ELSE None
    IN  CASE analysis.reason = "not_evaluated" -> {Skipped("scope_unavailable")}
          [] analysis.reason # "not_evaluated" /\ calendar = None ->
                {Skipped("full_holdout_series_unavailable")}
          [] OTHER ->
                IF ~(first .. last \subseteq DOMAIN calendar)
                   \/ \E d \in first .. last : ~IsKnown(calendar[d])
                THEN {Skipped("incomplete_or_unknown_holdout")}
                ELSE IF before = {} THEN {Skipped("insufficient_history_before_holdout")}
                ELSE {Assessed(c, Weeks(s, Cardinality(before), c, croston)) :
                        croston \in CrostonAhead(s, Cardinality(before), c)}
(***************************************************************************)
(* The cohort evaluation.  Public sales name the daily sales of every      *)
(* product, zeros included; what lies before the first sale is cut off.    *)
(***************************************************************************)
Sold(f) == {d \in DOMAIN f : f[d] > 0}
Active(f) == Len(f) - Min(Sold(f)) + 1

Strata == {"delayed_start", "sparse", "intermittent", "dense"}
Stratum(f) ==
    IF Sold(f) = {} THEN "all_zero"
    ELSE IF Min(Sold(f)) > LateStart THEN "delayed_start"
    ELSE IF 10 * Cardinality(Sold(f)) <= Active(f) THEN "sparse"
    ELSE IF 2 * Cardinality(Sold(f)) <= Active(f) THEN "intermittent" ELSE "dense"

PublicSeries(f) ==
    [i \in 1 .. Active(f) |->
        LET units == f[Min(Sold(f)) + i - 1]
        IN  [status |-> IF units > 0 THEN "observed" ELSE "confirmed_zero", units |-> units]]

\* As many of each stratum as there are, PerStratum at most, by a seeded hash.
Draws(sales, excluded) ==
    LET Of(t) == {p \in DOMAIN sales \ excluded : Stratum(sales[p]) = t}
    IN  {drawn \in SUBSET UNION {Of(t) : t \in Strata} :
            \A t \in Strata :
                Cardinality(drawn \cap Of(t)) = Min({PerStratum, Cardinality(Of(t))})}

\* training_sparse and block_evidence: the latest blocks of weeks of the winner,
\* in each of which it must beat zero.
Sparse(s) == 10 * Cardinality({d \in DOMAIN s : s[d].units > 0}) <= Len(s)

Consistent(s, report, croston) ==
    LET c == report.weekly.winner
        shared == report.folds[c] \cap report.folds["zero"]
        Block(b) == {o \in shared : Cardinality({q \in shared : q > o}) \div BlockWeeks = b}
        Wrong(d, b) == AbsoluteError(TotalErrors(s, Block(b), d, croston))
    IN  /\ c # None
        /\ Cardinality(shared) >= BlockWeeks * BlockCount
        /\ \A b \in 0 .. BlockCount - 1 : Wrong(c, b) < Wrong("zero", b)

Ready == [status |-> "ready", reasons |-> {}, unit |-> None]

\* evaluate_locked_holdout and initial_decisions, on the series s of a product of
\* the stratum t.  A cohort's series are long: to bound the ways they may turn out,
\* sba_croston predicts one total throughout.
HeldBack(s, t) ==
    LET o == Len(s) - HoldoutDays
        history == SubSeq(s, 1, o)
        Method(report, evidence) ==
            IF PolicyReason(Ready, report, evidence) = None THEN evidence.selected ELSE None
        Judged(report, croston) ==
            LET c == Method(report, ZeroSkill(history, report, croston))
            IN  [stratum |-> t, sparse |-> Sparse(history),
                 consistent |-> Consistent(history, report, croston),
                 status |-> "assessed", selected |-> c, weeks |-> Weeks(s, o, c, croston)]
    IN  IF o <= 0
        THEN {[stratum |-> t, status |-> "skipped",
               reason |-> "insufficient_history_before_locked_holdout"]}
        ELSE {Judged(Report(history, croston), croston) :
                croston \in {[q \in 1 .. Len(s) |-> total] : total \in CrostonTotals}}

\* _gate_status of the locked evaluation.
InStratum(t) == {p \in DOMAIN scored : scored[p].stratum = t}
Drawn == {scored[p].stratum : p \in DOMAIN scored}

LockedGate ==
    LET overall == Skill(ShownWeeks(DOMAIN scored))
        strata == {Skill(ShownWeeks(InStratum(t))) : t \in Drawn}
    IN  IF "not_positive" \in strata \cup {overall} THEN "failed"
        ELSE IF "undefined" \in strata \cup {overall} THEN "inconclusive" ELSE "passed"

\* The stricter policies: what they keep of the previews, and what they remove.
Policies == {"sparse_abstention", "global_consistency"}
Assessments == {p \in DOMAIN scored : scored[p].status = "assessed"}
Allowed == {p \in Assessments : scored[p].selected # None}
Permitted(policy) ==
    {p \in Allowed :
        CASE policy = "sparse_abstention" -> ~scored[p].sparse
          [] policy = "global_consistency" -> scored[p].consistent}

Retained(policy) == ShownWeeks(Permitted(policy))
Removed(policy) == ShownWeeks(Allowed \ Permitted(policy))

Failing(weeks) == weeks # {} /\ Skill(weeks) # "positive"
KeepsFailures(policy) ==
    \/ Failing(Retained(policy))
    \/ \E t \in Drawn : Failing(ShownWeeks(Permitted(policy) \cap InStratum(t)))

\* (mistake) What a policy removes is not looked at.
RetainedGate(policy) ==
    CASE Assessments # DOMAIN scored -> "error"
      [] Assessments = DOMAIN scored /\ KeepsFailures(policy) -> "failed"
      [] OTHER -> IF {} \in {Retained(policy), Removed(policy)} THEN "inconclusive" ELSE "passed"

\* A policy must keep nothing that failed, remove something, and remove nothing
\* that beat zero.  A product with too little history stops the comparison.
PolicyGate(policy) ==
    CASE Assessments # DOMAIN scored -> "error"
      [] Assessments = DOMAIN scored
         /\ (KeepsFailures(policy) \/ Skill(Removed(policy)) = "positive") -> "failed"
      [] OTHER -> IF {} \in {Retained(policy), Removed(policy)} THEN "inconclusive" ELSE "passed"

(***************************************************************************)
(* The studies as steps.                                                   *)
(***************************************************************************)
Request == [kind |-> "request"]

StudyInit ==
    /\ Idle
    /\ scored = Nothing
    /\ outcome = None
    /\ \/ input \in Inputs /\ study = Request
       \/ \E x \in Exports : input = HistoryOf(x) /\ study = [kind |-> "independent", export |-> x]
       \/ \E f \in PublicSales : input = None /\ study = [kind |-> "cohort", sales |-> f, drawn |-> None]

\* The service, at work for a user or for the independent evaluation.
Serve ==
    /\ study.kind # "cohort"
    /\ study.kind = "independent" => ~Withheld(study.export)
    /\ Next
    /\ UNCHANGED studyVars

Withhold ==
    /\ study.kind = "independent" /\ Withheld(study.export)
    /\ outcome = None
    /\ outcome' = [products |-> "inconclusive", categories |-> "inconclusive"]
    /\ UNCHANGED <<vars, study, scored>>

Category(c) == <<"category", c>>

ScoreProduct(k) ==
    /\ study.kind = "independent"
    /\ pc = "done" /\ status # "server_error"
    /\ k \in DOMAIN products \ DOMAIN scored
    /\ LET rows == study.export.rows
       IN  \E result \in Scores(products[k], FullCalendar(study.export, k),
                                HoldoutStart(rows), HoldoutEnd(rows)) :
                scored' = With(scored, k, result)
    /\ UNCHANGED <<vars, study, outcome>>

ScoreCategory(c) ==
    /\ study.kind = "independent"
    /\ pc = "done" /\ status # "server_error"
    /\ c \in DOMAIN categories /\ Category(c) \notin DOMAIN scored
    /\ LET rows == study.export.rows
       IN  \E result \in Scores(categories[c], FullSeries(study.export, c),
                                HoldoutStart(rows), HoldoutEnd(rows)) :
                scored' = With(scored, Category(c), result)
    /\ UNCHANGED <<vars, study, outcome>>

\* _evidence_state.
Evidence(scopes) ==
    CASE Skill(ShownWeeks(scopes)) = "positive" -> "consistent_external_evidence"
      [] Skill(ShownWeeks(scopes)) = "not_positive" -> "observed_limitation"
      [] OTHER -> "inconclusive"

ConcludeIndependent ==
    /\ study.kind = "independent"
    /\ pc = "done" /\ status # "server_error"
    /\ outcome = None
    /\ DOMAIN scored = DOMAIN products \cup {Category(c) : c \in DOMAIN categories}
    /\ outcome' = [products |-> Evidence(DOMAIN products),
                   categories |-> Evidence({Category(c) : c \in DOMAIN categories})]
    /\ UNCHANGED <<vars, study, scored>>

\* A fresh cohort has none of the products drawn and scored before.
Draw ==
    /\ study.kind = "cohort" /\ study.drawn = None
    /\ \E before \in {{}} \cup Draws(study.sales, {}) :
       \E drawn \in Draws(study.sales, before) \ {{}} :
            study' = [study EXCEPT !.drawn = drawn]
    /\ UNCHANGED <<vars, scored, outcome>>

EvaluateHeldBack(p) ==
    /\ study.kind = "cohort" /\ study.drawn # None
    /\ p \in study.drawn \ DOMAIN scored
    /\ \E result \in HeldBack(PublicSeries(study.sales[p]), Stratum(study.sales[p])) :
            scored' = With(scored, p, result)
    /\ UNCHANGED <<vars, study, outcome>>

ConcludeCohort ==
    /\ study.kind = "cohort" /\ study.drawn # None
    /\ DOMAIN scored = study.drawn
    /\ outcome = None
    /\ outcome' = [locked |-> LockedGate,
                   policies |-> [policy \in Policies |-> PolicyGate(policy)]]
    /\ UNCHANGED <<vars, study, scored>>

StudyNext ==
    \/ Serve \/ Withhold \/ ConcludeIndependent \/ Draw \/ ConcludeCohort
    \/ \E k \in DOMAIN products : ScoreProduct(k)
    \/ \E c \in DOMAIN categories : ScoreCategory(c)
    \/ study.kind = "cohort" /\ \E p \in DOMAIN study.sales : EvaluateHeldBack(p)

StudySpec == StudyInit /\ [][StudyNext]_<<vars, studyVars>>

(***************************************************************************)
(* What should hold.                                                       *)
(***************************************************************************)
\* What the independent evaluation scores in its first week is the estimate that
\* the service shows on the history, where the history reaches up to that week
\* and no order is recognised on the other side: the calendars of the whole
\* export and of its history agree on the past, for products and for categories.
Divided == \A r \in study.export.rows :
                r.ordered < HoldoutStart(study.export.rows) <=>
                    r.day < HoldoutStart(study.export.rows)
UpToDate(k) == Max(DOMAIN calendars[k]) = HoldoutStart(study.export.rows) - 1

ScoredAs(scope, analysis) ==
    scope \in DOMAIN scored /\ scored[scope].status = "assessed" /\ analysis.reason = None =>
        /\ scored[scope].selected = analysis.evidence.selected
        /\ scored[scope].weeks[1].shown
        /\ analysis.evidence.selected # "sba_croston" =>
                scored[scope].weeks[1].predicted = analysis.forecast

ScoredAsShown ==
    study.kind = "independent" /\ Divided =>
        /\ \A k \in DOMAIN products \cap DOMAIN calendars :
                UpToDate(k) => ScoredAs(k, products[k])
        /\ \A c \in ShownCategories :
                (\A k \in candidates[c].members : UpToDate(k)) =>
                    ScoredAs(Category(c), categories[c])

\* A stricter policy that passes its gate is closer to the truth, relative to
\* what was sold, than the present policy on the same cohort: it pays to drop
\* what it drops.
PassedPolicyImproves ==
    study.kind = "cohort" /\ outcome # None =>
        \A policy \in Policies :
            LET kept == Retained(policy)
                shown == ShownWeeks(Allowed)
            IN  outcome.policies[policy] = "passed" =>
                    /\ Error(kept) < ZeroError(kept)
                    /\ Error(kept) * ZeroError(shown) <= Error(shown) * ZeroError(kept)

-----------------------------------------------------------------------------
\* "Evaluate frozen previews against the final unseen business history."
\* (independent_evaluation.py:162)
HoldoutIsUnseen ==
    study.kind = "independent" =>
        \A k \in DOMAIN calendars : \A d \in DOMAIN calendars[k] :
            d < HoldoutStart(study.export.rows)
=============================================================================
