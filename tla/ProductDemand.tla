--------------------------- MODULE ProductDemand ---------------------------
(***************************************************************************)
(* One product-demand request (api/routes.py, src/product_demand/          *)
(* service.py, trust_policy.py and category_fallback.py): the rows of an   *)
(* analysis become daily series, every product is evaluated on its own and *)
(* gets an estimate only if it passes the gates, and a category gets one   *)
(* only where none of its products does.                                   *)
(*                                                                         *)
(* A product is a scope <<"id", x>> or <<"name", x>>, a category is the    *)
(* scope <<"category", c>>.                                                *)
(***************************************************************************)
EXTENDS DemandEvaluation, DemandCategories

CONSTANTS
    Inputs,             \* what an analysis may hold and a user may confirm
    CrostonTotals,      \* what sba_croston may predict, in units of 1 / Scale
    MinPreviewFolds     \* MINIMUM_PREVIEW_FOLDS: 13

\* Days are numbered; quantities are counted in the smallest part of a unit.
ProperRows(rows) ==
    /\ IsFiniteSet(rows)
    /\ \A r \in rows : r.day \in Nat /\ r.quantity \in Int \cup {None}

ASSUME PreviewAssumption ==
    /\ MinPreviewFolds \in Nat \ {0}
    /\ CrostonTotals \subseteq Nat
    /\ CrostonTotals # {}
    /\ \A i \in Inputs : ProperRows(i.data.rows)

VARIABLES
    input,          \* [data, assumptions, decision_ready]
    pc,             \* how far the request has come
    readiness,      \* ProductDemandReadinessReport
    calendars,      \* product -> calendar, for usable products
    products,       \* product -> ProductDemandProductAnalysis, as far as analysed
    candidates,     \* category -> CategoryFallbackCandidate
    categories,     \* category -> ProductDemandCategoryAnalysis, as far as analysed
    category_reasons,   \* category_dataset_reason_codes
    status          \* what the request is answered with

vars == <<input, pc, readiness, calendars, products, candidates, categories,
          category_reasons, status>>

data == input.data
assumptions == input.assumptions

Nothing == [x \in {} |-> None]
With(f, k, v) == [x \in DOMAIN f \cup {k} |-> IF x = k THEN v ELSE f[x]]

Idle ==
    /\ pc = "request"
    /\ readiness = [products |-> NoProducts, unresolved |-> 0, reasons |-> {}]
    /\ calendars = Nothing
    /\ products = Nothing
    /\ candidates = Nothing
    /\ categories = Nothing
    /\ category_reasons = {}
    /\ status = None

Init == input \in Inputs /\ Idle

(***************************************************************************)
(* assess_product_demand_trust, gate by gate.                              *)
(***************************************************************************)
PolicyReasons ==
    {"unsafe_semantics", "no_weekly_winner", "zero_skill_evidence_unavailable",
     "insufficient_shared_folds", "non_positive_zero_skill", "final_forecast_unavailable"}

\* None stands for no reason, and for no answer yet.
ASSUME ReasonAssumption == None \notin PolicyReasons \cup {"not_evaluated", "server_error"}

SemanticBlockers == {"stockout_data_unavailable", "incomplete_daily_coverage"}

\* (mistake) Skill over however few weeks is enough.
SkillIsEnough(ready, report, evidence) ==
    IF ready.status = "unavailable" \/ ready.reasons \cap SemanticBlockers # {}
    THEN "unsafe_semantics"
    ELSE IF report = None \/ report.weekly.winner = None
    THEN "no_weekly_winner"
    ELSE IF evidence.status = "unavailable" THEN "zero_skill_evidence_unavailable"
    ELSE IF evidence.status = "failed" THEN "non_positive_zero_skill" ELSE None

PolicyReason(ready, report, evidence) ==
    IF ready.status = "unavailable" \/ ready.reasons \cap SemanticBlockers # {}
    THEN "unsafe_semantics"
    ELSE IF report = None \/ report.weekly.winner = None
    THEN "no_weekly_winner"
    ELSE IF evidence.status = "unavailable" THEN "zero_skill_evidence_unavailable"
    ELSE IF Cardinality(DOMAIN evidence.weeks) < MinPreviewFolds THEN "insufficient_shared_folds"
    ELSE IF evidence.status = "failed" THEN "non_positive_zero_skill" ELSE None

\* The last step of an analysis forecasts from all days there are; an allowed
\* preview is withdrawn (block_final_product_demand_forecast) when it cannot.
NoAnalysis(ready) ==
    [reason |-> PolicyReason(ready, None, None), report |-> None, evidence |-> None,
     forecast |-> None]

Analysis(ready, s, croston) ==
    LET report == Report(s, croston)
        evidence == ZeroSkill(s, report, croston)
        reason == PolicyReason(ready, report, evidence)
        c == evidence.selected
    IN  [report |-> report, evidence |-> evidence,
         reason |-> IF reason = None /\ ~CanForecast(s, Len(s), c)
                    THEN "final_forecast_unavailable" ELSE reason,
         forecast |-> IF reason = None /\ CanForecast(s, Len(s), c)
                      THEN PredictedTotal(s, Len(s), c, croston) ELSE None]

\* Every way sba_croston may turn out, at the origins where it can be used.
Croston(s) ==
    [{o \in Folds(s, "sba_croston") \cup {Len(s)} : CanForecast(s, o, "sba_croston")}
        -> CrostonTotals]

Shown == {k \in DOMAIN products : products[k].reason = None}

(***************************************************************************)
(* The request.                                                            *)
(***************************************************************************)
\* The route refuses an analysis whose quality does not support decisions.
Refuse ==
    /\ pc = "request"
    /\ ~input.decision_ready
    /\ pc' = "done"
    /\ status' = "unavailable"
    /\ readiness' = [readiness EXCEPT !.reasons = {"insufficient_data_quality"}]
    /\ UNCHANGED <<input, calendars, products, candidates, categories, category_reasons>>

\* (mistake) Unusable products get a calendar too.
CalendarsForAll ==
    /\ pc = "request"
    /\ input.decision_ready
    /\ LET ready == Readiness(data, assumptions)
       IN  /\ readiness' = ready
           /\ calendars' = [k \in DOMAIN ready.products |-> Calendar(data.rows, assumptions, k)]
    /\ pc' = "products"
    /\ UNCHANGED <<input, products, candidates, categories, category_reasons, status>>

BuildCalendar ==
    /\ pc = "request"
    /\ input.decision_ready
    /\ LET ready == Readiness(data, assumptions)
       IN  /\ readiness' = ready
           /\ calendars' = [k \in Usable(ready) |-> Calendar(data.rows, assumptions, k)]
    /\ pc' = "products"
    /\ UNCHANGED <<input, products, candidates, categories, category_reasons, status>>

\* One product after the other; none sees another's result.
AnalyzeProduct(k) ==
    /\ pc = "products"
    /\ k \in DOMAIN readiness.products \ DOMAIN products
    /\ \/ /\ k \notin DOMAIN calendars
          /\ products' = With(products, k, NoAnalysis(readiness.products[k]))
       \/ /\ k \in DOMAIN calendars
          /\ LET s == Series(calendars[k])
             IN  \E croston \in Croston(s) :
                    products' = With(products, k, Analysis(readiness.products[k], s, croston))
    /\ UNCHANGED <<input, pc, readiness, calendars, candidates, categories,
                   category_reasons, status>>

\* When every product has its estimate there is nothing to fall back for.
PrepareCategories ==
    /\ pc = "products"
    /\ DOMAIN products = DOMAIN readiness.products
    /\ pc' = "categories"
    /\ IF DOMAIN products # {} /\ Shown = DOMAIN products
       THEN UNCHANGED <<candidates, category_reasons>>
       ELSE /\ candidates' = PrepareCandidates(data, assumptions, readiness, calendars, Shown)
            /\ category_reasons' = DatasetReasons(data, assumptions)
    /\ UNCHANGED <<input, readiness, calendars, products, categories, status>>

\* A category goes through the same gates; its readiness is made up to be ready.
CategoryReady == [status |-> "ready", reasons |-> {}, unit |-> None]

NotAnalyzed == [reason |-> "not_evaluated", report |-> None, evidence |-> None, forecast |-> None]

AnalyzeCategory(c) ==
    /\ pc = "categories"
    /\ c \in DOMAIN candidates \ DOMAIN categories
    /\ \/ /\ candidates[c].reasons # {}
          /\ categories' = With(categories, c, NotAnalyzed)
       \/ /\ candidates[c].reasons = {}
          /\ LET s == Series(candidates[c].series)
             IN  \E croston \in Croston(s) :
                    categories' = With(categories, c, Analysis(CategoryReady, s, croston))
    /\ UNCHANGED <<input, pc, readiness, calendars, products, candidates,
                   category_reasons, status>>

ShownCategories == {c \in DOMAIN categories : categories[c].reason = None}

(***************************************************************************)
(* The result classes check what they are given and raise ValueError,      *)
(* which no route catches: the request then fails as a whole.              *)
(***************************************************************************)
\* EvaluationSeriesPoint, EvaluationSeries: a known day has a target, zero where zero
\* was confirmed, and no other day has one.
SeriesContract(s) ==
    /\ s # <<>>
    /\ \A i \in DOMAIN s :
        /\ s[i].status \in Known <=> s[i].units # None
        /\ s[i].status \in Known => s[i].units >= 0
        /\ s[i].status = "confirmed_zero" => s[i].units = 0

\* RollingOriginFold, BaselineForecast: nothing negative, and days that add up.
FoldContract(s, o, c) ==
    /\ \A d \in TestDays(o) : s[d].units >= 0
    /\ c \in Candidates \ {"sba_croston"} => PredictedTotal(s, o, c, NoWeeks) >= 0
    /\ c \in Daily =>
        LET predictions == [i \in 1 .. HorizonDays |-> PredictedDay(s, o, c, i)]
        IN  /\ \A i \in 1 .. HorizonDays : predictions[i] >= 0
            /\ Sum(predictions) = PredictedTotal(s, o, c, NoWeeks)

\* SkippedRollingOriginFold: some day excuses the skipping.
Excuses(s, o, c) ==
    LET Unknown(days) == {d \in days : ~IsKnown(s[d])}
    IN  IF ~AllKnown(s, TestDays(o)) THEN Unknown(TestDays(o))
        ELSE IF Unknown(1 .. o) = 1 .. o THEN 1 .. o ELSE Unknown(Needed(c, o))

\* RollingOriginEvaluation, CandidateEvaluation.
EvaluationContract(s, report) ==
    \A c \in Candidates :
        /\ \A o \in report.folds[c] : FoldContract(s, o, c)
        /\ \A o \in Origins(s, c) \ report.folds[c] : Excuses(s, o, c) # {}
        /\ c \in EvaluatedOn(report.folds) \/ UnavailableReasons(s, c) # {}

BoardContract(board, report, kind) ==
    board.winner # None =>
        /\ board.winner \in board.entries \ {"zero"}
        /\ board.winner \in EvaluatedOn(report.folds) \cap kind

EvidenceContract(e) ==
    e.status # "unavailable" =>
        /\ e.selected \notin {None, "zero"}
        /\ DOMAIN e.weeks # {}
        /\ e.error >= 0 /\ e.zero_error >= 0
        /\ e.status = "passed" <=> e.zero_error # 0 /\ e.zero_error - e.error > 0

TrustContract(x) ==
    x.reason = None =>
        /\ x.evidence.selected \in Weekly
        /\ Cardinality(DOMAIN x.evidence.weeks) >= MinPreviewFolds
        /\ x.evidence.zero_error > x.evidence.error

AnalysisContract(x, s) ==
    /\ x.report # None => /\ SeriesContract(s)
                          /\ EvaluationContract(s, x.report)
                          /\ BoardContract(x.report.weekly, x.report, Weekly)
                          /\ BoardContract(x.report.daily, x.report, Daily)
                          /\ EvidenceContract(x.evidence)
    /\ TrustContract(x)
    /\ x.forecast # None <=> x.reason = None
    /\ x.forecast # None => x.forecast >= 0

\* CategoryFallbackCandidate.
CandidateContract(x) ==
    x.reasons = {} => \A k \in x.members : UnitOf(readiness, k) # None

ProductSeries(k) == IF k \in DOMAIN calendars THEN Series(calendars[k]) ELSE None
CandidateSeries(c) == IF candidates[c].reasons = {} THEN Series(candidates[c].series) ELSE None

ResultContract ==
    /\ \A k \in DOMAIN products : AnalysisContract(products[k], ProductSeries(k))
    /\ \A c \in DOMAIN candidates : CandidateContract(candidates[c])
    /\ \A c \in DOMAIN categories : AnalysisContract(categories[c], CandidateSeries(c))
    /\ DOMAIN products = DOMAIN readiness.products
    /\ \A c \in ShownCategories : candidates[c].members \cap Shown = {}

Status ==
    IF Shown = {} /\ ShownCategories = {} THEN "unavailable"
    ELSE IF Shown = DOMAIN products /\ ShownCategories = {} /\ readiness.unresolved = 0
    THEN "preview_available" ELSE "partial_preview"

Answer ==
    /\ pc = "categories"
    /\ DOMAIN categories = DOMAIN candidates
    /\ pc' = "done"
    /\ status' = IF ResultContract THEN Status ELSE "server_error"
    /\ UNCHANGED <<input, readiness, calendars, products, candidates, categories,
                   category_reasons>>

Next ==
    \/ Refuse \/ BuildCalendar \/ PrepareCategories \/ Answer
    \/ \E k \in DOMAIN readiness.products : AnalyzeProduct(k)
    \/ \E c \in DOMAIN candidates : AnalyzeCategory(c)

Spec == Init /\ [][Next]_vars

(***************************************************************************)
(* What should hold.                                                       *)
(***************************************************************************)
\* The shape of the request's state: results only for products and categories
\* that were identified, calendars for exactly the usable products.
TypeOK ==
    /\ pc \in {"request", "products", "categories", "done"}
    /\ status \in {None, "unavailable", "partial_preview", "preview_available", "server_error"}
    /\ DOMAIN calendars = Usable(readiness)
    /\ DOMAIN products \subseteq DOMAIN readiness.products
    /\ DOMAIN categories \subseteq DOMAIN candidates

\* The weeks kept in an analysis of the series s carry its estimate: at least
\* MinPreviewFolds weeks that do not overlap, every day of them known, all after
\* the minimum training, on which the method was closer than predicting nothing.
Earned(x, s) ==
    LET weeks == DOMAIN x.evidence.weeks
        Actual(o) == Scale * Units(s, TestDays(o))
    IN  /\ Cardinality(weeks) >= MinPreviewFolds
        /\ \A o \in weeks : o >= MinTraining /\ o + HorizonDays <= Len(s)
                            /\ AllKnown(s, TestDays(o))
        /\ \A o, q \in weeks : o # q => TestDays(o) \cap TestDays(q) = {}
        /\ Sum([o \in weeks |-> Abs(x.evidence.weeks[o] - Actual(o))])
             < Sum([o \in weeks |-> Abs(0 - Actual(o))])

\* Whoever is shown an estimate, product or category, has earned it.
ShownEstimateIsEarned ==
    /\ \A k \in Shown : Earned(products[k], Series(calendars[k]))
    /\ \A c \in ShownCategories : Earned(categories[c], Series(candidates[c].series))

\* As soon as one weekly method could be tried often enough the board has a
\* winner, zero was tried on every week the winner was, and so the gate against
\* zero always has its evidence: the folds of the methods never fall apart,
\* whatever days are unknown.
Comparable(x, s) ==
    x.report # None =>
        /\ EvaluatedOn(x.report.folds) \cap Weekly # {} => x.report.weekly.winner # None
        /\ x.report.weekly.winner # None =>
             /\ x.evidence.status # "unavailable"
             /\ DOMAIN x.evidence.weeks = Folds(s, x.report.weekly.winner)

EvidenceIsComparable ==
    /\ \A k \in DOMAIN products \cap DOMAIN calendars :
            Comparable(products[k], Series(calendars[k]))
    /\ \A c \in DOMAIN categories :
            candidates[c].reasons = {} =>
                Comparable(categories[c], Series(candidates[c].series))

\* On every known day the series of a category counts each unit sold in the
\* category once, whoever sold it: no product outside it, none left out, none
\* counted here and in another category.
CategoryCountsEverySale ==
    \A c \in DOMAIN candidates :
        LET s == candidates[c].series
            Sold(d) == {r \in data.rows : r.category = c /\ r.day = d}
        IN  candidates[c].reasons = {} =>
                \A d \in DOMAIN s : s[d].status \in Known => s[d].units = Fulfilled(Sold(d))

\* No result class refuses what the request has put together, so that no product
\* takes the answer away from the others, and no category is shown beside one of
\* its own products.
NoRejectedResult == status # "server_error"
=============================================================================
