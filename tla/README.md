# Formal models of the e-commerce sales intelligence system

A seller uploads a sales file as a guest, maps its columns, has its rows
checked, agrees to what is wrong with them, and gets a dashboard, reports, a
forecast and a product-demand preview. Nothing is persisted: uploads and
analyses live in the memory of one API process for a limited time, bound to an
anonymous guest session. These modules model that system in TLA+, check it with
TLC on small instances and prove the parts that matter most with TLAPS.

Paths below are relative to the repository (`api/...`, `frontend/src/...`,
`src/...`). `PROJECT.json` maps every definition to the lines it stands for.

## 1. The system: components, state, operations, interactions

| component | state | operations | shares or calls |
|---|---|---|---|
| upload store, `api/upload_store.py` | dict of uploads with owner and deadline, under a lock | create, get, delete, cleanup_expired, clear | called by route threads and by the cleanup task |
| analysis store, `api/analysis_store.py` | the same, for reports | the same | the same |
| guest sessions, `api/guest_session.py` | dict of sessions, each with a fixed deadline | resolve, pop_expired, clear | called by the middleware for every request |
| upload rate limiter, `api/rate_limit.py` | per scope, a deque of admitted attempts | consume, drop_owner, cleanup_expired, clear | `preview_upload`; the cleanup task drops scopes of expired sessions |
| API service, `api/main.py`, `api/routes.py` | the browser's cookie; requests in flight | middleware, fifteen routes, cleanup task once a minute, lifespan | everything above |
| sales workspace, `frontend/src/App.tsx`, `BusinessWorkspace.tsx`, `api.ts` | React state of the wizard and the dashboard; one id in sessionStorage | about twenty handlers, most of them asynchronous | the API, over a network that may fail |
| sales validation and transformation, `src/generic_sales/` | none (functions of a data frame) | row issues, gate, quarantine, order totals and discounts | called between two store calls of the analyze route |
| analytics, forecasting, reporting, `src/generic_sales/` | none | metrics, candidate models, rolling origins | the same |
| diagnostics, `src/diagnostics/` | none | period comparison, contributions, unusual changes, recommendations | called while the report is built |
| product demand preview, `src/product_demand/service.py` and the modules it calls | none between requests; within one, results product by product | readiness, calendars, rolling evaluation, leaderboards, gates, category fallback, checks of the result classes | the product-demand route, the offline studies |
| offline studies, `independent_evaluation.py`, `locked_evaluation.py`, `public_data_evaluation.py`, `scripts/` | none | hold back the last weeks, freeze the decision, score it week by week, judge stricter policies | call the service or its parts |
| evaluation metrics, `api/analysis_observability.py` | counters, a bounded window of latencies | record, snapshot | the analyze route |

What is hard, and what makes each part correct:

* **Stores.** A call reads the clock, then waits for the lock: other calls and
  time fall between. Correct means that only the owner ever learns of an entry,
  that no entry is shown to a call begun after its deadline, that none is lost
  before it, and that every entry is freed in the end.
* **Rate limiter.** A sliding window purged by calls in any order. Correct means
  at most `Limit` admissions in *any* window, a `Retry-After` that is enough in
  spite of its rounding to seconds, and no key that stays for ever.
* **API service.** The guest scope is resolved once, when a request arrives, and
  used after awaits and thread hops, while the session expires, the cookie
  changes, the cleanup sweeps or the process restarts. Correct means isolation
  between browsers, analyses in the scope of their uploads, sessions that never
  come back, and everything gone once requests stop.
* **Workspace.** Each handler does something with an answer that may come after
  the user has edited, replaced or left what it was about. Correct means that
  the consent a seller gives is for what is analysed, that no spinner is left
  behind, and that a replaced analysis does not come back.
* **Product demand.** An estimate is shown only to who earned it, so the
  evidence must be what it claims to be: separate weeks, wholly known, the same
  for the method and for the benchmark, whatever days are unknown. A category
  stands in for products that have none, so that it must count every sale once
  and never stand beside a product's own number. The result classes check all
  this again and raise when they disagree, which takes the whole answer away.
* **Studies.** They decide whether the policy above is kept, so the estimates
  they score must be the ones that were shown, made without what is held back,
  and a policy that passes must be an improvement.
* **Pipeline and forecasts.** Pure functions with delicate boundaries: rounding
  before thresholds, remainders of shared discounts, history lengths that decide
  how many rolling origins there are, skill against a perfect benchmark.

The full list, line by line, with the property that covers each entry or the
reason why none does, is under `hazards` in `PROJECT.json`.

## 2. Plan

| order | module | content | state |
|---|---|---|---|
| 1 | `ScopedStore`, `TempStore`, `TempStoreProofs` | abstract promise of a store; the threaded store; invariants and refinement proved | done |
| 2 | `RateLimiter`, `RateLimiterProofs` | sliding window; rolling limit and retry proved | done |
| 3 | `GuestService`, `MCGuestService` | composition of sessions, stores, limiter, requests, cleanup | done |
| 4 | `Workspace`, `MCWorkspace` | the frontend's handlers | done |
| 5 | `GuestServiceProofs`, `WorkspaceProofs` | their safety properties for any number of browsers, requests and handlers | done |
| 6 | `SalesPipeline`, `MCSalesPipeline`, `SalesPipelineProofs` | row issues, the gate's order of refusals, quarantine as a partition of the rows, first accepted row of an order, discount shares against a reference sum, readiness thresholds | done |
| 7 | `DecisionSupport`, `MCDecisionSupport`, `DecisionSupportProofs` | eligibility, candidates and rolling origins of the forecast as the history grows; complete months, comparison, unusual changes and their ranking | done |
| 8 | `DemandCalendar`, `DemandCategories`, `DemandEvaluation`, `ProductDemand` | one demand request: rows to calendars, category series, rolling evaluation, gates, fallback, result checks | done |
| 9 | `DemandStudies`, `MCProductDemand` | the independent evaluation and the cohort evaluation around it | done |
| 10 | `DemandEvaluationProofs`, `ProductDemandProofs` | the evaluation for every series; the request and the studies for any rows and cohorts | done |
| 11 | `ProductDemandPanel` in `Workspace`; `Observability` | the panel's late result; the bounded latency window | left out, section 7 |

`GuestService` instantiates `RateLimiter` as it is (its scopes are the session
ids) and uses the stores as atomic values, which the refinement of `ScopedStore`
by `TempStore` justifies. The pipeline modules are about one upload at a time:
`GuestService` needs only whether the pipeline refuses. `DemandStudies` extends
`ProductDemand`: the independent evaluation runs the very service (`Serve`) on
the history of an export, and the cohort evaluation uses its operators. The
sums of the demand modules are cardinalities of sets of units, which can be
reasoned about without induction.
Modules to be proved about hold no RECURSIVE operator, name their assumptions,
and have one action per operation.

## 3. Modules and code

**`ScopedStore`** is the abstract specification: an id is issued, held and gone;
it is shown to its owner while held; it stops being held when due, withdrawn or
shut down. It has no locks, no clock readings and no cleanup task.

**`TempStore`** is `TemporaryUploadStore`, one action per stretch between two
points where another thread can run. `create` reads the clock and makes the
token (`BeginCreate`) before it takes the lock (`FinishCreate`: sweep *with the
old reading*, insert). `get` reads the clock (`BeginGet`) before the lock
(`GetMisses`, `GetFindsExpired`, `GetFinds`: owner before deadline). `delete` and
`cleanup_expired` do all under the lock. `clear` runs in the lifespan when
requests are drained. `born` and `withdrawn` are history. The analysis store has
the same control and is represented by the same module; only what is stored
differs, and is opaque here. Both classes take the same locks around the same
steps.

**`RateLimiter`** is `RateLimiter` of `api/rate_limit.py`. All its callers run on
the event loop, so a call is one step. Instants are half seconds in the run
(`Second = 2`), so that `ceil` is not the identity. `log` and `retry` are history:
all admissions since the scope was last dropped, and what the last 429 promised.

**`GuestService`** is `api/main.py` with `api/routes.py`. `Arrive` is the
middleware up to `call_next`; the routes continue in steps separated by the
points where they leave the event loop or return to it; `Respond` is the
middleware after `call_next` and sets the cookie; `LoseResponse` is a connection
that is gone by then. `Sweep` and `SweepLimiter` are
`cleanup_expired_temporary_data`, split where its clock readings may differ.
`Restart` is a crash or an orderly stop: every store is empty, browsers keep
their cookies. Random tokens are fresh ids. Read-only endpoints on an upload are
the load step of an analyze that is refused afterwards; the analysis pipeline is
one nondeterministic outcome: it stores (`StoreAnalysis`), refuses (`Reject`) or
fails on what no route catches (`Crash`), as the division in
`transformation.py:297` does. A view of an analysis may be refused or fail as
well. A failed request is answered 500 without a cookie. The status `"400"`
stands for any refusal of what was sent (400, 409, 413, 422). A browser may ask
for any id that exists.

**`Workspace`** is `App.tsx` and `BusinessWorkspace.tsx`. `ui` is the state of the
mounted component; `task[k]` is a handler that awaits an answer, with what its
closure captured. Settings (mode, mapping, dates, currency: whatever
`invalidateReview` guards) and rules (status classes, discounts, tolerances) are
two small sets. Every request may fail. Leaving with Back unmounts the
component: of the handlers in flight only an analysis has effects outside it,
and goes on. Reload keeps sessionStorage only. `quarantineConfirmed` is a
boolean in the code; the model keeps which review was on screen when it was
ticked. Error texts, the latest-period choice and the sample's label are left
out; the API is any server that answers or fails.

**`SalesPipeline`** is `src/generic_sales` behind the two routes that use it. A
row is a function from the mapped fields to cells; a cell is a value, `Blank`, or
`Bad` (it does not parse as what its field needs), and "other" stands for all
columns that are only compared for duplicates. `Issues` is `validate_sales_data`
row by row and order by order, `Outcome` the checks of `transform_sales_data` in
their order, `Transform` its result. `ValidateUploadData` and `AnalyzeUploadData`
are the routes: the second validates again by itself. Amounts are integers and
divisions round down, where the code has decimals of 28 digits: rounding is
coarser here, so what must add up in spite of it is tested harder. Status values
stand for their classification (`Bad`: nobody classified it). Warnings, repair
advice, product columns, shipping and date formats are left out.

**`DecisionSupport`** is what `src/generic_sales` and `src/diagnostics` make of
the canonical rows of one currency, month by month. A month has a row or none,
a number of completed orders, their average value and perhaps a refund;
`CloseMonth` is a month that passes between two exports. `Decide` and `Preview`
are the two branches of `build_generic_sales_report`; a report is taken once per
history (`report = None`), as later ones would say the same. `Forecast`,
`Comparison` and `Anomalies` are the three builders with their early returns; a
section that raises becomes `FailedSection` whatever the other does. The errors
of the models are not computed: the error of the selected model is any of
`Errors`, and any tested candidate may be the selected one. Medians are kept
doubled and the median deviation fourfold, so that everything is an integer;
percentages are not rounded to two decimals, and evidence and texts are left out.

**`DemandCalendar`** is the way from rows to daily series: product keys, units
and the reasons against a product (`readiness.py`), the calendar from its first
to its last row with the status of each day (`calendar.py`), and what a point of
a series carries (`evaluation_series.py`). **`DemandCategories`** is
`category_fallback.py`: members, the reasons against a category, its series and
the candidates, which are only categories none of whose products is shown.

**`DemandEvaluation`** is `rolling_evaluation.py`, `baselines.py`, `metrics.py`
and `trust_gate.py` for one series: where each method can forecast and what, the
origins a week apart, skipped and completed folds, the two leaderboards on the
folds the candidates share, and the evidence against zero. Units are multiplied
by `Scale`, so that every mean is a whole number; RMSSE divides by a scale that
all candidates share, so that the squared errors rank alike. What the smoothing
of `sba_croston` predicts is any of `CrostonTotals`; when it may be used is not
left open. Decimals of 28 digits round where these integers do not.

**`ProductDemand`** is one request (`routes.py:480-508`, `service.py`,
`trust_policy.py`): `BuildCalendar`, one `AnalyzeProduct` or `AnalyzeCategory`
per scope in any order, `PrepareCategories` between them, `Answer`, and `Refuse`
for an analysis whose quality supports no decision. `PolicyReason` is the
sequence of gates. The `...Contract` operators are the `__post_init__` checks of
the result classes; a request that fails one of them ends in `server_error`.

**`DemandStudies`** puts the studies around it. An independent evaluation sends
the history of an export through the service, then scores every scope on the
held back weeks with the method chosen before (`Scores`, `Weeks`), from the
calendars of the whole export. A cohort evaluation draws public products by
stratum (`Draw`), scores each on its locked holdout (`HeldBack`), and judges two
stricter policies, sparse abstention and global consistency, by their gates.
Both read files in the code and take `Exports` and `PublicSales` here.

Definitions marked `(mistake)` are plausible bugs, used only to see that the
properties notice them.

## 4. Runs: what each checks and what it shows

| run | instance | properties | what it shows |
|---|---|---|---|
| `temp_store` | 2 threads, 2 guests, 2 ids, lifetime 1, instants 0..2 | `TypeOK` `Isolation` `NeverStale` `LossJustified` `EventuallyRemoved` `KeepsPromise` | the threaded store keeps the atomic store's promise although sweeps use clock readings of any age |
| `rate_limiter` | 2 scopes, limit 2, window 3, 2 ticks to the second, instants 0..7 | `TypeOK` `RollingLimit` `RetrySuffices` `ScopesFade` | the limit holds in every window, waiting as told is enough, memory is freed |
| `guest_service` | 2 browsers, 2 requests in flight, 2 sessions, 1 upload, 1 analysis, all lifetimes 1, instants 0..2 | `TypeOK` `Isolation` `AnalysisFollowsUpload` `NoRevival` `LiveScopesKeepCount` | isolation across expiry, late cookies, lost responses, cleanups and restarts |
| `guest_cleanup` | 1 browser, 1 request, 2 uploads, lifetimes 2/1/2, fair | `NothingStays` | all that was left behind is removed when requests stop |
| `workspace` | 2 handlers in flight, 2 settings (one maps a status column), 2 rules, 2 uploads, 2 analyses | `TypeOK` `TickIsForThisReview` `NoStuckSpinner` `NothingDiscardedReturns`, no deadlock | late and failing answers leave the workspace coherent |
| `sales_pipeline` | 13,624 uploads: frames of up to 3 rows that differ from a typical one in one or two cells, in every mode, discount rule, policy and tax treatment; frames of 5, 20 and 21 rows with 0 to 6 bad ones | `TypeOK` `EveryRowAccountedFor` `AcceptedStayValid` `AnyRowStandsForTheOrder` `OrderDiscountConserved` `OnlyUndividedOrdersFail` | the quarantine is a partition with consent, what is accepted does not depend on what was rejected and can be transformed, orders count once, the discount of an order is given once if a sold row names it |
| `decision_support` | 25 months of a steady shop, up to two of them unusual (a gap, pending orders only, refunds only, fewer orders of more value) in the first 15 months and one afterwards; errors 8, 20, 40 percent; latest month complete or not | `TypeOK` `OnlyFinishedConsecutiveMonths` `TestedAlike` `TrustIsEarned` `SpikesDoNotMask` `LargeFallsComeFirst` `MoreHistoryNeverHurts` | forecasts are chosen by a fair test and trusted no further than it goes, nothing unfinished or across a gap is drawn on, two odd months do not hide the next, a further month costs no forecast |
| `product_demand` | 278 inputs: eleven days of two or three products in six rhythms of sales, with one cell, product, column or assumption changed, a horizon of two days; 56 exports that go on for two held back weeks; 19 cohorts of two or three public products | `TypeOK` `EvidenceIsComparable` `ShownEstimateIsEarned` `CategoryCountsEverySale` `NoRejectedResult` `ScoredAsShown` `PassedPolicyImproves` | estimates are earned on weeks that can be compared, categories count every sale once and never beside a product of theirs, no result is refused, the study scores what was shown, a policy that passes is an improvement |

Runs that end in a counterexample, where the code and what the repository says
of it part:

| run | property | what happens |
|---|---|---|
| `guest_delete` | `DeletionsDoNotFail` | `delete_analysis` (`api/routes.py:543`) does not catch the expiry its own look-up raises: deleting an analysis that has just expired answers 500, although the analysis is gone; the frontend then reports that it could not be removed |
| `workspace_consent` | `ConsentCoversAnalysis` | rules edited while the rows are being checked: the late review is shown beside the new rules, and the consent given on it is sent with them |
| `sales_percentage` | `PercentagesAreJudged` | the bound 0 to 100 is applied to the money a percentage comes to, so that 20 percent of a line worth 600 is refused |
| `study_leak` | `HoldoutIsUnseen` | `independent_evaluation.py:342` tells history from holdout by the date of the order, the calendars count on the date of recognition (`calendar.py:59`): an order placed before the holdout and recognised in it is in the history, and the frozen preview has seen a held back sale |

`OnlyUndividedOrdersFail` names the one way an accepted upload ends in an
uncaught error: a fixed order discount, allocated proportionally, over several
rows whose subtotals sum to zero, or are unknown because no unit price is mapped
(`transformation.py:297` divides by zero). Nothing in the repository says what
should happen then.

Two further disagreements are stated in the modules and violated as well,
without a run of their own: `SalesPipeline!NoUnaskedRefund` (an unallocated order
discount is taken from the order's first row alone, `transformation.py:306`;
where that row is worth less, a completed sale becomes a refund although
negative revenue is not permitted) and `DecisionSupport!StatusTellsWhy` (two
months that cannot be compared: the report keeps the default status `available`,
`comparison.py:46`, so that the card is empty and the reason is not shown).

The rows of one order that leave the payment blank and those that report 0 agree
(`validation.py:646` reads a blank as 0), but what was collected is unknown from
the one and 0, less a lost chargeback, from the other (`transformation.py:323,
349`): which of them comes first decides `net_collected`. In the same way a row
that leaves the discount of its order blank agrees with one that names it
(`validation.py:619-625`), while the discount is looked for only among the rows
that stay (`transformation.py:284-288`). Where a row is an order, the row that
comes first decides whether the discount is reported (the sale is the total, and
does not change). Where orders have lines, a discount named only by a row that is
quarantined or repeated is not taken off the others. Nothing in the repository says
that it should be. `AnyRowStandsForTheOrder` compares every modelled column of the
row and names these two figures as its exceptions, each under its exact condition;
`OrderDiscountConserved` compares what is given with what any row of the order in
the file names, and says that nothing is given if no sold row names it. The run
has such orders.

Of the product-demand documents the code departs in five more places, none of
which a property here depends on. There is no check of recent activity: the gates look at
the weeks that could be tested, however old, where ADR-010:39-40 and
ADR-008:54-55 ask for recent evidence. A category may be shown although its
members were refused for missing stockout or coverage confirmation (ADR-011:31-32;
`service.py:341-350` makes up a readiness without reasons). A date the user
called closed that has sales on it counts for the product and is dropped for the
category (`calendar.py:74-100`, `category_fallback.py:286-288`). The day of a row
that was quarantined becomes a confirmed zero when the export is said to cover
all open days, and so does a gap of the whole business (ADR-007:76-82). And the
independent evaluation assesses only scopes whose series reaches the last day of
the export (`independent_evaluation.py:456`), which favours products that still sell.

The gates of the studies differ on one boundary: a stratum whose shown weeks sold
nothing is inconclusive for the locked evaluation and failed for the policies.

Three more behaviours a reader of the models should know of; nothing in the
repository promises otherwise firmly enough to call them wrong. An analysis is
given an `expires_at`, but the session it is bound to began earlier and lives
equally long with the default settings, so that its maker loses it before. A
file is deleted before its replacement is accepted; if the replacement fails,
the old preview stays on screen and its next check is answered 404. And when the
unfinished month holds nothing but refunds, it is set aside as such first, and
the latest *complete* month is then taken for the unfinished one.

Deadlock is checked where the system cannot stop (`workspace`). In the other
runs the bounded clock and the finite supply of ids or months let a behaviour end.

## 5. Bounds and fairness

* `Horizon` ends the clock; operations that start a deadline are guarded so that
  every deadline falls inside it. One lifetime before and one after a deadline
  are enough for every order of "read clock", "deadline", "sweep" and "answer".
  `Drain` (`GuestService`) lets the clock run on when no request is in flight,
  so that the last deadlines pass.
* Two of everything that is compared (threads, guests, browsers, requests,
  handlers): the properties relate two actors or two entries. Each id is issued
  once, as the random tokens of the code are. `Slot` bounds the handlers in
  flight; two suffice for one late answer overlapping another handler.
* `guest_service` uses symmetry in browsers and request slots, and no liveness;
  ids are chosen with CHOOSE, so they are not in the symmetry set.
* `workspace` uses symmetry in the slots, and has no liveness either.
* `guest_service` has one upload and one analysis: each property speaks of one
  id and the sessions around it; two browsers and two requests already create
  every order of session, upload, analysis and deletion. `guest_cleanup` has two
  uploads and the lifetimes in their real order.
* Fairness: the clock advances; the cleanup task wakes again and again (`main.py`
  sleeps 60 s in an endless loop); a thread in the pool finishes its call; a
  callback on the event loop is run. The last one is strong fairness in
  `GuestService`: a step on the loop waits while the cleanup occupies it, but
  ready callbacks are taken in turn. Nothing is assumed of users or browsers.
  The workspace has no fairness: its properties are safety, as are the
  pipeline's.
* `sales_pipeline` has no bound but its uploads. Issues of a row concern one or
  two cells; duplicates, conflicts and shares concern the rows of one order, of
  which three give a first, a last and one between; frames of 20 and 21 rows lie
  on both sides of the limits of 5 and 20 percent.
* `product_demand` scales the calendar down: horizon 2 days, training 4, folds 2,
  weeks of evidence 3, two held back weeks, where the code has 7, 28, 3, 13 and
  13; eleven days then give four origins, so that a category or product passes or
  fails by one week, and the order of the constants is the code's. Each input
  differs from a plain one in one place, because each reason against a product
  or category comes from one cell, column or assumption; the six rhythms make
  every baseline the best somewhere, and tie somewhere. A cohort has up to
  three products in up to three strata. The run stops when the request is
  answered and the study concluded.
* `decision_support` reaches 25 months, so that 24 complete ones, the longest
  history anything is decided on, are left when the last is unfinished. Two
  unusual months make a gap inside a history with refunds at its end, or two odd
  months among the six of a baseline; beyond 15 months, where only the two
  lengths 12 and 24 matter, one is enough. Months 8, 10 and 12 differ a little
  from the others, so that some baselines have a spread and some have none. No
  fairness: its properties are safety.

## 6. What is proved

For every value of the constants allowed by the named assumptions (lifetimes,
limit, window and resolution positive; `None` distinct):

* `TempStoreProofs`: `TypeOK`, `Isolation`, `NeverStale`, `LossJustified`, and
  `Refinement`, that every step of the threads is a step or a stutter of
  `ScopedStore`. The invariants are not inductive alone: `Linked` adds that the
  dict holds what was issued, that clock readings lie in the past, and that a
  create in flight has an id of its own that is not held yet. With it, a sweep
  with any reading removes only what is due *now* (`SweepRemovesDue`), which is
  the heart of both `LossJustified` and the refinement.
* `RateLimiterProofs`: `TypeOK`, `RollingLimit`, `RetrySuffices`, `NoEmptyScope`.
  `RollingLimit` speaks of a log the code does not keep; `DequesAreSuffixes`
  says that the deque is the end of the log and what was cut off has lapsed, so
  that with fewer than `Limit` attempts left the attempt `Limit` places back in
  the log lies a window ago. `DenialsCovered` says that a window that is still
  full after a denial begins with an attempt that lapses by the promised time;
  the rounding enters through `RetryCovers`.

* `GuestServiceProofs`: `TypeOK`, `Isolation`, `AnalysisFollowsUpload`,
  `NoRevival`, `LiveScopesKeepCount`. `Isolation` speaks of browsers, the code
  only of scopes; `OneBrowserPerScope` joins them: whoever has the cookie of a
  scope, a request under it or something stored under it is one browser, also
  after the session has expired while the request was in flight. `Linked` says
  that ids that are stored, asked for or derived from were made, so that a fresh
  id belongs to nobody, that an analysis in flight holds the scope its upload
  has and works on an upload of its own browser, and that an upload under way has no
  id yet. Most steps only forget entries, end a request or tell a scope of what it
  owns; they are `Harmless`, and one lemma (`HarmlessIInv`) serves them all. Three
  steps hand out something new (`Arrive`, `StoreUpload`, `StoreAnalysis`) and have
  a proof each. The last two properties are action properties that follow from
  the invariant. Three theorems go beyond the runs' properties.
  `LimiterKeepsItsPromises`: the service takes steps the limiter alone does not,
  several scopes dropped at once by a cleanup and all of them at a restart, so
  that `RateLimiter`'s invariant has to be kept again (`StepLimiter`). It is: the
  proofs of `RateLimiterProofs` are instantiated (`Rate`), with a horizon of their
  own, and one lemma there, `DropKeepsIInv`, covers any set of scopes.
  `NothingIsLostHolds` is the promise of `ScopedStore` at the level of the service:
  an entry goes because it is due, its owner deletes it or the process stops, and
  no other entry ever takes its place. `FailedDeletionsAreDoneHolds` bounds what
  the run `guest_delete` finds: when the deletion of an analysis ends in a server
  error, the analysis is gone (`GoneStaysGone`: ids are made once), and the deletion
  of an upload never ends in one. Other requests may: their pipeline can fail.
* `WorkspaceProofs`: `TypeOK`, `TickIsForThisReview`, `NoStuckSpinner`,
  `NothingDiscardedReturns`. `Workspace!Linked` is what makes them inductive: a
  handler in flight holds what its kind needs, only an analysis outlives its
  component, and at most one fetch of a stored analysis is in flight, with the
  workspace waiting for it, so that what it fetches cannot have been replaced.
  `ConsentCoversCarefulUse` is about the counterexample of `workspace_consent`: two
  things suffice to exclude it, that the settings, the rules and the file cannot be
  changed while the workspace is busy (as its buttons cannot be clicked), and that
  no request for suggestions fails while a review of the file before is on screen.
  Either alone is not enough: a failed suggestion leaves the old review and tick
  beside the new file (`BusinessWorkspace.tsx:256-283`). The invariant says that one
  handler at a time makes the workspace busy (`OneAtWork`) and that a review is the
  review of what is on screen (`ReviewIsCurrent`).

* `SalesPipelineProofs`, for frames of any length and any cells:
  `EveryRowAccountedFor` (a row that is not kept stands behind the *first* of its
  order, which exists because positions are well founded: `FirstOf`,
  `KeptFirst`), `OnlyUndividedOrdersFail` (a row without issues has an amount,
  `PricedRow`, and readable statuses and dates, `ReadableRow`),
  `RestrictedWhenBad` (the rounded share is below a limit only if the share is,
  `TenthsBound`) and `TypeOK`. `AcceptedStayValid` holds because what is compared
  only shrinks when rows are taken away (`ComparedGrows`, `ComparedFinite`);
  `AnyRowStandsForTheOrder` because the one accepted row of an order that is kept
  (`OneIsKept`) agrees with every other on all that its report is made of
  (`SameOrderSame`, `SameReport`), the discount included where both name it or
  neither does (`SameDiscount`). `OrderDiscountConserved` compares with the rows
  of the order in the file: those that name a discount name the same, the rejected
  ones too, or none of them would have been accepted (`NamedAlike`, `NamedIsDue`).
  It is about a sum over the
  rows of an order, which the library folds. No induction is needed: a sum of
  integers is the number of its units of credit less those of debt (`Net`), that
  number obeys the equations of the fold (`SumIsNet`), and so adds up over parts
  (`Allocation`, `SharesAdd`). Every row but the last gets its
  share and the last what the others leave, or the first row takes all
  (`RowsShareTheDiscount`). The assumptions: rows have the mapped columns, a cell of
  a number field is a number, blank or bad, and the allocation of an order discount
  is one of the two the API accepts.

* `DecisionSupportProofs`, for histories of any length and content: `TypeOK`,
  `TestedAlike`, `TrustIsEarned`, `OnlyFinishedConsecutiveMonths`,
  `LargeFallsComeFirst`, `SpikesDoNotMask`, `MoreHistoryNeverHurts`. They rest on
  one invariant, `ReportFollows`: a report says what its history gives. From
  there they are facts about the operators: with six months or more every
  candidate has three to six origins and enough months before each
  (`CandidatesAreTested`), which is why the code's return for too few folds is
  dead; the latest month of all is not left when the latest of some is taken
  away (`LatestIsLeftOut`); a comparison and a baseline are intervals of
  complete months (`ComparisonMonths`, `AnomalyMonths`). First and last month
  exist because numbers are well founded (`LeastOf`). `LargeFallsComeFirst` needs
  a ranking to exist: `CanBeRanked` takes the insight of least weight out of a
  smallest set that has none. `SpikesDoNotMask` rests on `SmallestExists` and
  `MostAgree`: where four of six values agree, the third and the fourth smallest
  are that value, and so are those of the deviations from it.
  `MoreHistoryNeverHurts` needs that the forecast's months only grow and are the
  beginning of all (`ForecastMonthsGrow`, `ForecastIsBeginning`).
  `ContributionsAddUp` is the exactness that `comparison.py:34` claims, before rounding to cents. The
  assumptions: a completed order has a value and a row.

* `DemandEvaluationProofs`, for daily series of any length with any days unknown:
  the methods' folds are nested, because all weekly methods start from the same
  day and need less the simpler they are (`FoldsNested`, `LessNeeded`), so that
  zero was tested on every week of the winner (`ReportIsSound`,
  `EvidenceIsSound`). Sums are numbers of units, so that they add up by
  cardinalities (`SumAdds`), and a finite set of numbers has a first and a last
  one because a finite set misses a number (`BoundOf`).
* `ProductDemandProofs`, for any rows, assumptions, exports and cohorts and any
  constants of the policy: `TypeOK`, `NoRejectedResult`, `ShownEstimateIsEarned`,
  `EvidenceIsComparable`, `CategoryCountsEverySale`, `PassedPolicyImproves`. The
  invariant of the request, `RequestInv`, says that calendars are calendars
  (consecutive days, a target on known days only), that every result is `Sound`
  (`AnalysisIsSound`: it satisfies every check of the result classes, its
  evidence is comparable, and an estimate is earned), and that no candidate has
  a shown member; one lemma per action. `StudyInv` adds what is known of a cohort
  and its scores. `CategoryCountsEverySale` needs where series come from
  (`Provenance`), that the members' rows are the category's rows and apart
  (`CategoryRows`), and that a sum of sums over separate sets is the sum over all
  (`SumOfSums`). `PassedPolicyImproves` splits the shown weeks into what the
  policy keeps and removes (`ErrorsAdd`) and weighs the two skills
  (`RelativeError`). `ScoredAsShown` compares the calendars of an export with those
  of its history: where no order is recognised on the other side of the split, the
  one is the other cut off at the holdout (`Cut`, `CalendarCut`; `CategoryCut` adds
  up over the members), so that the forecast of the first held back week is made
  from the very series the service was shown (`ForecastOfPast`, `ScoredFirst`).
  `IndependentInv` keeps the two runs of the service apart; `Newcomers` shows that a
  product the history does not know cannot join a category that was shown.
  `DividedHistoryIsUnseen` bounds what the run `study_leak` finds: an order that is
  recognised on the other side is the only way for the history to know of a held
  back day. The assumption on exports: an order's day is numbered.

The theorems say `Invariance` where all invariants of a module are proved
together, and take each property from it.

Only model-checked: liveness (`EventuallyRemoved`, `ScopesFade`, `NothingStays`),
because ENABLED and fairness are outside this prover; and the four runs that end
in a counterexample, which need only one behaviour. Every invariant and every
action property of the other runs is proved.

## 7. Not modelled

* Arithmetic over data frames (key figures, categories, regions, the models'
  predictions and errors of the monthly forecast), rendering, schemas and
  serializers: conversions without control.
* `frontend/src/components/ProductDemandPanel.tsx`: it holds one request and one
  result; that a late result is shown for edited assumptions is listed as a hazard.
* `api/analysis_observability.py`: counters and a bounded window, written in one
  lock section, and read by the metrics endpoint only.
* Of the offline studies: reading and profiling of files (UCI, DataCo, Pakistan,
  bakery, M5 headers), `daily_shape.py`, `history_sensitivity.py`,
  `scenario_pack.py` and `evaluation_review.py`, which recompute figures of the
  evaluation over variations of a file and write reports. They have no state and
  no step that depends on another.
* Of the preview: what the smoothing of `sba_croston` predicts (any of a set),
  explanations and warnings, and the portfolio summaries over products.
* Limits of the models: contents of files are opaque; the two-process deployment
  of a load balancer is not what the code supports (state is process-local);
  CORS, upload size limits and the metrics token have no state.
