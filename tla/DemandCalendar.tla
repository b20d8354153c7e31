--------------------------- MODULE DemandCalendar ---------------------------
(***************************************************************************)
(* From the rows of an analysis to daily series of sold units              *)
(* (src/product_demand/readiness.py, calendar.py, evaluation_series.py and *)
(* the series of category_fallback.py).                                    *)
(*                                                                         *)
(* rows is a set of records: line (their order), id, name, category, unit  *)
(* and quantity (None when blank), day and status.  data adds the columns  *)
(* the upload has and its revenue mode.  a is what the user confirmed      *)
(* (ProductDemandAssumptions).  Units and categories are folded to one     *)
(* case already.                                                           *)
(***************************************************************************)
EXTENDS Integers, FiniteSetsExt

CONSTANT None
ASSUME NoneAssumption == None \notin Int

\* The sum of a function into the natural numbers, as the number of its units:
\* a cardinality can be reasoned about without induction, a fold cannot.
Sum(f) == Cardinality(UNION {{x} \X (1 .. f[x]) : x \in DOMAIN f})

(***************************************************************************)
(* Readiness.  A product is known by its id, or by its name where the user *)
(* vouches for the names.                                                  *)
(***************************************************************************)
ProductKey(r, a) ==
    IF r.id # None THEN <<"id", r.id>>
    ELSE IF r.name # None /\ a.confirm_product_names_unique THEN <<"name", r.name>> ELSE None

Unit(r, a) == IF r.unit # None THEN r.unit ELSE a.default_unit_of_measure

RowsOf(rows, a, k) == {r \in rows : ProductKey(r, a) = k}
Keys(rows, a) == {ProductKey(r, a) : r \in rows} \ {None}
UnitsOf(rows, a, k) == {Unit(r, a) : r \in RowsOf(rows, a, k)}

\* A quantity is missing, or means nothing that was sold or brought back.
Doubtful(r) ==
    \/ r.quantity = None
    \/ r.quantity = 0
    \/ r.quantity < 0 /\ r.status \notin {"cancelled", "returned"}

\* The first doubtful row of the product names the reason.
QuantityReason(sales) ==
    LET doubtful == {r \in sales : Doubtful(r)}
    IN  IF doubtful = {} THEN {}
        ELSE LET first == CHOOSE r \in doubtful : \A q \in doubtful : r.line <= q.line
             IN  IF first.quantity = None THEN {"missing_quantity"} ELSE {"invalid_quantity"}

Blocking == {"missing_quantity", "invalid_quantity", "missing_unit_of_measure", "unit_conflict"}

Reasons(rows, a, k) ==
    UNION {
      IF None \in UnitsOf(rows, a, k) THEN {"missing_unit_of_measure"}
      ELSE IF Cardinality(UnitsOf(rows, a, k)) > 1 THEN {"unit_conflict"} ELSE {},
      QuantityReason(RowsOf(rows, a, k)),
      IF k[1] = "name" THEN {"product_name_fallback"} ELSE {},
      IF a.stockout_tracking_complete THEN {} ELSE {"stockout_data_unavailable"},
      IF a.export_covers_all_open_days THEN {} ELSE {"incomplete_daily_coverage"}}

Availability(reasons) ==
    IF reasons \cap Blocking # {} THEN "unavailable"
    ELSE IF reasons # {} THEN "limited" ELSE "ready"

ProductReadiness(rows, a, k) ==
    [status |-> Availability(Reasons(rows, a, k)), reasons |-> Reasons(rows, a, k),
     unit |-> LET known == UnitsOf(rows, a, k) \ {None}
              IN  IF Cardinality(known) = 1 THEN CHOOSE u \in known : TRUE ELSE None]

NoProducts == [k \in {} |-> None]

\* assess_product_demand_readiness.  Order totals do not say what was sold, nor
\* does an upload without quantities.
Ineligible(data) ==
    IF data.mode = "order_total" THEN {"order_total_ineligible"}
    ELSE IF "quantity" \notin data.columns THEN {"missing_quantity"} ELSE {}

Readiness(data, a) ==
    IF Ineligible(data) # {}
    THEN [products |-> NoProducts, unresolved |-> 0, reasons |-> Ineligible(data)]
    ELSE LET unresolved == Cardinality(RowsOf(data.rows, a, None))
         IN  [products |-> [k \in Keys(data.rows, a) |-> ProductReadiness(data.rows, a, k)],
              unresolved |-> unresolved,
              reasons |-> IF unresolved > 0 THEN {"missing_product_identity"} ELSE {}]

Usable(readiness) ==
    {k \in DOMAIN readiness.products : readiness.products[k].status # "unavailable"}

(***************************************************************************)
(* The calendar of a product reaches from its first to its last row.       *)
(***************************************************************************)
Known == {"observed", "confirmed_zero"}
DateStatus ==
    Known \cup {"business_closed", "stockout_limited", "missing_unknown"}

\* _aggregate_observed_units: what was handed over, whatever came back later.
Fulfilled(sales) ==
    LET sold == {r \in sales : /\ r.quantity # None /\ r.quantity > 0
                               /\ r.status \in {"completed", "returned"}}
    IN  Sum([r \in sold |-> r.quantity])

DayStatus(sales, closed, stockout, a) ==
    CASE sales # {} -> IF stockout THEN "stockout_limited" ELSE "observed"
      [] sales = {} /\ closed -> "business_closed"
      [] sales = {} /\ ~closed /\ stockout -> "stockout_limited"
      [] sales = {} /\ ~closed /\ ~stockout ->
            IF a.export_covers_all_open_days THEN "confirmed_zero" ELSE "missing_unknown"

\* What a point of a series carries: only a known day has a target.
Point(status, units) ==
    [status |-> status, units |-> IF status \in Known THEN units ELSE None]

Days(sales) == {r.day : r \in sales}
Span(days) == Min(days) .. Max(days)

Calendar(rows, a, k) ==
    LET sales == RowsOf(rows, a, k)
        On(d) == {r \in sales : r.day = d}
    IN  [d \in Span(Days(sales)) |->
            Point(DayStatus(On(d), d \in a.business_closed_dates, <<k, d>> \in a.stockout_dates, a),
                  Fulfilled(On(d)))]

(***************************************************************************)
(* The series of a category adds up its members' calendars.  A date the    *)
(* user called closed stays closed, even with sales on it.                 *)
(***************************************************************************)
CategoryStatus(statuses, closed) ==
    CASE closed -> "business_closed"
      [] ~closed /\ (statuses = {} \/ "missing_unknown" \in statuses) -> "missing_unknown"
      [] ~closed /\ "missing_unknown" \notin statuses /\ "stockout_limited" \in statuses ->
            "stockout_limited"
      [] ~closed /\ statuses = {"business_closed"} -> "business_closed"
      [] OTHER -> IF "observed" \in statuses THEN "observed" ELSE "confirmed_zero"

CategorySeries(calendars, members, a) ==
    LET On(d) == {k \in members : d \in DOMAIN calendars[k]}
        Sold(d) == {k \in On(d) : calendars[k][d].status \in Known}
    IN  [d \in Span(UNION {DOMAIN calendars[k] : k \in members}) |->
            Point(CategoryStatus({calendars[k][d].status : k \in On(d)}, d \in a.business_closed_dates),
                  Sum([k \in Sold(d) |-> calendars[k][d].units]))]

\* The dates of a calendar by position, as the evaluation counts them.
Series(calendar) ==
    [i \in 1 .. Cardinality(DOMAIN calendar) |-> calendar[Min(DOMAIN calendar) + i - 1]]
=============================================================================
