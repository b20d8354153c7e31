--------------------------- MODULE SalesPipeline ---------------------------
(***************************************************************************)
(* The way of an uploaded data frame through src/generic_sales: schema and *)
(* configuration are accepted, every row is validated, what is wrong is    *)
(* quarantined if the seller agrees, and the rest becomes canonical sales. *)
(*                                                                         *)
(* A row is a function from the mapped canonical fields (and "other": all  *)
(* the columns nothing is read from) to cells.  A cell is a value, Blank,  *)
(* or Bad: it does not parse as what its field needs.  Money is counted in *)
(* the smallest unit; mapped columns exist and are used once.              *)
(***************************************************************************)
EXTENDS Integers, Sequences, FiniteSets, FiniteSetsExt

CONSTANTS Blank, Bad,
          None,    \* no value
          Uploads  \* data frames and configurations: [df, config] records

Numbers == {"unit_price", "quantity", "discount", "revenue"}

ASSUME NoneAssumption == None \notin Int \cup {Blank, Bad, "completed"}

\* Every row of a frame has the mapped columns and the others; a cell that is read
\* as a number is one, or is Blank or Bad; no cell is None; an allocation is one
\* of the two there are (OrderDiscountAllocation).
ASSUME UploadsAssumption ==
    \A u \in Uploads :
        /\ Len(u.df) \in Nat /\ DOMAIN u.df = 1 .. Len(u.df)
        /\ \A p \in DOMAIN u.df :
              /\ DOMAIN u.df[p] = u.config.mapping \cup {"other"}
              /\ \A f \in DOMAIN u.df[p] : u.df[p][f] # None
              /\ \A f \in Numbers \cap DOMAIN u.df[p] : u.df[p][f] \in Int \cup {Blank, Bad}
        /\ u.config.order_discount_allocation \in {"unallocated", "proportional"}

-----------------------------------------------------------------------------
\* Schema and configuration.
Adjustments == {"refund_amount", "returned_quantity", "tax_amount", "shipping_amount",
                "chargeback_amount", "payment_amount"}

RequiredFields(mode) ==
    {"order_id", "order_date", "customer_id"} \cup
    IF mode = "unit_price_times_quantity" THEN {"unit_price", "quantity"} ELSE {"revenue"}

\* Fields that describe a line are of no use when a row is a whole order.
OptionalFields(mode) ==
    {"discount", "state_or_region", "order_status", "payment_status", "payment_amount",
     "refund_amount", "recognition_date", "refund_date", "tax_amount", "shipping_amount",
     "chargeback_amount", "currency"} \cup
    IF mode = "order_total" THEN {}
    ELSE {"product_id", "product_name", "unit_of_measure", "product_category",
          "returned_quantity", "line_item_id"} \cup
         IF mode = "row_total" THEN {"unit_price", "quantity"} ELSE {"revenue"}

ValidMapping(c) ==
    /\ RequiredFields(c.revenue_mode) \subseteq c.mapping
    /\ c.mapping \subseteq RequiredFields(c.revenue_mode) \cup OptionalFields(c.revenue_mode)

ValidConfig(c) ==
    /\ c.discount_type = "none" => c.discount_scope = "per_line"
    /\ c.discount_scope # "entire_order" => c.order_discount_allocation = "unallocated"
    /\ c.mismatch_tolerance >= 0

-----------------------------------------------------------------------------
\* What is read from a row, and the arithmetic of a line.
Absolute(n) == IF n < 0 THEN -n ELSE n

\* parse_decimal of a cell, and of a field that is not mapped.
Number(cell) == IF cell \in {Blank, Bad} THEN None ELSE cell
Value(r, field) == IF field \in DOMAIN r THEN Number(r[field]) ELSE None
Amount(r, field) == IF Value(r, field) = None THEN 0 ELSE Value(r, field)

\* Decimal division, rounded down to the unit; the divisor is not zero.
Divide(n, d) == IF d > 0 THEN n \div d ELSE (-n) \div (-d)

Subtotal(r) ==
    IF None \in {Value(r, "unit_price"), Value(r, "quantity")} THEN None
    ELSE Value(r, "unit_price") * Value(r, "quantity")

LineDiscount(r, c) ==
    IF Subtotal(r) = None THEN 0
    ELSE CASE c.discount_type = "none" -> 0
           [] c.discount_type = "percentage" -> Divide(Subtotal(r) * Amount(r, "discount"), 100)
           [] c.discount_type = "fixed" /\ c.discount_scope = "per_unit" ->
                 Amount(r, "discount") * Value(r, "quantity")
           [] OTHER -> Amount(r, "discount")

CalculatedTotal(r, c) ==
    IF Subtotal(r) = None \/ c.discount_scope = "entire_order" THEN None
    ELSE Subtotal(r) - LineDiscount(r, c)

\* The amount the seller chose to believe.
Authoritative(r, c) ==
    LET chosen == IF c.revenue_mode = "unit_price_times_quantity"
                  THEN CalculatedTotal(r, c) ELSE Value(r, "revenue")
    IN  IF chosen = None /\ c.discount_scope = "entire_order" THEN Subtotal(r) ELSE chosen

\* A status is None when its cell is blank or was not classified.
OrderStatus(r) ==
    IF "order_status" \in DOMAIN r THEN Number(r["order_status"]) ELSE "completed"
PaymentStatus(r) == Value(r, "payment_status")

-----------------------------------------------------------------------------
\* What can be wrong with a row by itself: pairs of a field and a code.
Flag(condition, field, code) == IF condition THEN {<<field, code>>} ELSE {}

Unparsed(r, fields, code) ==
    {<<f, code>> : f \in {g \in fields \cap DOMAIN r : r[g] = Bad}}
Missing(r, fields, code) ==
    {<<f, code>> : f \in {g \in fields \cap DOMAIN r : r[g] = Blank}}

DateIssues(r) ==
    Missing(r, {"order_date"}, "missing_required_value") \cup
    Unparsed(r, {"order_date", "recognition_date", "refund_date"}, "invalid_date")

IdIssues(r) == Missing(r, {"order_id", "customer_id"}, "missing_required_value")

\* What is compared with 100 is the discount in money, not the percentage.
FinancialIssues(r, c) ==
    LET value == Authoritative(r, c)
        discount == LineDiscount(r, c)
    IN  UNION {
          Flag("unit_price" \in DOMAIN r /\ Value(r, "unit_price") = None,
               "unit_price", "invalid_number"),
          Flag("quantity" \in DOMAIN r /\ Value(r, "quantity") = None,
               "quantity", "invalid_number"),
          Flag("revenue" \in DOMAIN r /\ Value(r, "revenue") = None,
               "revenue", "invalid_number"),
          Flag(c.discount_type # "none" /\
                  (discount < 0 \/ (c.discount_type = "percentage" /\ discount > 100)),
               "discount", "invalid_discount"),
          Flag(value # None /\ value < 0 /\ c.negative_revenue_policy = "invalid",
               "revenue", "negative_revenue"),
          Flag(/\ c.revenue_mismatch_policy = "quarantine"
               /\ None \notin {CalculatedTotal(r, c), Value(r, "revenue")}
               /\ Absolute(Value(r, "revenue") - CalculatedTotal(r, c)) > c.mismatch_tolerance,
               "revenue", "revenue_mismatch"),
          Flag(/\ Amount(r, "discount") > 0 /\ Subtotal(r) # None /\ discount > Subtotal(r)
               /\ c.discount_type = "fixed" /\ c.discount_scope # "per_unit",
               "discount", "discount_exceeds_subtotal")}

\* (mistake) A payment status nobody classified passes.
OrderStatusIssues(r) ==
    Missing(r, {"order_status"}, "missing_status") \cup
    Unparsed(r, {"order_status"}, "unknown_status") \cup
    Missing(r, {"payment_status"}, "missing_payment_status")

StatusIssues(r) ==
    Missing(r, {"order_status"}, "missing_status") \cup
    Unparsed(r, {"order_status"}, "unknown_status") \cup
    Missing(r, {"payment_status"}, "missing_payment_status") \cup
    Unparsed(r, {"payment_status"}, "unknown_payment_status")

AdjustmentIssues(r, c) ==
    LET quantity == Value(r, "quantity")
        value == Authoritative(r, c)
        returned == IF "returned_quantity" \notin DOMAIN r \/ r["returned_quantity"] = Bad
                    THEN None ELSE Amount(r, "returned_quantity")
        isReturn == OrderStatus(r) = "returned"
    IN  UNION {
          Unparsed(r, Adjustments, "invalid_number"),
          {<<f, "negative_adjustment">> : f \in {g \in Adjustments : Amount(r, g) < 0}},
          Flag(quantity = 0, "quantity", "zero_quantity"),
          Flag(quantity # None /\ quantity < 0 /\ ~isReturn
                  /\ c.negative_revenue_policy # "refunds",
               "quantity", "negative_quantity"),
          Flag(None \notin {returned, quantity} /\ quantity > 0 /\ returned > quantity,
               "returned_quantity", "return_exceeds_quantity"),
          Flag(/\ isReturn /\ None \notin {returned, quantity}
               /\ 0 < returned /\ returned < quantity /\ Amount(r, "refund_amount") = 0,
               "refund_amount", "partial_return_requires_refund_amount"),
          Flag(value # None /\ value < 0 /\ Amount(r, "refund_amount") > 0,
               "refund_amount", "refund_signal_conflict"),
          Flag(isReturn /\ value # None /\ value < 0, "revenue", "refund_signal_conflict"),
          Flag(OrderStatus(r) = "completed" /\ PaymentStatus(r) \in {"failed", "voided"},
               "payment_status", "order_payment_conflict")}

CurrencyIssues(r) ==
    {<<f, "invalid_currency">> : f \in {g \in {"currency"} \cap DOMAIN r : r[g] \in {Blank, Bad}}}

RowIssues(r, c) ==
    UNION {DateIssues(r), IdIssues(r), FinancialIssues(r, c), StatusIssues(r),
           AdjustmentIssues(r, c), CurrencyIssues(r)}

-----------------------------------------------------------------------------
\* (mistake) A row is compared with the row above it only.
RepeatIssues(df, p) ==
    LET above == {q \in DOMAIN df : q < p}
    IN  Flag(above # {} /\ df[Max(above)] = df[p], "row", "exact_duplicate")

\* What can be wrong with a row beside the others.  Positions count from 1.
DuplicateIssues(df, p) ==
    Flag(\E q \in DOMAIN df : q < p /\ df[q] = df[p], "row", "exact_duplicate")

SameOrder(df, p) == {q \in DOMAIN df : df[q]["order_id"] = df[p]["order_id"]}

\* Cells of an order whose rows stand for the order must agree once normalized.
NormalizedCell(r, field) ==
    IF field \in Adjustments /\ r[field] = Blank THEN 0 ELSE r[field]

\* The values the rows of an order have of something, when they are compared.
Compared(df, c, rows, field) ==
    LET present(f) == {df[q][f] : q \in {x \in rows : df[x][f] # Blank}}
    IN  CASE field = "customer_id" -> present(field)
          [] field = "order_date" -> present(field) \ {Bad}
          [] field = "revenue" -> {Authoritative(df[q], c) : q \in rows} \ {None}
          [] field = "order_status" -> {OrderStatus(df[q]) : q \in rows}
          [] field = "payment_status" -> {PaymentStatus(df[q]) : q \in rows}
          [] field = "state_or_region" -> {df[q][field] : q \in rows}
          [] field = "discount" -> {Amount(df[q], field) : q \in rows} \ {0}
          [] OTHER -> {NormalizedCell(df[q], field) : q \in rows}

\* (mistake) The totals and statuses of the rows of an order are not compared.
IdentityFields(c) == {"customer_id", "order_date"} \cup (c.mapping \cap {"state_or_region"})

ComparedFields(c) ==
    {"customer_id", "order_date"} \cup
    (IF c.revenue_mode = "order_total"
     THEN {"revenue", "order_status", "payment_status"} \cup
          (c.mapping \cap ((Adjustments \ {"returned_quantity"}) \cup
                          {"recognition_date", "refund_date", "currency"}))
     ELSE {}) \cup
    (c.mapping \cap {"state_or_region"}) \cup
    (IF c.discount_scope = "entire_order" THEN {"discount"} ELSE {})

OrderIssues(df, c, p) ==
    IF df[p]["order_id"] = Blank THEN {}
    ELSE {<<f, "order_conflict">> :
             f \in {g \in ComparedFields(c) :
                      Cardinality(Compared(df, c, SameOrder(df, p), g)) > 1}}

-----------------------------------------------------------------------------
\* validate_sales_data
Issues(df, c) ==
    [p \in DOMAIN df |->
        RowIssues(df[p], c) \cup DuplicateIssues(df, p) \cup OrderIssues(df, c, p)]

BlockingErrors(df, c) ==
    IF df = <<>> THEN {"no_data_rows"}
    ELSE UNION {
        IF c.discount_type # "none" /\ "discount" \notin c.mapping THEN {"no_discount_column"} ELSE {},
        IF {"refund_amount", "tax_amount"} \subseteq c.mapping /\ c.refund_tax_treatment = None
           THEN {"no_tax_treatment"} ELSE {},
        IF "order_status" \notin c.mapping /\ ~c.assume_all_completed THEN {"no_status"} ELSE {},
        IF \A p \in DOMAIN df : Issues(df, c)[p] # {} THEN {"no_valid_rows"} ELSE {}}

Validate(df, c) ==
    LET issues == Issues(df, c)
        invalid == {p \in DOMAIN df : issues[p] # {}}
        blocking == BlockingErrors(df, c)
        can == blocking = {}
    IN  [total |-> Len(df), invalid |-> invalid, issues |-> issues, blocking |-> blocking,
         can_transform |-> can, requires_confirmation |-> invalid # {} /\ can]

\* The share of invalid rows in tenths of a percent, and the readiness read off
\* it: both thresholds see the rounded share.  A tie is rounded up; the float of
\* the code may go either way, which matters at a threshold from 2000 rows on.
InvalidTenths(invalid, total) ==
    IF total = 0 THEN 0 ELSE (2000 * invalid + total) \div (2 * total)

Quality(can, invalid, total) ==
    CASE ~can -> "blocked"
      [] can /\ InvalidTenths(invalid, total) >= 200 -> "preview"
      [] can /\ InvalidTenths(invalid, total) \in 50 .. 199 -> "caution"
      [] OTHER -> "normal"

DecisionReady(quality) == quality \in {"normal", "caution"}

-----------------------------------------------------------------------------
\* (mistake) Numbers of invalid rows, counted with the header, taken as positions.
AcceptedByNumber(v) == 1 .. v.total \ {p + 1 : p \in v.invalid}

\* transform_sales_data.  Rows that are not invalid are accepted; when a row is
\* an order, the first accepted row of each order is kept.
Accepted(v) == 1 .. v.total \ v.invalid

Kept(df, c, accepted) ==
    IF c.revenue_mode = "order_total"
    THEN {p \in accepted : \A q \in accepted : q < p => df[q]["order_id"] # df[p]["order_id"]}
    ELSE accepted

OrderOf(df, kept, p) == kept \cap SameOrder(df, p)

Subtotals(df, rows) ==
    MapThenSumSet(LAMBDA q : IF Subtotal(df[q]) = None THEN 0 ELSE Subtotal(df[q]), rows)

\* The first positive discount of the rows of an order is the order's.
OrderDiscount(df, c, rows) ==
    LET giving == {q \in rows : Amount(df[q], "discount") > 0}
        input == IF giving = {} THEN 0 ELSE Amount(df[Min(giving)], "discount")
    IN  IF c.discount_type = "percentage"
        THEN Divide(Subtotals(df, rows) * input, 100) ELSE input

\* Shares are in the ratio of subtotals, which may cancel out or be unknown.
Undivided(df, c, rows) ==
    /\ c.discount_scope = "entire_order" /\ c.order_discount_allocation = "proportional"
    /\ OrderDiscount(df, c, rows) # 0
    /\ Subtotals(df, rows) = 0 /\ Cardinality(rows) > 1

Share(df, c, rows, q) ==
    Divide(OrderDiscount(df, c, rows) * Subtotals(df, {q}), Subtotals(df, rows))

\* (mistake) The last row gets its share like the others.
RoundedDiscount(df, c, rows, p) ==
    IF c.discount_scope # "entire_order" \/ OrderDiscount(df, c, rows) = 0 THEN 0
    ELSE IF c.order_discount_allocation = "unallocated"
    THEN IF p = Min(rows) THEN OrderDiscount(df, c, rows) ELSE 0
    ELSE IF Subtotals(df, rows) = 0 THEN OrderDiscount(df, c, rows)
    ELSE Share(df, c, rows, p)

\* Proportionally, the last row takes what is left; otherwise the first takes all.
AllocatedDiscount(df, c, rows, p) ==
    IF c.discount_scope # "entire_order" \/ OrderDiscount(df, c, rows) = 0 THEN 0
    ELSE IF c.order_discount_allocation = "unallocated"
    THEN IF p = Min(rows) THEN OrderDiscount(df, c, rows) ELSE 0
    ELSE IF p # Max(rows) THEN Share(df, c, rows, p)
    ELSE OrderDiscount(df, c, rows)
           - MapThenSumSet(LAMBDA q : Share(df, c, rows, q), rows \ {p})

\* In the other modes the discount of the order is reported, not subtracted.
SaleAmount(df, c, kept, p) ==
    Authoritative(df[p], c)
      - IF c.revenue_mode = "unit_price_times_quantity"
        THEN AllocatedDiscount(df, c, OrderOf(df, kept, p), p) ELSE 0

\* A negative amount is a refund, whatever the status.
CanonicalRow(r, c, sale, allocated) ==
    LET status == OrderStatus(r)
        explicit == Amount(r, "refund_amount")
        sold == IF sale >= 0 /\ status \in {"completed", "returned"} THEN sale ELSE 0
        refund == CASE sale < 0 -> -sale
                    [] sale >= 0 /\ status = "returned" ->
                          IF explicit # 0 THEN explicit ELSE sale
                    [] sale >= 0 /\ status = "completed" -> explicit
                    [] OTHER -> 0
        tax == IF sold # 0 THEN Amount(r, "tax_amount") ELSE 0
        taxBack == IF explicit # 0 /\ c.refund_tax_treatment = "includes_tax"
                   THEN Min({explicit, tax}) ELSE 0
        discount == IF c.discount_scope = "entire_order" THEN allocated ELSE LineDiscount(r, c)
        lost == IF PaymentStatus(r) = "chargeback_lost" /\ Amount(r, "chargeback_amount") = 0
                THEN sold ELSE Amount(r, "chargeback_amount")
    IN  [order_id |-> r["order_id"], recognized_sales |-> sold,
         refund_amount |-> refund - taxBack, revenue |-> sold - (refund - taxBack),
         pending_value |-> IF sale >= 0 /\ status = "pending" THEN sale ELSE 0,
         tax_amount |-> tax - taxBack,
         discount_amount |-> IF sold # 0 THEN discount ELSE 0,
         gross_sales |-> IF sold = 0 THEN 0
                         ELSE IF Subtotal(r) # None THEN Subtotal(r) ELSE Max({sold + LineDiscount(r, c), 0}),
         category_revenue |->
            IF c.discount_scope = "entire_order" /\ c.order_discount_allocation = "unallocated"
            THEN Max({IF Subtotal(r) \in {None, 0} THEN sold ELSE Subtotal(r), 0}) - (refund - taxBack)
            ELSE sold - (refund - taxBack),
         disputed_value |-> IF PaymentStatus(r) = "disputed" THEN sold ELSE 0,
         net_collected |-> IF Value(r, "payment_amount") = None THEN None
                           ELSE Value(r, "payment_amount") - lost,
         recognition_date |-> IF "recognition_date" \in DOMAIN r /\ r["recognition_date"] # Blank
                              THEN r["recognition_date"] ELSE r["order_date"]]

\* What the transformation looks up of an accepted row without asking.
Readable(r) ==
    /\ OrderStatus(r) # None
    /\ "payment_status" \in DOMAIN r => PaymentStatus(r) # None
    /\ \A f \in {"order_date", "recognition_date", "refund_date"} \cap DOMAIN r : r[f] # Bad
    /\ r["order_date"] # Blank

Orders(df, kept) == {OrderOf(df, kept, p) : p \in kept}

\* The canonical rows by position, and what was left out with its reasons.
Transform(df, c, v) ==
    LET kept == Kept(df, c, Accepted(v))
        allocated(p) == AllocatedDiscount(df, c, OrderOf(df, kept, p), p)
    IN  [canonical |-> [p \in kept |->
                          CanonicalRow(df[p], c, SaleAmount(df, c, kept, p), allocated(p))],
         allocated |-> [p \in kept |-> allocated(p)],
         quarantine |-> [p \in v.invalid |-> v.issues[p]]]

Unpriced(df, c, v) ==
    \E p \in Kept(df, c, Accepted(v)) : Authoritative(df[p], c) = None

Fails(df, c, v) ==
    LET kept == Kept(df, c, Accepted(v))
    IN  \/ \E p \in kept : ~Readable(df[p])
        \/ \E rows \in Orders(df, kept) : Undivided(df, c, rows)

-----------------------------------------------------------------------------
VARIABLES upload,   \* the data frame and the configuration sent with it
          review,   \* the answer of validate-data, or None
          analysis  \* the answer of analyze, or None

vars == <<upload, review, analysis>>

Init == upload \in Uploads /\ review = None /\ analysis = None

Refused(status) == [status |-> status]

\* (mistake) Nobody turns the error into an answer.
Uncaught(c) == 500

\* Both routes refuse the mapping first, then the configuration.
Refusal(c) == IF ~ValidMapping(c) THEN 400 ELSE 422
Acceptable(c) == ValidMapping(c) /\ ValidConfig(c)

ReviewOf(u) ==
    LET v == Validate(u.df, u.config)
    IN  IF ~Acceptable(u.config) THEN Refused(Refusal(u.config))
        ELSE [status |-> 200, validation |-> v,
              quality |-> Quality(v.can_transform, Cardinality(v.invalid), v.total)]

\* The checks of the transformation in their order; "source_row" is its own column.
Outcome(df, c, v, confirm) ==
    CASE ~v.can_transform -> 422
      [] v.can_transform /\ v.requires_confirmation /\ ~confirm -> 409
      [] OTHER -> IF c.reserved_column \/ Unpriced(df, c, v) THEN 422
                  ELSE IF Fails(df, c, v) THEN 500 ELSE 200

AnalysisOf(u, confirm) ==
    LET v == Validate(u.df, u.config)
        status == IF Acceptable(u.config) THEN Outcome(u.df, u.config, v, confirm)
                  ELSE Refusal(u.config)
    IN  IF status # 200 THEN Refused(status)
        ELSE [status |-> 200, confirmed |-> confirm, sales |-> Transform(u.df, u.config, v),
              quality |-> Quality(v.can_transform, Cardinality(v.invalid), v.total)]

\* The seller looks at the review, and sends the same again with or without consent.
ValidateUploadData ==
    /\ review = None
    /\ review' = ReviewOf(upload)
    /\ UNCHANGED <<upload, analysis>>

AnalyzeUploadData(confirm) ==
    /\ analysis = None \/ analysis = Refused(409)
    /\ analysis' = AnalysisOf(upload, confirm)
    /\ UNCHANGED <<upload, review>>

Next == ValidateUploadData \/ \E confirm \in BOOLEAN : AnalyzeUploadData(confirm)

Spec == Init /\ [][Next]_vars

-----------------------------------------------------------------------------
Answers(answer, statuses) ==
    answer = None \/ answer.status \in statuses

\* The routes answer with a status they know.
TypeOK ==
    /\ DOMAIN upload.df = 1 .. Len(upload.df)
    /\ Answers(review, {200, 400, 422})
    /\ Answers(analysis, {200, 400, 409, 422, 500})

Done == analysis # None /\ analysis.status = 200

\* A source row that is not among the sales is in the quarantine with a reason and
\* the seller agreed, or is a repeat of an order that is among them; no row is both
\* (transformation.py:59-73).
EveryRowAccountedFor ==
    Done =>
        LET sold == DOMAIN analysis.sales.canonical
            held == DOMAIN analysis.sales.quarantine
        IN  /\ sold \cap held = {}
            /\ \A p \in held : analysis.confirmed /\ analysis.sales.quarantine[p] # {}
            /\ \A p \in DOMAIN upload.df \ (sold \cup held) :
                  /\ upload.config.revenue_mode = "order_total"
                  /\ \E q \in sold : q < p /\ upload.df[q]["order_id"] = upload.df[p]["order_id"]

\* What is accepted would be accepted again without the rows in quarantine: no
\* accepted row is only right in company (validation.py:146-168, 540-633).
AcceptedStayValid ==
    review # None /\ review.status = 200 =>
        LET rest == [p \in Accepted(review.validation) |-> upload.df[p]]
        IN  \A p \in DOMAIN rest : Issues(rest, upload.config)[p] = {}

\* A row tells of a payment, or names a discount for its order.
Tells(r) == Value(r, "payment_amount") # None
Names(r) == Amount(r, "discount") > 0

\* When a row is an order, every order counts once, and whichever of its rows is the
\* one that stays is reported as any other would have been (transformation.py:65-71,
\* validation.py:577-608).  Two figures do depend on it, as a blank agrees with a
\* value: what was collected, when not all tell of the payment (validation.py:646,
\* transformation.py:349), and the discount of the order, when not all name it
\* (validation.py:619-625, transformation.py:359-364).
AnyRowStandsForTheOrder ==
    Done /\ upload.config.revenue_mode = "order_total" =>
        LET df == upload.df
            c == upload.config
            canonical == analysis.sales.canonical
            standing(p) == CanonicalRow(df[p], c, Authoritative(df[p], c),
                                        AllocatedDiscount(df, c, {p}, p))
        IN  \A p \in DOMAIN df \ DOMAIN analysis.sales.quarantine :
              LET rows == OrderOf(df, DOMAIN canonical, p)
              IN  /\ Cardinality(rows) = 1
                  /\ \A q \in rows : \A f \in DOMAIN canonical[q] :
                        \/ canonical[q][f] = standing(p)[f]
                        \/ f = "net_collected" /\ ~(Tells(df[p]) <=> Tells(df[q]))
                        \/ /\ f = "discount_amount" /\ c.discount_scope = "entire_order"
                           /\ ~(Names(df[p]) <=> Names(df[q]))

\* The discount an order is due by a row that names it, on the rows that are sold.
Due(df, c, rows, p) ==
    IF c.discount_type = "percentage"
    THEN Divide(Subtotals(df, rows) * Amount(df[p], "discount"), 100)
    ELSE Amount(df[p], "discount")

\* If one of the sold rows of an order names its discount, they are given between
\* them, no more and no less, the discount that any row of the order in the file
\* names, a rejected one too (transformation.py:260-306; "allocated without changing
\* its total", test_retail_rules.py:286).  If none does, nothing is given: a blank
\* agrees with the discount of the order (validation.py:619-625), which goes with
\* the rows that named it (transformation.py:284-288).
OrderDiscountConserved ==
    Done =>
        LET df == upload.df
            c == upload.config
        IN  \A rows \in Orders(df, DOMAIN analysis.sales.canonical) :
              LET given == MapThenSumSet(LAMBDA p : analysis.sales.allocated[p], rows)
              IN  IF c.discount_scope = "entire_order" /\ \E q \in rows : Names(df[q])
                  THEN \A q \in rows : \A p \in SameOrder(df, q) :
                          Names(df[p]) => given = Due(df, c, rows, p)
                  ELSE given = 0

\* What validation accepts can be transformed, but for an order whose subtotals
\* give no ratio to share its discount in (transformation.py:239-257, 290-298).
OnlyUndividedOrdersFail ==
    analysis # None /\ Acceptable(upload.config) =>
        LET df == upload.df
            v == Validate(df, upload.config)
        IN  /\ analysis.status = 500 =>
                  \E rows \in Orders(df, Kept(df, upload.config, Accepted(v))) :
                      Undivided(df, upload.config, rows)
            /\ analysis.status = 422 => v.blocking # {} \/ upload.config.reserved_column

\* Forecasts and advice are never drawn from data a fifth of which was unusable,
\* nor shown without caution from a twentieth (data_quality.py:66-80).
RestrictedWhenBad ==
    Done =>
        LET bad == Cardinality(DOMAIN analysis.sales.quarantine)
            total == Len(upload.df)
        IN  /\ DecisionReady(analysis.quality) => 5 * bad < total
            /\ analysis.quality = "normal" => 20 * bad < total

-----------------------------------------------------------------------------
\* "Percentage discount must be between 0 and 100." (validation.py:233)
PercentagesAreJudged ==
    review # None /\ review.status = 200 /\ upload.config.discount_type = "percentage" =>
        \A p \in DOMAIN upload.df :
            /\ Amount(upload.df[p], "discount") \in 0 .. 100
            /\ Subtotal(upload.df[p]) # None /\ Amount(upload.df[p], "quantity") > 0
            => <<"discount", "invalid_discount">> \notin review.validation.issues[p]

\* "Negative revenue is not permitted under the selected policy." (validation.py:261):
\* a discount within its order does not turn a completed sale into a refund.
NoUnaskedRefund ==
    Done /\ upload.config.negative_revenue_policy = "invalid" =>
        \A p \in DOMAIN analysis.sales.canonical :
            LET rows == OrderOf(upload.df, DOMAIN analysis.sales.canonical, p)
            IN  /\ OrderStatus(upload.df[p]) = "completed"
                /\ OrderDiscount(upload.df, upload.config, rows) < Subtotals(upload.df, rows)
                => analysis.sales.canonical[p].refund_amount
                       <= Amount(upload.df[p], "refund_amount")
=============================================================================
