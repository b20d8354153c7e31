------------------------ MODULE SalesPipelineProofs ------------------------
(***************************************************************************)
(* What holds of the sales pipeline for every data frame and configuration:*)
(* its answers are those it knows, no row is lost, unfit data supports no  *)
(* decision, what was validated can be transformed, and the discount of an *)
(* order is given once.                                                    *)
(***************************************************************************)
EXTENDS SalesPipeline, FiniteSetTheorems, WellFoundedInduction, TLAPS

-----------------------------------------------------------------------------
\* An inhabited set of positions has a first one.
LEMMA FirstOf ==
    ASSUME NEW S, S \subseteq Nat, S # {}
    PROVE  \E m \in S : \A n \in S : m <= n
<1> DEFINE LessOnNat == {ss \in Nat \X Nat : ss[1] < ss[2]}
<1>1. IsWellFoundedOn(LessOnNat, Nat)
  BY NatLessThanWellFounded DEF OpToRel
<1>2. PICK m \in S : \A n \in S : ~ (<<n, m>> \in LessOnNat)
  BY <1>1, WFMin
<1>3. \A n \in S : ~ (n < m)
  BY <1>2
<1> QED
  BY <1>3

\* A share below a limit in rounded tenths of a percent is below the limit: both
\* limits are whole tenths (data_quality.py:67-80).
LEMMA TenthsBound ==
    ASSUME NEW bad \in Nat, NEW total \in Nat \ {0}, NEW limit \in Nat,
           InvalidTenths(bad, total) < limit
    PROVE  2000 * bad + total < limit * (2 * total)
<1> DEFINE n == 2000 * bad + total
           d == 2 * total
           q == n \div d
<1>1. n \in Nat /\ d \in Nat \ {0}
  OBVIOUS
<1>2. q \in Int /\ n < (q + 1) * d
  <2> HIDE DEF n, d
  <2> QED
    BY <1>1
<1>3. q + 1 <= limit
  BY <1>2 DEF InvalidTenths
<1>4. (q + 1) * d <= limit * d
  <2> HIDE DEF q, d
  <2> QED
    BY <1>1, <1>2, <1>3
<1>5. limit * d \in Int /\ (q + 1) * d \in Int
  BY <1>1, <1>2
<1> QED
  <2> HIDE DEF q, d
  <2>1. n < limit * d
    BY <1>1, <1>2, <1>4, <1>5
  <2> QED
    BY <2>1 DEF d

LEMMA TenthsType ==
    ASSUME NEW bad \in Nat, NEW total \in Nat \ {0}
    PROVE  InvalidTenths(bad, total) \in Int
<1>1. 2000 * bad + total \in Nat /\ 2 * total \in Nat \ {0}
  OBVIOUS
<1> QED
  BY <1>1 DEF InvalidTenths

LEMMA QualityLimits ==
    ASSUME NEW bad \in Nat, NEW total \in Nat \ {0},
           NEW quality, quality = Quality(TRUE, bad, total)
    PROVE  /\ DecisionReady(quality) => InvalidTenths(bad, total) < 200
           /\ quality = "normal" => InvalidTenths(bad, total) < 50
<1>1. InvalidTenths(bad, total) \in Int
  BY TenthsType
<1>2. CASE InvalidTenths(bad, total) >= 200
  BY <1>1, <1>2 DEF DecisionReady, Quality
<1>3. CASE InvalidTenths(bad, total) < 200
  BY <1>1, <1>3 DEF DecisionReady, Quality
<1>4. InvalidTenths(bad, total) >= 200 \/ InvalidTenths(bad, total) < 200
  BY <1>1
<1> QED
  BY <1>2, <1>3, <1>4, Zenon

\* Where nothing is reported missing or unparsed, nothing is.
LEMMA NothingMissing ==
    ASSUME NEW r, NEW fields, NEW code, Missing(r, fields, code) = {}
    PROVE  \A f \in fields \cap DOMAIN r : r[f] # Blank
BY DEF Missing

LEMMA NothingUnparsed ==
    ASSUME NEW r, NEW fields, NEW code, Unparsed(r, fields, code) = {}
    PROVE  \A f \in fields \cap DOMAIN r : r[f] # Bad
BY DEF Unparsed

-----------------------------------------------------------------------------
\* What is accepted has no issue, and the rest is invalid because of one.
LEMMA InvalidRows ==
    ASSUME NEW u \in Uploads, NEW v, v = Validate(u.df, u.config)
    PROVE  /\ v.total \in Nat /\ v.total = Len(u.df) /\ DOMAIN u.df = 1 .. v.total
           /\ v.invalid \subseteq 1 .. v.total
           /\ IsFiniteSet(v.invalid) /\ Cardinality(v.invalid) \in Nat
           /\ \A p \in v.invalid : v.issues[p] # {}
           /\ \A p \in Accepted(v) : Issues(u.df, u.config)[p] = {}
<1>1. /\ v.total = Len(u.df) /\ v.issues = Issues(u.df, u.config)
      /\ v.invalid = {p \in DOMAIN u.df : v.issues[p] # {}}
  BY DEF Validate
<1>2. v.total \in Nat /\ DOMAIN u.df = 1 .. v.total
  BY <1>1, UploadsAssumption
<1>3. v.invalid \subseteq 1 .. v.total
  BY <1>1, <1>2
<1>4. IsFiniteSet(v.invalid) /\ Cardinality(v.invalid) \in Nat
  <2>1. IsFiniteSet(1 .. v.total)
    BY <1>2, FS_Interval
  <2>2. IsFiniteSet(v.invalid)
    BY <2>1, <1>3, FS_Subset
  <2> QED
    BY <2>2, FS_CardinalityType
<1>5. \A p \in Accepted(v) : Issues(u.df, u.config)[p] = {}
  BY <1>1, <1>2 DEF Accepted
<1> QED
  BY <1>1, <1>2, <1>3, <1>4, <1>5

\* An accepted row is kept, or stands behind the first accepted row of its order.
LEMMA KeptFirst ==
    ASSUME NEW u \in Uploads, NEW v, v = Validate(u.df, u.config),
           NEW p \in Accepted(v), p \notin Kept(u.df, u.config, Accepted(v))
    PROVE  /\ u.config.revenue_mode = "order_total"
           /\ \E q \in Kept(u.df, u.config, Accepted(v)) :
                 q < p /\ u.df[q]["order_id"] = u.df[p]["order_id"]
<1> DEFINE same == {q \in Accepted(v) : u.df[q]["order_id"] = u.df[p]["order_id"]}
<1>1. u.config.revenue_mode = "order_total"
  BY DEF Kept
<1>2. PICK other \in Accepted(v) : other < p /\ u.df[other]["order_id"] = u.df[p]["order_id"]
  BY <1>1 DEF Kept
<1>3. same \subseteq Nat /\ same # {}
  BY <1>2, InvalidRows DEF Accepted
<1>4. PICK first \in same : \A q \in same : first <= q
  BY <1>3, FirstOf
<1>5. first < p
  BY <1>2, <1>3, <1>4, InvalidRows DEF Accepted
<1>6. first \in Kept(u.df, u.config, Accepted(v))
  BY <1>1, <1>3, <1>4 DEF Kept
<1> QED
  BY <1>1, <1>5, <1>6

-----------------------------------------------------------------------------
\* An answer is a function of what was uploaded and of the consent.
IInv ==
    /\ upload \in Uploads
    /\ review = None \/ review = ReviewOf(upload)
    /\ analysis = None \/ \E confirm \in BOOLEAN : analysis = AnalysisOf(upload, confirm)

\* No answer outlives or precedes what it answers.
THEOREM Invariance == Spec => []IInv
<1>1. Init => IInv
  BY DEF Init, IInv
<1>2. IInv /\ [Next]_vars => IInv'
  <2> SUFFICES ASSUME IInv, [Next]_vars PROVE IInv'
    OBVIOUS
  <2>1. CASE ValidateUploadData
    BY <2>1 DEF IInv, ValidateUploadData
  <2>2. ASSUME NEW confirm \in BOOLEAN, AnalyzeUploadData(confirm) PROVE IInv'
    BY <2>2 DEF IInv, AnalyzeUploadData
  <2>3. CASE UNCHANGED vars
    BY <2>3 DEF IInv, vars
  <2> QED
    BY <2>1, <2>2, <2>3 DEF Next
<1> QED
  BY <1>1, <1>2, PTL DEF Spec

\* The outcome of an analysis that was acceptable, by its status.
LEMMA Outcomes ==
    ASSUME NEW u \in Uploads, NEW confirm \in BOOLEAN, NEW v, v = Validate(u.df, u.config),
           Acceptable(u.config), NEW a, a = AnalysisOf(u, confirm)
    PROVE  /\ a.status = Outcome(u.df, u.config, v, confirm)
           /\ a.status \in {200, 409, 422, 500}
           /\ a.status = 200 =>
                 /\ v.can_transform /\ (v.requires_confirmation => confirm)
                 /\ a.confirmed = confirm /\ a.sales = Transform(u.df, u.config, v)
                 /\ a.quality = Quality(v.can_transform, Cardinality(v.invalid), v.total)
           /\ a.status = 500 => Fails(u.df, u.config, v)
           /\ a.status = 422 => \/ ~v.can_transform \/ u.config.reserved_column
                                \/ Unpriced(u.df, u.config, v)
<1> DEFINE outcome == Outcome(u.df, u.config, v, confirm)
<1>1. outcome \in {200, 409, 422, 500}
  BY DEF Outcome
<1>2. /\ outcome = 200 => v.can_transform /\ (v.requires_confirmation => confirm)
      /\ outcome = 500 => Fails(u.df, u.config, v)
      /\ outcome = 422 => \/ ~v.can_transform \/ u.config.reserved_column
                          \/ Unpriced(u.df, u.config, v)
  BY DEF Outcome
<1>3. a = IF outcome # 200 THEN Refused(outcome)
          ELSE [status |-> 200, confirmed |-> confirm, sales |-> Transform(u.df, u.config, v),
                quality |-> Quality(v.can_transform, Cardinality(v.invalid), v.total)]
  BY DEF AnalysisOf
<1>4. a.status = outcome
  BY <1>3 DEF Refused
<1> QED
  <2> HIDE DEF outcome
  <2>1. CASE outcome = 200
    BY <2>1, <1>1, <1>2, <1>3, <1>4 DEF outcome
  <2>2. CASE outcome # 200
    BY <2>2, <1>1, <1>2, <1>4 DEF outcome
  <2> QED
    BY <2>1, <2>2

\* What was analysed in the end was acceptable.
LEMMA DoneAcceptable ==
    ASSUME NEW u \in Uploads, NEW confirm \in BOOLEAN, AnalysisOf(u, confirm).status = 200
    PROVE  Acceptable(u.config)
BY DEF AnalysisOf, Refusal, Refused

\* An answer is no absence of one.
LEMMA AnswersAreRecords ==
    ASSUME NEW u \in Uploads
    PROVE  /\ ReviewOf(u).status \in {200, 400, 422}
           /\ \A confirm \in BOOLEAN :
                 AnalysisOf(u, confirm).status \in {200, 400, 409, 422, 500}
<1>1. ReviewOf(u).status \in {200, 400, 422}
  BY DEF ReviewOf, Refused, Refusal
<1>2. CASE Acceptable(u.config)
  BY <1>1, <1>2, Outcomes
<1>3. CASE ~Acceptable(u.config)
  BY <1>1, <1>3 DEF AnalysisOf, Refused, Refusal
<1> QED
  BY <1>2, <1>3

-----------------------------------------------------------------------------
\* The routes answer with a status they know, for every upload.
THEOREM TypeCorrect == Spec => []TypeOK
<1>1. IInv => TypeOK
  <2> SUFFICES ASSUME IInv PROVE TypeOK
    OBVIOUS
  <2>1. DOMAIN upload.df = 1 .. Len(upload.df)
    BY UploadsAssumption DEF IInv
  <2>2. Answers(review, {200, 400, 422})
    BY AnswersAreRecords DEF IInv, Answers
  <2>3. Answers(analysis, {200, 400, 409, 422, 500})
    BY AnswersAreRecords DEF IInv, Answers
  <2> QED
    BY <2>1, <2>2, <2>3 DEF TypeOK
<1> QED
  BY <1>1, Invariance, PTL

\* No row of an upload is lost or counted twice on its way to the sales and the
\* quarantine (transformation.py:59-73), for every upload.
THEOREM EveryRowAccountedForHolds == Spec => []EveryRowAccountedFor
<1>1. IInv => EveryRowAccountedFor
  <2> SUFFICES ASSUME IInv, Done PROVE EveryRowAccountedFor
    BY DEF EveryRowAccountedFor
  <2> DEFINE df == upload.df
             c == upload.config
             v == Validate(df, c)
             kept == Kept(df, c, Accepted(v))
  <2>1. PICK confirm \in BOOLEAN : analysis = AnalysisOf(upload, confirm)
    BY DEF IInv, Done
  <2>2. upload \in Uploads /\ Acceptable(c)
    BY <2>1, DoneAcceptable DEF IInv, Done
  <2>3. /\ v.can_transform /\ (v.requires_confirmation => confirm)
        /\ analysis.confirmed = confirm /\ analysis.sales = Transform(df, c, v)
    BY <2>1, <2>2, Outcomes DEF Done
  <2>4. /\ DOMAIN analysis.sales.canonical = kept
        /\ DOMAIN analysis.sales.quarantine = v.invalid
        /\ \A p \in v.invalid : analysis.sales.quarantine[p] = v.issues[p]
    BY <2>3 DEF Transform
  <2>5. kept \cap v.invalid = {}
    BY DEF Kept, Accepted
  <2>6. \A p \in v.invalid : analysis.confirmed /\ v.issues[p] # {}
    BY <2>2, <2>3, InvalidRows DEF Validate
  <2>7. ASSUME NEW p \in DOMAIN df \ (kept \cup v.invalid)
        PROVE  /\ c.revenue_mode = "order_total"
               /\ \E q \in kept : q < p /\ df[q]["order_id"] = df[p]["order_id"]
    <3>1. p \in Accepted(v)
      BY <2>2, InvalidRows DEF Accepted
    <3> QED
      BY <2>2, <2>7, <3>1, KeptFirst
  <2> HIDE DEF v, kept
  <2> QED
    BY <2>4, <2>5, <2>6, <2>7 DEF EveryRowAccountedFor
<1> QED
  BY <1>1, Invariance, PTL

\* Data a fifth of which was unusable supports no decision, and a twentieth brings
\* caution (data_quality.py:66-80), for frames of every length.
THEOREM RestrictedWhenBadHolds == Spec => []RestrictedWhenBad
<1>1. IInv => RestrictedWhenBad
  <2> SUFFICES ASSUME IInv, Done PROVE RestrictedWhenBad
    BY DEF RestrictedWhenBad
  <2> DEFINE v == Validate(upload.df, upload.config)
             bad == Cardinality(v.invalid)
             total == v.total
  <2>1. PICK confirm \in BOOLEAN : analysis = AnalysisOf(upload, confirm)
    BY DEF IInv, Done
  <2>2. upload \in Uploads /\ Acceptable(upload.config)
    BY <2>1, DoneAcceptable DEF IInv, Done
  <2>3. /\ v.can_transform /\ analysis.sales = Transform(upload.df, upload.config, v)
        /\ analysis.quality = Quality(TRUE, bad, total)
    <3>1. /\ v.can_transform /\ analysis.sales = Transform(upload.df, upload.config, v)
          /\ analysis.quality = Quality(v.can_transform, bad, total)
      BY <2>1, <2>2, Outcomes DEF Done
    <3>2. v.can_transform = TRUE
      BY <3>1 DEF Validate
    <3> QED
      BY <3>1, <3>2
  <2>4. bad \in Nat /\ total \in Nat /\ total = Len(upload.df)
    BY <2>2, InvalidRows
  <2>5. total # 0
    <3>1. upload.df # <<>>
      BY <2>3 DEF Validate, BlockingErrors
    <3> QED
      BY <2>2, <2>4, <3>1, UploadsAssumption
  <2>6. DOMAIN analysis.sales.quarantine = v.invalid
    BY <2>3 DEF Transform
  <2>7. /\ DecisionReady(analysis.quality) => InvalidTenths(bad, total) < 200
        /\ analysis.quality = "normal" => InvalidTenths(bad, total) < 50
    <3>1. bad \in Nat /\ total \in Nat \ {0}
      BY <2>4, <2>5
    <3> HIDE DEF v, bad, total
    <3> QED
      BY <2>3, <3>1, QualityLimits, Zenon
  <2> HIDE DEF v, bad, total
  <2>8. DecisionReady(analysis.quality) => 5 * bad < total
    BY <2>4, <2>5, <2>7, TenthsBound
  <2>9. analysis.quality = "normal" => 20 * bad < total
    BY <2>4, <2>5, <2>7, TenthsBound
  <2> QED
    BY <2>4, <2>6, <2>8, <2>9 DEF RestrictedWhenBad, bad
<1> QED
  BY <1>1, Invariance, PTL

-----------------------------------------------------------------------------
\* A row whose numbers were read has the amount its seller chose to believe.
LEMMA PricedRow ==
    ASSUME NEW u \in Uploads, NEW p \in DOMAIN u.df, ValidMapping(u.config),
           FinancialIssues(u.df[p], u.config) = {}
    PROVE  Authoritative(u.df[p], u.config) # None
<1> DEFINE r == u.df[p]
           c == u.config
<1>1. /\ DOMAIN r = c.mapping \cup {"other"}
      /\ \A f \in Numbers \cap DOMAIN r : r[f] \in Int \cup {Blank, Bad}
  BY UploadsAssumption
<1>2. RequiredFields(c.revenue_mode) \subseteq DOMAIN r
  BY <1>1 DEF ValidMapping
<1>3. \A f \in {"unit_price", "quantity", "revenue"} : f \in DOMAIN r => Value(r, f) # None
  BY DEF FinancialIssues, Flag
<1>4. \A f \in Numbers : Value(r, f) # None => Value(r, f) \in Int
  BY <1>1 DEF Value, Number
<1>5. Amount(r, "discount") \in Int
  BY <1>4 DEF Amount, Numbers
<1> HIDE DEF r, c
<1>6. CASE c.revenue_mode = "unit_price_times_quantity"
  <2>1. Value(r, "unit_price") \in Int /\ Value(r, "quantity") \in Int
    BY <1>2, <1>3, <1>4, <1>6 DEF RequiredFields, Numbers
  <2>2. Subtotal(r) \in Int
    BY <2>1, NoneAssumption DEF Subtotal
  <2>3. LineDiscount(r, c) \in Int
    BY <2>1, <2>2, <1>5, NoneAssumption DEF LineDiscount, Divide
  <2>4. c.discount_scope # "entire_order" => CalculatedTotal(r, c) # None
    BY <2>2, <2>3, NoneAssumption DEF CalculatedTotal
  <2> QED
    BY <1>6, <2>2, <2>4, NoneAssumption DEF Authoritative, CalculatedTotal, r, c
<1>7. CASE c.revenue_mode # "unit_price_times_quantity"
  <2>1. Value(r, "revenue") # None
    BY <1>2, <1>3, <1>7 DEF RequiredFields
  <2> QED
    BY <1>7, <2>1 DEF Authoritative, r, c
<1> QED
  BY <1>6, <1>7

\* A row with dates and statuses that were understood is read without a question.
LEMMA ReadableRow ==
    ASSUME NEW u \in Uploads, NEW p \in DOMAIN u.df, ValidMapping(u.config),
           DateIssues(u.df[p]) = {}, StatusIssues(u.df[p]) = {}
    PROVE  Readable(u.df[p])
<1> DEFINE r == u.df[p]
<1>1. /\ DOMAIN r = u.config.mapping \cup {"other"} /\ \A f \in DOMAIN r : r[f] # None
  BY UploadsAssumption
<1>2. "order_date" \in DOMAIN r
  BY <1>1 DEF ValidMapping, RequiredFields
<1> HIDE DEF r
<1>3. \A f \in {"order_status", "payment_status"} \cap DOMAIN r : r[f] \notin {Blank, Bad}
  <2>1. /\ Missing(r, {"order_status"}, "missing_status") = {}
        /\ Unparsed(r, {"order_status"}, "unknown_status") = {}
        /\ Missing(r, {"payment_status"}, "missing_payment_status") = {}
        /\ Unparsed(r, {"payment_status"}, "unknown_payment_status") = {}
    BY DEF StatusIssues, r
  <2> QED
    BY <2>1, NothingMissing, NothingUnparsed
<1>4. OrderStatus(r) # None
  BY <1>1, <1>3, NoneAssumption DEF OrderStatus, Number
<1>5. "payment_status" \in DOMAIN r => PaymentStatus(r) # None
  BY <1>1, <1>3 DEF PaymentStatus, Value, Number
<1>6. \A f \in {"order_date", "recognition_date", "refund_date"} \cap DOMAIN r : r[f] # Bad
  BY DEF DateIssues, Unparsed, r
<1>7. r["order_date"] # Blank
  BY <1>2 DEF DateIssues, Missing, r
<1> QED
  BY <1>4, <1>5, <1>6, <1>7 DEF Readable, r

\* What validation accepts can be transformed, whatever was uploaded and configured,
\* but for an order without a ratio to share its discount in
\* (transformation.py:239-257, 290-298).
THEOREM OnlyUndividedOrdersFailHolds == Spec => []OnlyUndividedOrdersFail
<1>1. IInv => OnlyUndividedOrdersFail
  <2> SUFFICES ASSUME IInv, analysis # None, Acceptable(upload.config)
               PROVE  OnlyUndividedOrdersFail
    BY DEF OnlyUndividedOrdersFail
  <2> DEFINE df == upload.df
             c == upload.config
             v == Validate(df, c)
             kept == Kept(df, c, Accepted(v))
  <2>1. PICK confirm \in BOOLEAN : analysis = AnalysisOf(upload, confirm)
    BY DEF IInv
  <2>2. upload \in Uploads /\ ValidMapping(c)
    BY DEF IInv, Acceptable
  <2>3. /\ analysis.status = 500 => Fails(df, c, v)
        /\ analysis.status = 422 => ~v.can_transform \/ c.reserved_column \/ Unpriced(df, c, v)
    BY <2>1, <2>2, Outcomes
  <2>4. ASSUME NEW p \in kept
        PROVE  Readable(df[p]) /\ Authoritative(df[p], c) # None
    <3>1. p \in Accepted(v) /\ p \in DOMAIN df /\ Issues(df, c)[p] = {}
      BY <2>2, InvalidRows DEF Kept, Accepted
    <3>2. RowIssues(df[p], c) = {}
      BY <3>1 DEF Issues
    <3>3. /\ FinancialIssues(df[p], c) = {} /\ DateIssues(df[p]) = {}
          /\ StatusIssues(df[p]) = {}
      BY <3>2 DEF RowIssues
    <3> QED
      BY <2>2, <3>1, <3>3, PricedRow, ReadableRow
  <2>5. ~Unpriced(df, c, v)
    BY <2>4 DEF Unpriced
  <2>6. Fails(df, c, v) => \E rows \in Orders(df, kept) : Undivided(df, c, rows)
    BY <2>4 DEF Fails
  <2>7. v.can_transform <=> v.blocking = {}
    BY DEF Validate
  <2> HIDE DEF v, kept
  <2> QED
    BY <2>3, <2>5, <2>6, <2>7 DEF OnlyUndividedOrdersFail, v, kept
<1> QED
  BY <1>1, Invariance, PTL

-----------------------------------------------------------------------------
\* What the rows of an order have of a field comes from the rows: fewer rows, fewer
\* values, and finitely many of finitely many.
LEMMA ComparedGrows ==
    ASSUME NEW df, NEW part, NEW c, NEW rows, NEW more, NEW field,
           rows \subseteq more, \A q \in rows : part[q] = df[q]
    PROVE  Compared(part, c, rows, field) \subseteq Compared(df, c, more, field)
<1>1. CASE field \in {"customer_id", "order_date"}
  BY <1>1 DEF Compared
<1>2. CASE field \in {"revenue", "order_status", "payment_status"}
  BY <1>2 DEF Compared
<1>3. CASE field \in {"state_or_region", "discount"}
  BY <1>3 DEF Compared
<1>4. CASE field \notin {"customer_id", "order_date", "revenue", "order_status",
                         "payment_status", "state_or_region", "discount"}
  BY <1>4 DEF Compared
<1> QED
  BY <1>1, <1>2, <1>3, <1>4

\* What finitely many rows give is finite.
LEMMA ImageFinite ==
    ASSUME NEW S, IsFiniteSet(S), NEW f, NEW T, T \subseteq {f[q] : q \in S}
    PROVE  IsFiniteSet(T)
<1> DEFINE g == [q \in S |-> f[q]]
<1>1. IsFiniteSet({g[q] : q \in S})
  <2>1. g \in [S -> {g[q] : q \in S}]
    OBVIOUS
  <2>2. g \in Surjection(S, {g[q] : q \in S})
    BY <2>1 DEF Surjection
  <2> QED
    BY <2>2, FS_Surjection
<1> QED
  BY <1>1, FS_Subset

\* And so is what they give of each field.
LEMMA ComparedFinite ==
    ASSUME NEW df, NEW c, NEW rows, NEW field, IsFiniteSet(rows)
    PROVE  IsFiniteSet(Compared(df, c, rows, field))
<1>1. CASE field \in {"customer_id", "order_date"}
  <2> DEFINE f == [q \in rows |-> df[q][field]]
  <2>1. Compared(df, c, rows, field) \subseteq {f[q] : q \in rows}
    BY <1>1 DEF Compared
  <2> QED
    BY <2>1, ImageFinite
<1>2. CASE field = "revenue"
  <2> DEFINE f == [q \in rows |-> Authoritative(df[q], c)]
  <2>1. Compared(df, c, rows, field) \subseteq {f[q] : q \in rows}
    BY <1>2 DEF Compared
  <2> QED
    BY <2>1, ImageFinite
<1>3. CASE field = "order_status"
  <2> DEFINE f == [q \in rows |-> OrderStatus(df[q])]
  <2>1. Compared(df, c, rows, field) \subseteq {f[q] : q \in rows}
    BY <1>3 DEF Compared
  <2> QED
    BY <2>1, ImageFinite
<1>4. CASE field = "payment_status"
  <2> DEFINE f == [q \in rows |-> PaymentStatus(df[q])]
  <2>1. Compared(df, c, rows, field) \subseteq {f[q] : q \in rows}
    BY <1>4 DEF Compared
  <2> QED
    BY <2>1, ImageFinite
<1>5. CASE field = "state_or_region"
  <2> DEFINE f == [q \in rows |-> df[q][field]]
  <2>1. Compared(df, c, rows, field) \subseteq {f[q] : q \in rows}
    BY <1>5 DEF Compared
  <2> QED
    BY <2>1, ImageFinite
<1>6. CASE field = "discount"
  <2> DEFINE f == [q \in rows |-> Amount(df[q], field)]
  <2>1. Compared(df, c, rows, field) \subseteq {f[q] : q \in rows}
    BY <1>6 DEF Compared
  <2> QED
    BY <2>1, ImageFinite
<1>7. CASE field \notin {"customer_id", "order_date", "revenue", "order_status",
                         "payment_status", "state_or_region", "discount"}
  <2> DEFINE f == [q \in rows |-> NormalizedCell(df[q], field)]
  <2>1. Compared(df, c, rows, field) \subseteq {f[q] : q \in rows}
    BY <1>7 DEF Compared
  <2> QED
    BY <2>1, ImageFinite
<1> QED
  BY <1>1, <1>2, <1>3, <1>4, <1>5, <1>6, <1>7

\* A finite set that does not have more than one element has at most one.
LEMMA OneAtMost ==
    ASSUME NEW S, IsFiniteSet(S), ~(Cardinality(S) > 1)
    PROVE  \A x \in S : \A y \in S : x = y
<1> SUFFICES ASSUME NEW x \in S, NEW y \in S, x # y PROVE FALSE
  OBVIOUS
<1>1. IsFiniteSet({x}) /\ Cardinality({x}) = 1
  BY FS_Singleton
<1>2. IsFiniteSet({x} \cup {y}) /\ Cardinality({x} \cup {y}) = 2
  <2>1. y \notin {x}
    OBVIOUS
  <2>2. /\ IsFiniteSet({x} \cup {y})
        /\ Cardinality({x} \cup {y}) =
              IF y \in {x} THEN Cardinality({x}) ELSE Cardinality({x}) + 1
    BY <1>1, FS_AddElement, Zenon
  <2> QED
    BY <1>1, <2>1, <2>2
<1>3. Cardinality({x} \cup {y}) <= Cardinality(S)
  BY <1>2, FS_Subset
<1> QED
  BY <1>2, <1>3, FS_CardinalityType

\* The rows of an upload are finitely many.
LEMMA RowsFinite ==
    ASSUME NEW u \in Uploads, NEW rows, rows \subseteq DOMAIN u.df
    PROVE  IsFiniteSet(rows)
BY UploadsAssumption, FS_Interval, FS_Subset

\* A row has no issue if there is none in it, in its repeats and in its order.
LEMMA IssueFree ==
    ASSUME NEW df, NEW c, NEW p \in DOMAIN df
    PROVE  Issues(df, c)[p] = {} <=>
              /\ RowIssues(df[p], c) = {}
              /\ DuplicateIssues(df, p) = {}
              /\ OrderIssues(df, c, p) = {}
<1>1. Issues(df, c)[p] = RowIssues(df[p], c) \cup DuplicateIssues(df, p) \cup OrderIssues(df, c, p)
  BY Zenon DEF Issues
<1> QED
  BY <1>1, Zenon

\* An order without a conflict has at most one value of what is compared.
LEMMA ConflictFree ==
    ASSUME NEW df, NEW c, NEW p, df[p]["order_id"] # Blank
    PROVE  OrderIssues(df, c, p) = {} <=>
              \A g \in ComparedFields(c) :
                 ~(Cardinality(Compared(df, c, SameOrder(df, p), g)) > 1)
<1> DEFINE conflicts == {g \in ComparedFields(c) :
                            Cardinality(Compared(df, c, SameOrder(df, p), g)) > 1}
<1>1. OrderIssues(df, c, p) = {<<f, "order_conflict">> : f \in conflicts}
  BY Zenon DEF OrderIssues
<1>2. OrderIssues(df, c, p) = {} <=> conflicts = {}
  <2> HIDE DEF conflicts
  <2> QED
    BY <1>1
<1> QED
  BY <1>2, Zenon

\* An accepted row has no issue.
LEMMA AcceptedIsClean ==
    ASSUME NEW u \in Uploads
    PROVE  \A p \in Accepted(Validate(u.df, u.config)) : Issues(u.df, u.config)[p] = {}
<1>1. PICK v : v = Validate(u.df, u.config)
  OBVIOUS
<1>2. \A p \in Accepted(v) : Issues(u.df, u.config)[p] = {}
  BY <1>1, InvalidRows
<1> QED
  BY <1>1, <1>2, Zenon

\* What validation accepts does not owe it to a row it rejects: alone, it would be
\* accepted again (validation.py:146-168, 540-633), for every upload.
THEOREM AcceptedStayValidHolds == Spec => []AcceptedStayValid
<1>1. IInv => AcceptedStayValid
  <2> SUFFICES ASSUME IInv, review # None, review.status = 200
               PROVE  AcceptedStayValid
    BY DEF AcceptedStayValid
  <2> DEFINE df == upload.df
             c == upload.config
             v == Validate(df, c)
             rest == [p \in Accepted(v) |-> df[p]]
  <2>1. review.validation = v
    BY DEF IInv, ReviewOf, Refused, Refusal
  <2>2. upload \in Uploads
    BY DEF IInv
  <2>3. DOMAIN rest \subseteq DOMAIN df /\ \A q \in DOMAIN rest : rest[q] = df[q]
    BY <2>2, InvalidRows DEF Accepted
  <2>4. ASSUME NEW p \in DOMAIN rest
        PROVE  Issues(rest, c)[p] = {}
    <3>1. p \in DOMAIN df /\ Issues(df, c)[p] = {}
      <4>1. p \in Accepted(v)
        <5> HIDE DEF v
        <5> QED
          OBVIOUS
      <4>2. p \in DOMAIN df
        <5> HIDE DEF rest, df
        <5> QED
          BY <2>3
      <4>3. Issues(df, c)[p] = {}
        BY <2>2, <4>1, AcceptedIsClean
      <4> QED
        BY <4>2, <4>3
    <3>2. RowIssues(df[p], c) = {} /\ DuplicateIssues(df, p) = {} /\ OrderIssues(df, c, p) = {}
      <4> HIDE DEF df, c
      <4> QED
        BY <3>1, IssueFree
    <3>3. RowIssues(rest[p], c) = {}
      BY <2>3, <3>2
    <3>4. DuplicateIssues(rest, p) = {}
      <4> HIDE DEF rest, df
      <4> QED
        BY <2>3, <3>2 DEF DuplicateIssues, Flag
    <3>5. OrderIssues(rest, c, p) = {}
      <4>1. CASE df[p]["order_id"] = Blank
        BY <2>3, <4>1, Zenon DEF OrderIssues
      <4>2. ASSUME df[p]["order_id"] # Blank, NEW g \in ComparedFields(c)
            PROVE  ~(Cardinality(Compared(rest, c, SameOrder(rest, p), g)) > 1)
        <5> DEFINE fewer == Compared(rest, c, SameOrder(rest, p), g)
                   all == Compared(df, c, SameOrder(df, p), g)
        <5>1. SameOrder(rest, p) \subseteq SameOrder(df, p)
          <6> HIDE DEF rest, df
          <6> QED
            BY <2>3 DEF SameOrder
        <5>2. \A q \in SameOrder(rest, p) : rest[q] = df[q]
          BY <2>3 DEF SameOrder
        <5>3. fewer \subseteq all
          <6> HIDE DEF rest, df
          <6> QED
            BY <5>1, <5>2, ComparedGrows
        <5>4. IsFiniteSet(all)
          <6>1. SameOrder(df, p) \subseteq DOMAIN df
            BY DEF SameOrder
          <6> QED
            BY <2>2, <6>1, RowsFinite, ComparedFinite
        <5>5. ~(Cardinality(all) > 1)
          <6> HIDE DEF df, c
          <6> QED
            BY <3>2, <4>2, ConflictFree
        <5> HIDE DEF fewer, all
        <5>6. Cardinality(fewer) <= Cardinality(all) /\ IsFiniteSet(fewer)
          BY <5>3, <5>4, FS_Subset
        <5> QED
          BY <5>4, <5>5, <5>6, FS_CardinalityType DEF fewer
      <4>3. CASE df[p]["order_id"] # Blank
        <5>1. rest[p]["order_id"] # Blank
          BY <2>3, <4>3
        <5> QED
          <6> HIDE DEF df, c, rest
          <6> QED
            BY <4>2, <4>3, <5>1, ConflictFree
      <4> QED
        BY <4>1, <4>3
    <3> HIDE DEF rest, df, c
    <3> QED
      BY <3>3, <3>4, <3>5, IssueFree, ZenonT(30)
  <2> HIDE DEF v
  <2> QED
    BY <2>1, <2>4 DEF AcceptedStayValid
<1> QED
  BY <1>1, Invariance, PTL

-----------------------------------------------------------------------------
\* The rows have at most one value of a field.
Agreed(df, c, rows, field) == \A x, y \in Compared(df, c, rows, field) : x = y

\* An accepted row names its order, its date is a date, and its order has one value
\* of each thing that is compared.
LEMMA AcceptedRow ==
    ASSUME NEW u \in Uploads, ValidMapping(u.config),
           NEW v, v = Validate(u.df, u.config), NEW p \in Accepted(v)
    PROVE  /\ p \in DOMAIN u.df
           /\ FinancialIssues(u.df[p], u.config) = {}
           /\ AdjustmentIssues(u.df[p], u.config) = {}
           /\ u.df[p]["order_date"] \notin {Blank, Bad}
           /\ \A g \in ComparedFields(u.config) :
                 Agreed(u.df, u.config, SameOrder(u.df, p), g)
<1> DEFINE r == u.df[p]
           c == u.config
<1>1. p \in DOMAIN u.df /\ Issues(u.df, c)[p] = {}
  BY InvalidRows DEF Accepted
<1>2. RowIssues(r, c) = {} /\ OrderIssues(u.df, c, p) = {}
  BY <1>1, IssueFree
<1>3. /\ FinancialIssues(r, c) = {} /\ AdjustmentIssues(r, c) = {}
      /\ DateIssues(r) = {} /\ IdIssues(r) = {}
  BY <1>2 DEF RowIssues
<1>4. {"order_id", "order_date"} \subseteq DOMAIN r
  BY <1>1, UploadsAssumption DEF ValidMapping, RequiredFields
<1>5. r["order_id"] # Blank
  <2>1. \A f \in {"order_id", "customer_id"} \cap DOMAIN r : r[f] # Blank
    BY <1>3, NothingMissing DEF IdIssues
  <2> QED
    BY <1>4, <2>1
<1>6. r["order_date"] \notin {Blank, Bad}
  <2>1. \A f \in {"order_date"} \cap DOMAIN r : r[f] # Blank
    <3>1. Missing(r, {"order_date"}, "missing_required_value") = {}
      BY <1>3 DEF DateIssues
    <3> QED
      BY <3>1, NothingMissing
  <2>2. \A f \in {"order_date", "recognition_date", "refund_date"} \cap DOMAIN r : r[f] # Bad
    <3>1. Unparsed(r, {"order_date", "recognition_date", "refund_date"}, "invalid_date") = {}
      BY <1>3 DEF DateIssues
    <3> QED
      BY <3>1, NothingUnparsed
  <2> QED
    BY <1>4, <2>1, <2>2
<1>7. ASSUME NEW g \in ComparedFields(c)
      PROVE  Agreed(u.df, c, SameOrder(u.df, p), g)
  <2>1. ~(Cardinality(Compared(u.df, c, SameOrder(u.df, p), g)) > 1)
    BY <1>2, <1>5, ConflictFree
  <2>2. IsFiniteSet(SameOrder(u.df, p))
    BY RowsFinite DEF SameOrder
  <2> QED
    BY <2>1, <2>2, ComparedFinite, OneAtMost DEF Agreed
<1> QED
  BY <1>1, <1>3, <1>6, <1>7

\* What is read of an adjustment that has no issue is the cell once normalized.
LEMMA AdjustmentRead ==
    ASSUME NEW r, NEW c, AdjustmentIssues(r, c) = {}, NEW g \in Adjustments \cap DOMAIN r,
           r[g] # None
    PROVE  Amount(r, g) = NormalizedCell(r, g)
<1>1. Unparsed(r, Adjustments, "invalid_number") = {}
  BY DEF AdjustmentIssues
<1>2. r[g] # Bad
  BY <1>1, NothingUnparsed
<1> QED
  BY <1>2 DEF Amount, Value, Number, NormalizedCell

\* The rows of an order that are accepted say the same of all that is read from
\* rows that stand for orders.
LEMMA SameOrderSame ==
    ASSUME NEW u \in Uploads, ValidMapping(u.config), u.config.revenue_mode = "order_total",
           NEW v, v = Validate(u.df, u.config),
           NEW p \in Accepted(v), NEW q \in Accepted(v),
           u.df[q]["order_id"] = u.df[p]["order_id"]
    PROVE  /\ Authoritative(u.df[p], u.config) \in Int
           /\ Authoritative(u.df[q], u.config) = Authoritative(u.df[p], u.config)
           /\ OrderStatus(u.df[q]) = OrderStatus(u.df[p])
           /\ PaymentStatus(u.df[q]) = PaymentStatus(u.df[p])
           /\ \A g \in {"refund_amount", "tax_amount", "chargeback_amount", "payment_amount"} :
                 Amount(u.df[q], g) = Amount(u.df[p], g)
           /\ u.df[q]["order_date"] = u.df[p]["order_date"]
           /\ DOMAIN u.df[q] = DOMAIN u.df[p]
           /\ Subtotal(u.df[q]) = None /\ Subtotal(u.df[p]) = None
           /\ "recognition_date" \in DOMAIN u.df[p] =>
                 u.df[q]["recognition_date"] = u.df[p]["recognition_date"]
<1> DEFINE df == u.df
           c == u.config
           rows == SameOrder(df, p)
<1>1. /\ p \in DOMAIN df /\ q \in DOMAIN df
      /\ \A g \in ComparedFields(c) : \A x, y \in Compared(df, c, rows, g) : x = y
  <2>1. p \in DOMAIN df /\ q \in DOMAIN df
    BY InvalidRows DEF Accepted
  <2>2. \A g \in ComparedFields(c) : Agreed(df, c, rows, g)
    BY AcceptedRow
  <2> QED
    BY <2>1, <2>2 DEF Agreed
<1>2. p \in rows /\ q \in rows
  BY <1>1 DEF SameOrder
<1>3. DOMAIN df[p] = c.mapping \cup {"other"} /\ DOMAIN df[q] = c.mapping \cup {"other"}
  BY <1>1, UploadsAssumption
<1>4. {"order_date", "revenue", "order_status", "payment_status"} \subseteq ComparedFields(c)
  BY DEF ComparedFields
<1>5. Authoritative(df[p], c) # None /\ Authoritative(df[q], c) # None
  BY <1>1, AcceptedRow, PricedRow
<1>6. Authoritative(df[p], c) \in Int
  <2>1. "revenue" \in DOMAIN df[p]
    BY <1>3 DEF ValidMapping, RequiredFields
  <2>2. df[p]["revenue"] \in Int \cup {Blank, Bad}
    BY <1>1, <2>1, UploadsAssumption DEF Numbers
  <2>3. Value(df[p], "revenue") # None
    BY <2>1, AcceptedRow DEF FinancialIssues, Flag
  <2>4. Value(df[p], "revenue") \in Int
    BY <2>2, <2>3 DEF Value, Number
  <2> QED
    BY <2>3, <2>4 DEF Authoritative
<1>7. Authoritative(df[q], c) = Authoritative(df[p], c)
  <2>1. \A x \in rows : Authoritative(df[x], c) # None =>
           Authoritative(df[x], c) \in Compared(df, c, rows, "revenue")
    BY DEF Compared
  <2> QED
    BY <1>1, <1>2, <1>4, <1>5, <2>1
<1>8. OrderStatus(df[q]) = OrderStatus(df[p])
  <2>1. \A x \in rows : OrderStatus(df[x]) \in Compared(df, c, rows, "order_status")
    BY DEF Compared
  <2> QED
    BY <1>1, <1>2, <1>4, <2>1
<1>9. PaymentStatus(df[q]) = PaymentStatus(df[p])
  <2>1. \A x \in rows : PaymentStatus(df[x]) \in Compared(df, c, rows, "payment_status")
    BY DEF Compared
  <2> QED
    BY <1>1, <1>2, <1>4, <2>1
<1>10. df[q]["order_date"] = df[p]["order_date"]
  <2>1. \A x \in rows : df[x]["order_date"] \notin {Blank, Bad} =>
           df[x]["order_date"] \in Compared(df, c, rows, "order_date")
    BY DEF Compared
  <2>2. df[p]["order_date"] \notin {Blank, Bad} /\ df[q]["order_date"] \notin {Blank, Bad}
    BY AcceptedRow
  <2> QED
    BY <1>1, <1>2, <1>4, <2>1, <2>2
<1>11. ASSUME NEW g \in {"recognition_date", "refund_amount", "tax_amount", "chargeback_amount",
                         "payment_amount"} \cap c.mapping
       PROVE  NormalizedCell(df[q], g) = NormalizedCell(df[p], g)
  <2>1. g \in ComparedFields(c)
    BY DEF ComparedFields, Adjustments
  <2>2. \A x \in rows : NormalizedCell(df[x], g) \in Compared(df, c, rows, g)
    BY DEF Compared
  <2> QED
    BY <1>1, <1>2, <2>1, <2>2
<1>12. ASSUME NEW g \in {"refund_amount", "tax_amount", "chargeback_amount", "payment_amount"}
       PROVE  Amount(df[q], g) = Amount(df[p], g)
  <2>1. CASE g \in c.mapping
    <3>1. g \in Adjustments /\ g \in DOMAIN df[p] /\ g \in DOMAIN df[q]
      BY <1>3, <2>1 DEF Adjustments
    <3>2. df[p][g] # None /\ df[q][g] # None
      BY <1>1, <3>1, UploadsAssumption
    <3>3. AdjustmentIssues(df[p], c) = {} /\ AdjustmentIssues(df[q], c) = {}
      BY AcceptedRow
    <3> QED
      BY <1>11, <2>1, <3>1, <3>2, <3>3, AdjustmentRead
  <2>2. CASE g \notin c.mapping
    <3>1. g \notin DOMAIN df[p] /\ g \notin DOMAIN df[q]
      BY <1>3, <2>2
    <3> QED
      BY <3>1 DEF Amount, Value
  <2> QED
    BY <2>1, <2>2
<1>13. "recognition_date" \in DOMAIN df[p] =>
          df[q]["recognition_date"] = df[p]["recognition_date"]
  BY <1>3, <1>11 DEF NormalizedCell, Adjustments
<1>14. Subtotal(df[q]) = None /\ Subtotal(df[p]) = None
  <2>1. "quantity" \notin c.mapping \cup {"other"}
    BY DEF ValidMapping, RequiredFields, OptionalFields
  <2> QED
    BY <1>3, <2>1 DEF Subtotal, Value
<1> QED
  BY <1>3, <1>6, <1>7, <1>8, <1>9, <1>10, <1>12, <1>13, <1>14

-----------------------------------------------------------------------------
(***************************************************************************)
(* Sums of whole numbers.  A fold takes the members of a set in an order   *)
(* nobody knows.  What it comes to can be counted without one: the units   *)
(* of the positive numbers less those of the negative ones.                *)
(***************************************************************************)
Credits(f, S) == UNION {{x} \X (1 .. f[x]) : x \in S}
Debts(f, S) == UNION {{x} \X (1 .. -f[x]) : x \in S}
Net(f, S) == Cardinality(Credits(f, S)) - Cardinality(Debts(f, S))
IsSum(f, S) == IsFiniteSet(S) /\ \A x \in S : f[x] \in Int

LEMMA CreditsFinite ==
    ASSUME NEW f, NEW S, IsSum(f, S)
    PROVE  IsFiniteSet(Credits(f, S)) /\ Cardinality(Credits(f, S)) \in Nat
<1> DEFINE part == [x \in S |-> {x} \X (1 .. f[x])]
<1>1. ASSUME NEW x \in S PROVE IsFiniteSet(part[x])
  <2>1. IsFiniteSet({x}) /\ IsFiniteSet(1 .. f[x])
    <3>1. f[x] \in Int /\ 1 \in Int
      BY DEF IsSum
    <3> QED
      BY <3>1, FS_Singleton, FS_Interval
  <2> QED
    BY <2>1, FS_Product
<1>2. IsFiniteSet({part[x] : x \in S})
  <2> DEFINE T == {part[x] : x \in S}
  <2>1. T \subseteq {part[x] : x \in S} /\ IsFiniteSet(S)
    BY DEF IsSum
  <2> HIDE DEF part
  <2>2. IsFiniteSet(T)
    BY <2>1, ImageFinite
  <2> QED
    BY <2>2
<1>3. \A T \in {part[x] : x \in S} : IsFiniteSet(T)
  BY <1>1
<1>4. Credits(f, S) = UNION {part[x] : x \in S}
  BY DEF Credits
<1> HIDE DEF part
<1>5. IsFiniteSet(Credits(f, S))
  BY <1>2, <1>3, <1>4, FS_UNION
<1> QED
  BY <1>5, FS_CardinalityType

\* What is owed is what is earned with the signs turned.
LEMMA DebtsAreCredits ==
    ASSUME NEW f, NEW S, IsSum(f, S)
    PROVE  LET opposite == [x \in S |-> -f[x]]
           IN  IsSum(opposite, S) /\ Debts(f, S) = Credits(opposite, S)
BY DEF IsSum, Debts, Credits

\* A member and the others share no unit.
LEMMA CreditsSplit ==
    ASSUME NEW f, NEW S, IsSum(f, S), NEW x \in S
    PROVE  Cardinality(Credits(f, S)) =
              (IF f[x] > 0 THEN f[x] ELSE 0) + Cardinality(Credits(f, S \ {x}))
<1> DEFINE own == {x} \X (1 .. f[x])
           others == Credits(f, S \ {x})
<1>1. IsSum(f, S \ {x})
  BY FS_Subset DEF IsSum
<1>2. Credits(f, S) = own \cup others /\ own \cap others = {}
  BY DEF Credits
<1>3. f[x] \in Int
  BY DEF IsSum
<1>4. IsFiniteSet(1 .. f[x]) /\ Cardinality(1 .. f[x]) = IF f[x] > 0 THEN f[x] ELSE 0
  <2>1. CASE f[x] > 0
    <3> DEFINE n == f[x]
    <3>1. n \in Nat /\ n > 0 /\ 1 \in Int /\ n \in Int
      BY <1>3, <2>1
    <3> HIDE DEF n
    <3>2. IsFiniteSet(1 .. n) /\ Cardinality(1 .. n) = n - 1 + 1
      BY <3>1, FS_Interval
    <3>3. Cardinality(1 .. n) = n
      BY <3>1, <3>2
    <3> QED
      BY <2>1, <3>2, <3>3 DEF n
  <2>2. CASE ~(f[x] > 0)
    <3>1. 1 .. f[x] = {}
      BY <1>3, <2>2
    <3> QED
      BY <2>2, <3>1, FS_EmptySet
  <2> QED
    BY <2>1, <2>2
<1>5. IsFiniteSet(own) /\ Cardinality(own) = 1 * Cardinality(1 .. f[x])
  <2>1. IsFiniteSet({x}) /\ Cardinality({x}) = 1
    BY FS_Singleton
  <2> HIDE DEF own
  <2>2. IsFiniteSet({x} \X (1 .. f[x]))
        /\ Cardinality({x} \X (1 .. f[x])) = Cardinality({x}) * Cardinality(1 .. f[x])
    BY <1>4, <2>1, FS_Product
  <2> QED
    BY <2>1, <2>2 DEF own
<1>6. IsFiniteSet(others) /\ Cardinality(others) \in Nat
  BY <1>1, CreditsFinite
<1>7. Cardinality(own \cup others) = Cardinality(own) + Cardinality(others) - Cardinality(own \cap others)
  <2> HIDE DEF own, others
  <2> QED
    BY <1>5, <1>6, FS_Union
<1>8. Cardinality(own \cap others) = 0
  BY <1>2, FS_EmptySet
<1> HIDE DEF own, others
<1>9. Cardinality(own) = IF f[x] > 0 THEN f[x] ELSE 0
  BY <1>3, <1>4, <1>5
<1>10. Cardinality(Credits(f, S)) = Cardinality(own) + Cardinality(others)
  BY <1>2, <1>3, <1>6, <1>7, <1>8, <1>9
<1> QED
  BY <1>9, <1>10 DEF others

\* The net of a set is what one member brings and the net of the others.
LEMMA NetStep ==
    ASSUME NEW f, NEW S, IsSum(f, S)
    PROVE  /\ Net(f, S) \in Int
           /\ Net(f, {}) = 0
           /\ \A x \in S : Net(f, S) = f[x] + Net(f, S \ {x})
<1> DEFINE opposite(T) == [y \in T |-> -f[y]]
<1>1. /\ Cardinality(Credits(f, S)) \in Nat
      /\ IsSum(opposite(S), S) /\ Debts(f, S) = Credits(opposite(S), S)
  BY CreditsFinite, DebtsAreCredits
<1>2. Cardinality(Debts(f, S)) \in Nat
  <2> HIDE DEF opposite
  <2> QED
    BY <1>1, CreditsFinite
<1>3. Net(f, {}) = 0
  <2>1. Credits(f, {}) = {} /\ Debts(f, {}) = {}
    BY DEF Credits, Debts
  <2> QED
    BY <2>1, FS_EmptySet DEF Net
<1>4. ASSUME NEW x \in S PROVE Net(f, S) = f[x] + Net(f, S \ {x})
  <2> DEFINE rest == S \ {x}
  <2>1. IsSum(f, rest) /\ f[x] \in Int
    BY FS_Subset DEF IsSum
  <2>2. Cardinality(Credits(f, S)) =
           (IF f[x] > 0 THEN f[x] ELSE 0) + Cardinality(Credits(f, rest))
    BY CreditsSplit
  <2>3. Cardinality(Credits(opposite(S), S)) =
           (IF opposite(S)[x] > 0 THEN opposite(S)[x] ELSE 0)
              + Cardinality(Credits(opposite(S), rest))
    <3> HIDE DEF opposite
    <3> QED
      BY <1>1, CreditsSplit
  <2>4. Credits(opposite(S), rest) = Debts(f, rest)
    BY DEF Credits, Debts
  <2>5. opposite(S)[x] = -f[x]
    OBVIOUS
  <2>6. Cardinality(Credits(f, rest)) \in Nat
    <3> HIDE DEF rest
    <3> QED
      BY <2>1, CreditsFinite
  <2>7. Cardinality(Debts(f, rest)) \in Nat
    <3>1. IsSum(opposite(rest), rest) /\ Debts(f, rest) = Credits(opposite(rest), rest)
      <4> HIDE DEF rest
      <4> QED
        BY <2>1, DebtsAreCredits
    <3> HIDE DEF rest, opposite
    <3> QED
      BY <3>1, CreditsFinite
  <2> HIDE DEF opposite, rest
  <2>8. Cardinality(Debts(f, S)) = (IF -f[x] > 0 THEN -f[x] ELSE 0) + Cardinality(Debts(f, rest))
    BY <1>1, <2>3, <2>4, <2>5
  <2>9. Net(f, S) = f[x] + Net(f, rest)
    BY <2>1, <2>2, <2>6, <2>7, <2>8 DEF Net
  <2> QED
    BY <2>9 DEF rest
<1>5. Net(f, S) \in Int
  BY <1>1, <1>2 DEF Net
<1> QED
  BY <1>3, <1>4, <1>5

\* Every fold that adds up a finite set comes to its net: the net obeys the equation
\* of the fold, and two functions that obey it have no smallest set to differ on.
LEMMA SumIsNet ==
    ASSUME NEW f, NEW S, IsSum(f, S)
    PROVE  MapThenSumSet(LAMBDA x : f[x], S) = Net(f, S)
<1> DEFINE First(T) == CHOOSE x \in T : TRUE
           Adds(g) == [T \in SUBSET S |-> IF T = {} THEN 0 ELSE f[First(T)] + g[T \ {First(T)}]]
           iter == CHOOSE g : g = Adds(g)
           net == [T \in SUBSET S |-> Net(f, T)]
<1>1. MapThenSumSet(LAMBDA x : f[x], S) = iter[S]
  BY DEF MapThenSumSet, MapThenFoldSet
<1>2. \A T \in SUBSET S : IsSum(f, T)
  BY FS_Subset DEF IsSum
<1>3. \A T \in SUBSET S : T # {} => First(T) \in T
  OBVIOUS
<1>4. ASSUME NEW T \in SUBSET S
      PROVE  Net(f, T) = IF T = {} THEN 0 ELSE f[First(T)] + Net(f, T \ {First(T)})
  <2> HIDE DEF First
  <2> QED
    BY <1>2, <1>3, NetStep
<1>5. net = Adds(net)
  <2>1. \A T \in SUBSET S : T \ {First(T)} \in SUBSET S
    OBVIOUS
  <2> HIDE DEF First
  <2> QED
    BY <1>4, <2>1
<1>6. iter = Adds(iter)
  <2> HIDE DEF Adds, net
  <2> QED
    BY <1>5
<1>7. \A T \in SUBSET S : iter[T] = IF T = {} THEN 0 ELSE f[First(T)] + iter[T \ {First(T)}]
  <2> HIDE DEF iter, First
  <2> QED
    BY <1>6
<1> DEFINE Odd == {T \in SUBSET S : iter[T] # Net(f, T)}
           sizes == {n \in Nat : \E T \in Odd : n = Cardinality(T)}
<1> HIDE DEF iter, Adds, net
<1>8. \A T \in SUBSET S : IsFiniteSet(T) /\ Cardinality(T) \in Nat
  BY <1>2, FS_CardinalityType DEF IsSum
<1>9. Odd = {}
  <2> SUFFICES ASSUME Odd # {} PROVE FALSE
    OBVIOUS
  <2>1. sizes \subseteq Nat /\ sizes # {}
    BY <1>8
  <2>2. PICK n \in sizes : \A m \in sizes : n <= m
    <3> HIDE DEF sizes
    <3> QED
      BY <2>1, FirstOf
  <2>3. PICK T \in Odd : n = Cardinality(T)
    OBVIOUS
  <2>4. T \in SUBSET S /\ T # {} /\ First(T) \in T
    BY <1>3, <1>4, <1>7
  <2> DEFINE rest == T \ {First(T)}
  <2>5. rest \in SUBSET S /\ Cardinality(rest) = n - 1 /\ Cardinality(rest) \in Nat
    <3> HIDE DEF First
    <3> QED
      BY <1>8, <2>3, <2>4, FS_RemoveElement
  <2>6. rest \notin Odd
    <3> SUFFICES ASSUME rest \in Odd PROVE FALSE
      OBVIOUS
    <3>1. Cardinality(rest) \in sizes
      BY <2>5
    <3>2. n <= n - 1 /\ n \in Nat
      <4> HIDE DEF rest, sizes
      <4> QED
        BY <2>1, <2>2, <2>5, <3>1
    <3> QED
      BY <3>2
  <2>7. iter[rest] = Net(f, rest)
    BY <2>5, <2>6
  <2>8. iter[T] = Net(f, T)
    <3> HIDE DEF First, Odd
    <3> QED
      BY <1>4, <1>7, <2>4, <2>7
  <2> QED
    BY <2>8
<1>10. iter[S] = Net(f, S)
  BY <1>9
<1> QED
  BY <1>1, <1>10

-----------------------------------------------------------------------------
\* What does not count adds nothing.
LEMMA NetOfZeros ==
    ASSUME NEW f, NEW S, \A x \in S : f[x] = 0
    PROVE  Net(f, S) = 0
<1>1. Credits(f, S) = {} /\ Debts(f, S) = {}
  BY SMT DEF Credits, Debts
<1> QED
  BY <1>1, FS_EmptySet DEF Net

\* Subtotals of lines with numbers, or none, are a number, and nothing if all are none.
LEMMA SubtotalsType ==
    ASSUME NEW df, NEW rows, IsFiniteSet(rows),
           \A q \in rows : Subtotal(df[q]) \in Int \cup {None}
    PROVE  /\ Subtotals(df, rows) \in Int
           /\ (\A q \in rows : Subtotal(df[q]) = None) => Subtotals(df, rows) = 0
<1> DEFINE amount == [q \in rows |-> IF Subtotal(df[q]) = None THEN 0 ELSE Subtotal(df[q])]
           First(T) == CHOOSE q \in T : TRUE
           Adds(g) == [T \in SUBSET rows |->
                         IF T = {} THEN 0
                         ELSE (IF Subtotal(df[First(T)]) = None THEN 0 ELSE Subtotal(df[First(T)]))
                                 + g[T \ {First(T)}]]
           AddsAmounts(g) == [T \in SUBSET rows |->
                                IF T = {} THEN 0 ELSE amount[First(T)] + g[T \ {First(T)}]]
<1>1. \A T \in SUBSET rows : T # {} => First(T) \in rows
  OBVIOUS
<1>2. \A g : Adds(g) = AddsAmounts(g)
  <2> HIDE DEF First
  <2> QED
    BY <1>1
<1>3. /\ Subtotals(df, rows) = (CHOOSE g : g = Adds(g))[rows]
      /\ MapThenSumSet(LAMBDA q : amount[q], rows) = (CHOOSE g : g = AddsAmounts(g))[rows]
  BY DEF Subtotals, MapThenSumSet, MapThenFoldSet
<1>4. IsSum(amount, rows)
  BY DEF IsSum
<1>5. /\ MapThenSumSet(LAMBDA q : amount[q], rows) \in Int
      /\ (\A q \in rows : amount[q] = 0) => MapThenSumSet(LAMBDA q : amount[q], rows) = 0
  <2> HIDE DEF amount
  <2>1. MapThenSumSet(LAMBDA q : amount[q], rows) = Net(amount, rows)
    BY <1>4, SumIsNet
  <2> QED
    BY <1>4, <2>1, NetStep, NetOfZeros
<1> HIDE DEF Adds, AddsAmounts
<1>6. (CHOOSE g : g = Adds(g)) = (CHOOSE g : g = AddsAmounts(g))
  BY <1>2
<1> QED
  BY <1>3, <1>5, <1>6

\* What the rows but one are given in proportion: like any numbers, their shares add
\* up to their net.
Others(df, c, rows, p) == MapThenSumSet(LAMBDA q : Share(df, c, rows, q), rows \ {p})

LEMMA Allocation ==
    ASSUME NEW df, NEW c, NEW rows, NEW p
    PROVE  LET given == OrderDiscount(df, c, rows)
               allocated == AllocatedDiscount(df, c, rows, p)
           IN  /\ c.discount_scope # "entire_order" \/ given = 0 => allocated = 0
               /\ c.discount_scope = "entire_order" /\ given # 0 =>
                     /\ c.order_discount_allocation = "unallocated" =>
                           allocated = IF p = Min(rows) THEN given ELSE 0
                     /\ c.order_discount_allocation # "unallocated" /\ p # Max(rows) =>
                           allocated = Share(df, c, rows, p)
                     /\ c.order_discount_allocation # "unallocated" /\ p = Max(rows) =>
                           allocated = given - Others(df, c, rows, p)
<1> DEFINE given == OrderDiscount(df, c, rows)
           left == given - Others(df, c, rows, p)
<1>1. AllocatedDiscount(df, c, rows, p) =
         IF c.discount_scope # "entire_order" \/ given = 0 THEN 0
         ELSE IF c.order_discount_allocation = "unallocated"
         THEN IF p = Min(rows) THEN given ELSE 0
         ELSE IF p # Max(rows) THEN Share(df, c, rows, p)
         ELSE left
  BY Zenon DEF AllocatedDiscount, Others
<1> HIDE DEF left, given
<1>2. ASSUME c.discount_scope # "entire_order" \/ given = 0
      PROVE  AllocatedDiscount(df, c, rows, p) = 0
  BY <1>1, <1>2, Zenon
<1>3. ASSUME c.discount_scope = "entire_order", given # 0,
             c.order_discount_allocation = "unallocated"
      PROVE  AllocatedDiscount(df, c, rows, p) = IF p = Min(rows) THEN given ELSE 0
  BY <1>1, <1>3, Zenon
<1>4. ASSUME c.discount_scope = "entire_order", given # 0,
             c.order_discount_allocation # "unallocated", p # Max(rows)
      PROVE  AllocatedDiscount(df, c, rows, p) = Share(df, c, rows, p)
  BY <1>1, <1>4, Zenon
<1>5. ASSUME c.discount_scope = "entire_order", given # 0,
             c.order_discount_allocation # "unallocated", p = Max(rows)
      PROVE  AllocatedDiscount(df, c, rows, p) = left
  BY <1>1, <1>5, Zenon
<1> QED
  BY <1>2, <1>3, <1>4, <1>5, Zenon DEF left, given

LEMMA SharesAdd ==
    ASSUME NEW df, NEW c, NEW rows, NEW p, NEW share, IsSum(share, rows \ {p}),
           \A q \in rows \ {p} : share[q] = Share(df, c, rows, q)
    PROVE  Others(df, c, rows, p) = Net(share, rows \ {p})
<1> DEFINE T == rows \ {p}
           First(U) == CHOOSE q \in U : TRUE
           AddsShares(g) == [U \in SUBSET T |->
                               IF U = {} THEN 0
                               ELSE Share(df, c, rows, First(U)) + g[U \ {First(U)}]]
           Adds(g) == [U \in SUBSET T |->
                         IF U = {} THEN 0 ELSE share[First(U)] + g[U \ {First(U)}]]
<1>1. \A U \in SUBSET T : U # {} => First(U) \in T
  OBVIOUS
<1>2. \A g : AddsShares(g) = Adds(g)
  <2> HIDE DEF First
  <2> QED
    BY <1>1
<1>3. /\ Others(df, c, rows, p) = (CHOOSE g : g = AddsShares(g))[T]
      /\ MapThenSumSet(LAMBDA q : share[q], T) = (CHOOSE g : g = Adds(g))[T]
  BY DEF Others, MapThenSumSet, MapThenFoldSet
<1>4. MapThenSumSet(LAMBDA q : share[q], T) = Net(share, T)
  <2> HIDE DEF T
  <2>1. IsSum(share, T)
    BY DEF T
  <2> QED
    BY <2>1, SumIsNet
<1> HIDE DEF AddsShares, Adds
<1>5. (CHOOSE g : g = AddsShares(g)) = (CHOOSE g : g = Adds(g))
  BY <1>2
<1> QED
  BY <1>3, <1>4, <1>5

-----------------------------------------------------------------------------
\* An inhabited set of positions has a first and a last one.
LEMMA FirstAndLast ==
    ASSUME NEW n \in Nat, NEW S, S \subseteq 1 .. n, S # {}
    PROVE  Min(S) \in S /\ Max(S) \in S
<1>1. \E m \in S : \A x \in S : m <= x
  <2>1. S \subseteq Nat
    OBVIOUS
  <2> QED
    BY <2>1, FirstOf
<1>2. \E m \in S : \A x \in S : x <= m
  <2> DEFINE T == {n - m : m \in S}
  <2>1. T \subseteq Nat /\ T # {}
    <3>1. \A m \in S : n - m \in Nat
      OBVIOUS
    <3> QED
      BY <3>1
  <2>2. PICK t \in T : \A x \in T : t <= x
    <3> HIDE DEF T
    <3> QED
      BY <2>1, FirstOf
  <2>3. PICK m \in S : t = n - m
    OBVIOUS
  <2>4. ASSUME NEW x \in S PROVE x <= m
    <3>1. n - m <= n - x /\ m \in Int /\ x \in Int
      BY <2>2, <2>3
    <3> QED
      BY <3>1
  <2> QED
    BY <2>4
<1> QED
  BY <1>1, <1>2 DEF Min, Max

\* Only what is added up matters.
LEMMA NetOfSame ==
    ASSUME NEW f, NEW g, NEW S, \A x \in S : f[x] = g[x]
    PROVE  Net(f, S) = Net(g, S)
<1>1. Credits(f, S) = Credits(g, S) /\ Debts(f, S) = Debts(g, S)
  BY DEF Credits, Debts
<1> QED
  BY <1>1 DEF Net

LEMMA DivideType ==
    ASSUME NEW n \in Int, NEW d \in Int, d # 0
    PROVE  Divide(n, d) \in Int
BY DEF Divide

\* The discount of an order and the shares in it are numbers.
LEMMA OrderDiscountType ==
    ASSUME NEW u \in Uploads, NEW rows, rows \subseteq DOMAIN u.df, rows # {}
    PROVE  /\ IsFiniteSet(rows) /\ Min(rows) \in rows /\ Max(rows) \in rows
           /\ OrderDiscount(u.df, u.config, rows) \in Int
           /\ Subtotals(u.df, rows) \in Int
           /\ Subtotals(u.df, rows) # 0 =>
                 \A q \in rows : Share(u.df, u.config, rows, q) \in Int
<1> DEFINE df == u.df
           c == u.config
<1>1. Len(df) \in Nat /\ rows \subseteq 1 .. Len(df)
  BY UploadsAssumption
<1>2. IsFiniteSet(1 .. Len(df))
  <2> DEFINE n == Len(df)
  <2>1. n \in Int /\ 1 \in Int
    BY <1>1
  <2> HIDE DEF n
  <2>2. IsFiniteSet(1 .. n)
    BY <2>1, FS_Interval
  <2> QED
    BY <2>2 DEF n
<1>3. IsFiniteSet(rows)
  BY <1>1, <1>2, FS_Subset
<1>4. Min(rows) \in rows /\ Max(rows) \in rows
  BY <1>1, FirstAndLast
<1>5. ASSUME NEW q \in rows, NEW f \in Numbers
      PROVE  Value(df[q], f) \in Int \cup {None} /\ Amount(df[q], f) \in Int
  <2>1. f \in DOMAIN df[q] => df[q][f] \in Int \cup {Blank, Bad}
    BY UploadsAssumption
  <2> HIDE DEF df
  <2>2. Value(df[q], f) \in Int \cup {None}
    BY <2>1 DEF Value, Number
  <2> QED
    BY <2>2 DEF Amount
<1>6. \A q \in rows : Subtotal(df[q]) \in Int \cup {None}
  <2> SUFFICES ASSUME NEW q \in rows PROVE Subtotal(df[q]) \in Int \cup {None}
    OBVIOUS
  <2>1. /\ Value(df[q], "unit_price") \in Int \cup {None}
        /\ Value(df[q], "quantity") \in Int \cup {None}
    BY <1>5 DEF Numbers
  <2> HIDE DEF df
  <2> QED
    BY <2>1 DEF Subtotal
<1> HIDE DEF df, c
<1>7. Subtotals(df, rows) \in Int /\ \A q \in rows : Subtotals(df, {q}) \in Int
  <2>1. \A q \in rows : IsFiniteSet({q})
    BY FS_Singleton
  <2> QED
    BY <1>3, <1>6, <2>1, SubtotalsType
<1>8. OrderDiscount(df, c, rows) \in Int
  <2> DEFINE giving == {q \in rows : Amount(df[q], "discount") > 0}
             input == IF giving = {} THEN 0 ELSE Amount(df[Min(giving)], "discount")
  <2>1. input \in Int
    <3>1. CASE giving # {}
      <4>1. giving \subseteq 1 .. Len(df) /\ Len(df) \in Nat
        BY <1>1 DEF df
      <4>2. Min(giving) \in giving
        <5> HIDE DEF giving
        <5> QED
          BY <3>1, <4>1, FirstAndLast
      <4>3. Min(giving) \in rows
        BY <4>2
      <4> HIDE DEF giving
      <4> QED
        BY <1>5, <3>1, <4>3 DEF Numbers
    <3> QED
      BY <3>1
  <2>2. OrderDiscount(df, c, rows) =
           IF c.discount_type = "percentage" THEN Divide(Subtotals(df, rows) * input, 100) ELSE input
    BY DEF OrderDiscount
  <2> HIDE DEF input
  <2>3. Subtotals(df, rows) * input \in Int
    BY <1>7, <2>1
  <2>4. Divide(Subtotals(df, rows) * input, 100) \in Int
    BY <2>3, DivideType
  <2> QED
    BY <2>1, <2>2, <2>4
<1>9. ASSUME Subtotals(df, rows) # 0, NEW q \in rows PROVE Share(df, c, rows, q) \in Int
  <2>1. OrderDiscount(df, c, rows) * Subtotals(df, {q}) \in Int
    BY <1>7, <1>8
  <2> QED
    BY <1>7, <1>9, <2>1, DivideType DEF Share
<1> QED
  BY <1>3, <1>4, <1>7, <1>8, <1>9 DEF df, c

\* The rows of an order have its discount between them: the last takes what the
\* others leave, or the first takes all.
LEMMA RowsShareTheDiscount ==
    ASSUME NEW u \in Uploads, NEW rows, rows \subseteq DOMAIN u.df, rows # {},
           ~Undivided(u.df, u.config, rows),
           NEW a, \A q \in rows : a[q] = AllocatedDiscount(u.df, u.config, rows, q)
    PROVE  /\ IsSum(a, rows)
           /\ Net(a, rows) = IF u.config.discount_scope = "entire_order"
                             THEN OrderDiscount(u.df, u.config, rows) ELSE 0
<1> DEFINE df == u.df
           c == u.config
           given == OrderDiscount(df, c, rows)
<1>1. /\ IsFiniteSet(rows) /\ Min(rows) \in rows /\ Max(rows) \in rows /\ given \in Int
      /\ Subtotals(df, rows) # 0 => \A q \in rows : Share(df, c, rows, q) \in Int
  BY OrderDiscountType
<1>2. c.order_discount_allocation \in {"unallocated", "proportional"}
  BY UploadsAssumption
<1> HIDE DEF df, c, given
<1>3. \A q \in rows : a[q] = AllocatedDiscount(df, c, rows, q)
  BY DEF df, c
<1>4. ~Undivided(df, c, rows)
  BY DEF df, c
<1>5. CASE c.discount_scope # "entire_order" \/ given = 0
  <2>1. \A q \in rows : a[q] = 0
    BY <1>3, <1>5, Allocation DEF given
  <2>2. Net(a, rows) = 0 /\ IsSum(a, rows)
    BY <1>1, <2>1, NetOfZeros DEF IsSum
  <2> QED
    BY <1>5, <2>2 DEF df, c, given
<1>6. CASE /\ c.discount_scope = "entire_order" /\ given # 0
           /\ c.order_discount_allocation = "unallocated"
  <2>1. \A q \in rows : a[q] = IF q = Min(rows) THEN given ELSE 0
    BY <1>3, <1>6, Allocation DEF given
  <2>2. IsSum(a, rows)
    BY <1>1, <2>1 DEF IsSum
  <2>3. Net(a, rows) = a[Min(rows)] + Net(a, rows \ {Min(rows)})
    BY <1>1, <2>2, NetStep
  <2>4. Net(a, rows \ {Min(rows)}) = 0
    BY <2>1, NetOfZeros
  <2>5. Net(a, rows) = given
    BY <1>1, <2>1, <2>3, <2>4
  <2> QED
    BY <1>6, <2>2, <2>5 DEF df, c, given
<1>7. CASE /\ c.discount_scope = "entire_order" /\ given # 0
           /\ c.order_discount_allocation = "proportional"
  <2> DEFINE last == Max(rows)
             rest == rows \ {last}
             share == [q \in rest |-> Share(df, c, rows, q)]
             others == Others(df, c, rows, last)
  <2>1. /\ a[last] = given - others
        /\ \A q \in rest : a[q] = Share(df, c, rows, q)
    <3>1. \A q \in rows : q # last => a[q] = Share(df, c, rows, q)
      BY <1>3, <1>7, Allocation DEF given
    <3>2. a[last] = AllocatedDiscount(df, c, rows, last)
      BY <1>1, <1>3
    <3>3. AllocatedDiscount(df, c, rows, last) = given - others
      BY <1>7, Allocation DEF given
    <3> QED
      BY <3>1, <3>2, <3>3
  <2>2. IsSum(share, rest)
    <3>1. IsFiniteSet(rest)
      BY <1>1, FS_Subset
    <3>2. ASSUME NEW q \in rest PROVE share[q] \in Int
      <4>1. Subtotals(df, rows) # 0
        <5> SUFFICES ASSUME Subtotals(df, rows) = 0 PROVE FALSE
          OBVIOUS
        <5>1. ~(Cardinality(rows) > 1)
          BY <1>4, <1>7 DEF Undivided, given
        <5>2. Cardinality(rest) = Cardinality(rows) - 1 /\ Cardinality(rows) \in Nat
          BY <1>1, FS_RemoveElement, FS_CardinalityType
        <5>3. Cardinality(rest) \in Nat /\ Cardinality(rest) # 0
          <6> HIDE DEF rest
          <6> QED
            BY <3>1, FS_CardinalityType, FS_EmptySet
        <5> QED
          BY <5>1, <5>2, <5>3
      <4> QED
        BY <1>1, <4>1
    <3> HIDE DEF rest, share
    <3> QED
      BY <3>1, <3>2 DEF IsSum
  <2>3. others = Net(share, rest)
    <3>1. \A q \in rest : share[q] = Share(df, c, rows, q)
      OBVIOUS
    <3> HIDE DEF share
    <3> QED
      BY <2>2, <3>1, SharesAdd
  <2>4. Net(a, rest) = Net(share, rest)
    <3>1. \A q \in rest : a[q] = share[q]
      BY <2>1
    <3> HIDE DEF share, rest
    <3> QED
      BY <3>1, NetOfSame
  <2>5. Net(share, rest) \in Int
    <3> HIDE DEF share, rest
    <3> QED
      BY <2>2, NetStep
  <2>6. IsSum(a, rows)
    <3>1. \A q \in rest : a[q] \in Int
      BY <2>1, <2>2 DEF IsSum
    <3>2. a[last] \in Int
      <4> HIDE DEF share, rest, others, last
      <4> QED
        BY <1>1, <2>1, <2>3, <2>5
    <3> HIDE DEF share, others
    <3> QED
      BY <1>1, <3>1, <3>2 DEF IsSum
  <2>7. Net(a, rows) = a[last] + Net(a, rest)
    BY <1>1, <2>6, NetStep
  <2>8. Net(a, rows) = given
    <3> HIDE DEF share, rest, others, last
    <3> QED
      BY <1>1, <2>1, <2>3, <2>4, <2>5, <2>7
  <2> QED
    BY <1>7, <2>6, <2>8 DEF df, c, given
<1> QED
  BY <1>2, <1>5, <1>6, <1>7

-----------------------------------------------------------------------------
\* All rows of the file that name a discount for an order with an accepted row name
\* the same one.
LEMMA NamedAlike ==
    ASSUME NEW u \in Uploads, ValidMapping(u.config), u.config.discount_scope = "entire_order",
           NEW v, v = Validate(u.df, u.config), NEW q \in Accepted(v),
           NEW x \in SameOrder(u.df, q), NEW y \in SameOrder(u.df, q),
           Names(u.df[x]), Names(u.df[y])
    PROVE  Amount(u.df[x], "discount") = Amount(u.df[y], "discount")
<1> DEFINE named == Compared(u.df, u.config, SameOrder(u.df, q), "discount")
<1>1. "discount" \in ComparedFields(u.config)
  BY DEF ComparedFields
<1>2. \A m, n \in named : m = n
  BY <1>1, AcceptedRow DEF Agreed
<1>3. \A z \in SameOrder(u.df, q) : Names(u.df[z]) => Amount(u.df[z], "discount") \in named
  BY DEF Compared, Names
<1> QED
  BY <1>2, <1>3

\* The discount of an order is what any row names, if all rows that do name the same.
LEMMA NamedIsDue ==
    ASSUME NEW u \in Uploads, NEW rows, rows \subseteq DOMAIN u.df, rows # {}
    PROVE  /\ (\A x \in rows : ~Names(u.df[x])) => OrderDiscount(u.df, u.config, rows) = 0
           /\ \A p : /\ \E x \in rows : Names(u.df[x])
                     /\ \A x \in rows : Names(u.df[x]) =>
                           Amount(u.df[x], "discount") = Amount(u.df[p], "discount")
                     => OrderDiscount(u.df, u.config, rows) = Due(u.df, u.config, rows, p)
<1> DEFINE df == u.df
           c == u.config
           giving == {q \in rows : Amount(df[q], "discount") > 0}
           input == IF giving = {} THEN 0 ELSE Amount(df[Min(giving)], "discount")
<1>1. OrderDiscount(df, c, rows) =
         IF c.discount_type = "percentage" THEN Divide(Subtotals(df, rows) * input, 100) ELSE input
  BY DEF OrderDiscount
<1>2. giving = {q \in rows : Names(df[q])}
  BY DEF Names
<1>3. ASSUME \A x \in rows : ~Names(df[x]) PROVE OrderDiscount(df, c, rows) = 0
  <2>1. input = 0
    BY <1>2, <1>3
  <2>2. Subtotals(df, rows) \in Int
    BY OrderDiscountType
  <2>3. Subtotals(df, rows) * 0 = 0 /\ Divide(0, 100) = 0
    BY <2>2 DEF Divide
  <2> HIDE DEF input, giving, df, c
  <2> QED
    BY <1>1, <2>1, <2>3
<1>4. ASSUME NEW p, \E x \in rows : Names(df[x]),
             \A x \in rows : Names(df[x]) => Amount(df[x], "discount") = Amount(df[p], "discount")
      PROVE  OrderDiscount(df, c, rows) = Due(df, c, rows, p)
  <2>1. giving # {} /\ giving \subseteq 1 .. Len(df) /\ Len(df) \in Nat
    BY <1>2, <1>4, UploadsAssumption
  <2>2. Min(giving) \in giving
    <3> HIDE DEF giving
    <3> QED
      BY <2>1, FirstAndLast
  <2>3. input = Amount(df[p], "discount")
    <3>1. Min(giving) \in rows /\ Names(df[Min(giving)])
      BY <1>2, <2>2
    <3> HIDE DEF giving
    <3> QED
      BY <1>4, <2>1, <3>1
  <2> HIDE DEF input
  <2> QED
    BY <1>1, <2>3 DEF Due
<1> QED
  BY <1>3, <1>4

\* If a sold row names the discount of its order, the sold rows are given what any
\* row of the order in the file names, whatever the lines are worth, however the
\* shares are rounded and whoever names it besides; if none does, they are given
\* nothing (transformation.py:260-306), for every upload.
THEOREM OrderDiscountConservedHolds == Spec => []OrderDiscountConserved
<1>1. IInv => OrderDiscountConserved
  <2> SUFFICES ASSUME IInv, Done PROVE OrderDiscountConserved
    BY DEF OrderDiscountConserved
  <2> DEFINE df == upload.df
             c == upload.config
             v == Validate(df, c)
             kept == Kept(df, c, Accepted(v))
             a == analysis.sales.allocated
  <2>1. PICK confirm \in BOOLEAN : analysis = AnalysisOf(upload, confirm)
    BY DEF IInv, Done
  <2>2. upload \in Uploads /\ Acceptable(c) /\ ValidMapping(c)
    BY <2>1, DoneAcceptable DEF IInv, Done, Acceptable
  <2>3. analysis.sales = Transform(df, c, v) /\ Outcome(df, c, v, confirm) = 200
    BY <2>1, <2>2, Outcomes DEF Done
  <2>4. /\ DOMAIN analysis.sales.canonical = kept
        /\ \A q \in kept : a[q] = AllocatedDiscount(df, c, OrderOf(df, kept, q), q)
    BY <2>3 DEF Transform
  <2>5. \A rows \in Orders(df, kept) : ~Undivided(df, c, rows)
    BY <2>3 DEF Outcome, Fails
  <2>6. kept \subseteq DOMAIN df /\ kept \subseteq Accepted(v)
    BY <2>2, InvalidRows DEF Kept, Accepted
  <2>7. ASSUME NEW rows \in Orders(df, kept)
        PROVE  LET given == MapThenSumSet(LAMBDA q : a[q], rows)
               IN  IF c.discount_scope = "entire_order" /\ \E q \in rows : Names(df[q])
                   THEN \A q \in rows : \A p \in SameOrder(df, q) :
                           Names(df[p]) => given = Due(df, c, rows, p)
                   ELSE given = 0
    <3> DEFINE given == MapThenSumSet(LAMBDA q : a[q], rows)
    <3>1. PICK o \in kept : rows = OrderOf(df, kept, o)
      BY DEF Orders
    <3>2. rows \subseteq DOMAIN df /\ o \in rows /\ rows \subseteq kept
      BY <2>6, <3>1 DEF OrderOf, SameOrder
    <3>3. \A q \in rows : OrderOf(df, kept, q) = rows
      BY <3>1 DEF OrderOf, SameOrder
    <3>4. \A q \in rows : a[q] = AllocatedDiscount(df, c, rows, q)
      BY <2>4, <3>2, <3>3
    <3>5. \A q \in rows : rows \subseteq SameOrder(df, q)
      BY <3>1 DEF OrderOf, SameOrder
    <3> HIDE DEF kept, a
    <3>6. given = IF c.discount_scope = "entire_order" THEN OrderDiscount(df, c, rows) ELSE 0
      <4>1. /\ IsSum(a, rows)
            /\ Net(a, rows) = IF c.discount_scope = "entire_order"
                              THEN OrderDiscount(df, c, rows) ELSE 0
        BY <2>2, <2>5, <3>2, <3>4, RowsShareTheDiscount
      <4>2. MapThenSumSet(LAMBDA q : a[q], rows) = Net(a, rows)
        BY <4>1, SumIsNet
      <4> QED
        BY <4>1, <4>2, Zenon
    <3> HIDE DEF given
    <3>7. CASE c.discount_scope # "entire_order"
      BY <3>6, <3>7 DEF given
    <3>8. CASE c.discount_scope = "entire_order" /\ \A q \in rows : ~Names(df[q])
      <4>1. OrderDiscount(df, c, rows) = 0
        BY <2>2, <3>2, <3>8, NamedIsDue
      <4> QED
        BY <3>6, <3>8, <4>1 DEF given
    <3>9. CASE c.discount_scope = "entire_order" /\ \E q \in rows : Names(df[q])
      <4>1. ASSUME NEW q \in rows, NEW p \in SameOrder(df, q), Names(df[p])
            PROVE  given = Due(df, c, rows, p)
        <5>1. \A x \in rows : Names(df[x]) =>
                 Amount(df[x], "discount") = Amount(df[p], "discount")
          <6>1. q \in Accepted(v) /\ \A x \in rows : x \in SameOrder(df, q)
            BY <2>6, <3>2, <3>5, <4>1
          <6> QED
            BY <2>2, <3>9, <4>1, <6>1, NamedAlike
        <5>2. OrderDiscount(df, c, rows) = Due(df, c, rows, p)
          BY <2>2, <3>2, <3>9, <5>1, NamedIsDue
        <5> QED
          BY <3>6, <3>9, <5>2
      <4> QED
        BY <3>9, <4>1 DEF given
    <3> QED
      BY <3>7, <3>8, <3>9
  <2> HIDE DEF kept, v
  <2> QED
    BY <2>4, <2>7 DEF OrderDiscountConserved
<1> QED
  BY <1>1, Invariance, PTL

-----------------------------------------------------------------------------
\* A row that is an order of its own is given the whole discount.
LEMMA LoneRow ==
    ASSUME NEW u \in Uploads, NEW q \in DOMAIN u.df
    PROVE  AllocatedDiscount(u.df, u.config, {q}, q) =
              IF u.config.discount_scope = "entire_order"
              THEN OrderDiscount(u.df, u.config, {q}) ELSE 0
<1> DEFINE a == [x \in {q} |-> AllocatedDiscount(u.df, u.config, {q}, x)]
<1>1. ~Undivided(u.df, u.config, {q})
  BY FS_Singleton DEF Undivided
<1>2. /\ IsSum(a, {q})
      /\ Net(a, {q}) = IF u.config.discount_scope = "entire_order"
                       THEN OrderDiscount(u.df, u.config, {q}) ELSE 0
  <2>1. \A x \in {q} : a[x] = AllocatedDiscount(u.df, u.config, {q}, x)
    OBVIOUS
  <2> HIDE DEF a
  <2> QED
    BY <1>1, <2>1, RowsShareTheDiscount
<1>3. a[q] \in Int /\ Net(a, {q}) = a[q] + Net(a, {q} \ {q}) /\ Net(a, {q} \ {q}) = 0
  <2> HIDE DEF a
  <2> QED
    BY <1>2, NetStep, NetOfZeros DEF IsSum
<1>4. a[q] = Net(a, {q})
  <2> HIDE DEF a
  <2> QED
    BY <1>3
<1> QED
  BY <1>2, <1>4

\* What is reported of an order comes from what its rows have in common; what was
\* collected also from whether the row tells, the discount from what it is given.
LEMMA SameReport ==
    ASSUME NEW r, NEW s, NEW c, NEW sale, NEW a, NEW b,
           OrderStatus(r) = OrderStatus(s), PaymentStatus(r) = PaymentStatus(s),
           \A g \in {"refund_amount", "tax_amount", "chargeback_amount", "payment_amount"} :
              Amount(r, g) = Amount(s, g),
           r["order_id"] = s["order_id"], Subtotal(r) = None, Subtotal(s) = None,
           r["order_date"] = s["order_date"], DOMAIN r = DOMAIN s,
           "recognition_date" \in DOMAIN s => r["recognition_date"] = s["recognition_date"]
    PROVE  \A f \in DOMAIN CanonicalRow(r, c, sale, a) :
              \/ CanonicalRow(r, c, sale, a)[f] = CanonicalRow(s, c, sale, b)[f]
              \/ f = "net_collected" /\ ~(Tells(s) <=> Tells(r))
              \/ f = "discount_amount" /\ c.discount_scope = "entire_order" /\ a # b
<1> DEFINE R == CanonicalRow(r, c, sale, a)
           S == CanonicalRow(s, c, sale, b)
<1>1. LineDiscount(r, c) = 0 /\ LineDiscount(s, c) = 0
  BY DEF LineDiscount
<1>2. R.order_id = S.order_id /\ R.recognized_sales = S.recognized_sales
      /\ R.pending_value = S.pending_value /\ R.recognition_date = S.recognition_date
  BY DEF CanonicalRow
<1>3. R.tax_amount = S.tax_amount /\ R.refund_amount = S.refund_amount /\ R.revenue = S.revenue
  BY DEF CanonicalRow
<1>4. R.gross_sales = S.gross_sales
  BY <1>1 DEF CanonicalRow
<1>5. R.category_revenue = S.category_revenue /\ R.disputed_value = S.disputed_value
  BY DEF CanonicalRow
<1>6. (Tells(s) <=> Tells(r)) => R.net_collected = S.net_collected
  <2> SUFFICES ASSUME Tells(s) <=> Tells(r) PROVE R.net_collected = S.net_collected
    OBVIOUS
  <2>1. Value(r, "payment_amount") = Value(s, "payment_amount")
    BY DEF Amount, Tells
  <2> QED
    BY <2>1 DEF CanonicalRow
<1>7. c.discount_scope # "entire_order" \/ a = b => R.discount_amount = S.discount_amount
  BY <1>1 DEF CanonicalRow
<1>8. DOMAIN R = {"order_id", "recognized_sales", "refund_amount", "revenue", "pending_value",
                  "tax_amount", "discount_amount", "gross_sales", "category_revenue",
                  "disputed_value", "net_collected", "recognition_date"}
  BY DEF CanonicalRow
<1> HIDE DEF R, S
<1> SUFFICES ASSUME NEW f \in DOMAIN R
             PROVE  \/ R[f] = S[f]
                    \/ f = "net_collected" /\ ~(Tells(s) <=> Tells(r))
                    \/ f = "discount_amount" /\ c.discount_scope = "entire_order" /\ a # b
  BY DEF R, S
<1> QED
  BY <1>2, <1>3, <1>4, <1>5, <1>6, <1>7, <1>8

\* Of the accepted rows of an order exactly one is kept.
LEMMA OneIsKept ==
    ASSUME NEW u \in Uploads, u.config.revenue_mode = "order_total",
           NEW v, v = Validate(u.df, u.config), NEW p \in Accepted(v)
    PROVE  LET rows == OrderOf(u.df, Kept(u.df, u.config, Accepted(v)), p)
           IN  /\ Cardinality(rows) = 1
               /\ \A q \in rows : /\ q \in Accepted(v) /\ rows = {q}
                                  /\ u.df[q]["order_id"] = u.df[p]["order_id"]
<1> DEFINE kept == Kept(u.df, u.config, Accepted(v))
           rows == OrderOf(u.df, kept, p)
<1>1. Accepted(v) \subseteq DOMAIN u.df /\ Accepted(v) \subseteq Nat
  BY InvalidRows DEF Accepted
<1>2. \A q \in rows : q \in kept /\ q \in Accepted(v) /\ u.df[q]["order_id"] = u.df[p]["order_id"]
  BY DEF OrderOf, SameOrder, Kept
<1>3. PICK m \in kept : u.df[m]["order_id"] = u.df[p]["order_id"]
  <2>1. CASE p \in kept
    BY <2>1
  <2>2. CASE p \notin kept
    BY <2>2, KeptFirst
  <2> QED
    BY <2>1, <2>2
<1>4. m \in rows
  BY <1>1, <1>3 DEF OrderOf, SameOrder, Kept
<1>5. ASSUME NEW x \in rows PROVE x = m
  <2>1. x \in Nat /\ m \in Nat /\ x \in Accepted(v) /\ m \in Accepted(v)
    BY <1>1, <1>2, <1>4
  <2>2. ~(x < m) /\ ~(m < x)
    BY <1>2, <1>3, <1>4, <2>1 DEF Kept
  <2> QED
    BY <2>1, <2>2
<1>6. rows = {m}
  BY <1>4, <1>5
<1>7. Cardinality(rows) = 1
  BY <1>6, FS_Singleton
<1> HIDE DEF rows, kept
<1> QED
  BY <1>2, <1>6, <1>7 DEF rows, kept

\* Two rows that stand for the same order are given the same discount if both name
\* it or neither does.
LEMMA SameDiscount ==
    ASSUME NEW u \in Uploads, ValidMapping(u.config), u.config.revenue_mode = "order_total",
           NEW v, v = Validate(u.df, u.config),
           NEW p \in Accepted(v), NEW q \in Accepted(v),
           u.df[q]["order_id"] = u.df[p]["order_id"],
           u.config.discount_scope = "entire_order" => (Names(u.df[p]) <=> Names(u.df[q]))
    PROVE  AllocatedDiscount(u.df, u.config, {q}, q) = AllocatedDiscount(u.df, u.config, {p}, p)
<1> DEFINE df == u.df
           c == u.config
<1>1. p \in DOMAIN df /\ q \in DOMAIN df
  BY InvalidRows DEF Accepted
<1>2. CASE c.discount_scope # "entire_order"
  BY <1>1, <1>2, LoneRow
<1>3. CASE c.discount_scope = "entire_order" /\ ~Names(df[p]) /\ ~Names(df[q])
  <2>1. OrderDiscount(df, c, {p}) = 0 /\ OrderDiscount(df, c, {q}) = 0
    BY <1>1, <1>3, NamedIsDue
  <2> QED
    BY <1>1, <2>1, LoneRow
<1>4. CASE c.discount_scope = "entire_order" /\ Names(df[p]) /\ Names(df[q])
  <2>1. Amount(df[q], "discount") = Amount(df[p], "discount")
    <3>1. p \in SameOrder(df, p) /\ q \in SameOrder(df, p)
      BY <1>1 DEF SameOrder
    <3> QED
      BY <1>4, <3>1, NamedAlike
  <2>2. Subtotals(df, {p}) = 0 /\ Subtotals(df, {q}) = 0
    <3>1. Subtotal(df[p]) = None /\ Subtotal(df[q]) = None
      BY SameOrderSame
    <3>2. IsFiniteSet({p}) /\ IsFiniteSet({q})
      BY FS_Singleton
    <3> HIDE DEF df
    <3> QED
      BY <3>1, <3>2, SubtotalsType
  <2>3. OrderDiscount(df, c, {p}) = Due(df, c, {p}, p) /\ OrderDiscount(df, c, {q}) = Due(df, c, {q}, q)
    BY <1>1, <1>4, NamedIsDue
  <2>4. Due(df, c, {p}, p) = Due(df, c, {q}, q)
    BY <2>1, <2>2 DEF Due
  <2>5. /\ AllocatedDiscount(df, c, {q}, q) = OrderDiscount(df, c, {q})
        /\ AllocatedDiscount(df, c, {p}, p) = OrderDiscount(df, c, {p})
    BY <1>1, <1>4, LoneRow
  <2> QED
    BY <2>3, <2>4, <2>5
<1> QED
  BY <1>2, <1>3, <1>4

\* Of an order that several rows stand for, whichever is kept, the same is reported,
\* once (transformation.py:65-71, validation.py:577-608), for every upload; but for
\* what was collected, where a row leaves the payment blank, and for the discount of
\* the order, where a row does not name it.
THEOREM AnyRowStandsForTheOrderHolds == Spec => []AnyRowStandsForTheOrder
<1>1. IInv => AnyRowStandsForTheOrder
  <2> SUFFICES ASSUME IInv, Done, upload.config.revenue_mode = "order_total"
               PROVE  AnyRowStandsForTheOrder
    BY DEF AnyRowStandsForTheOrder
  <2> DEFINE df == upload.df
             c == upload.config
             v == Validate(df, c)
             kept == Kept(df, c, Accepted(v))
             canonical == analysis.sales.canonical
             standing(p) == CanonicalRow(df[p], c, Authoritative(df[p], c),
                                         AllocatedDiscount(df, c, {p}, p))
             Alike(p, q) == \A f \in DOMAIN canonical[q] :
                               \/ canonical[q][f] = standing(p)[f]
                               \/ f = "net_collected" /\ ~(Tells(df[p]) <=> Tells(df[q]))
                               \/ /\ f = "discount_amount" /\ c.discount_scope = "entire_order"
                                  /\ ~(Names(df[p]) <=> Names(df[q]))
  <2>1. PICK confirm \in BOOLEAN : analysis = AnalysisOf(upload, confirm)
    BY DEF IInv, Done
  <2>2. upload \in Uploads /\ Acceptable(c) /\ ValidMapping(c)
    BY <2>1, DoneAcceptable DEF IInv, Done, Acceptable
  <2>3. analysis.sales = Transform(df, c, v)
    BY <2>1, <2>2, Outcomes DEF Done
  <2>4. /\ DOMAIN canonical = kept /\ DOMAIN analysis.sales.quarantine = v.invalid
        /\ \A q \in kept : canonical[q] =
              CanonicalRow(df[q], c, SaleAmount(df, c, kept, q),
                           AllocatedDiscount(df, c, OrderOf(df, kept, q), q))
    BY <2>3 DEF Transform
  <2>5. ASSUME NEW p \in DOMAIN df \ v.invalid
        PROVE  /\ Cardinality(OrderOf(df, kept, p)) = 1
               /\ \A q \in OrderOf(df, kept, p) : Alike(p, q)
    <3>1. p \in Accepted(v)
      BY <2>2, InvalidRows DEF Accepted
    <3>2. /\ Cardinality(OrderOf(df, kept, p)) = 1
          /\ \A q \in OrderOf(df, kept, p) :
                /\ q \in Accepted(v) /\ OrderOf(df, kept, p) = {q}
                /\ df[q]["order_id"] = df[p]["order_id"]
      BY <2>2, <3>1, OneIsKept
    <3>3. ASSUME NEW q \in OrderOf(df, kept, p) PROVE Alike(p, q)
      <4> DEFINE sale == Authoritative(df[p], c)
                 given == AllocatedDiscount(df, c, {q}, q)
                 own == AllocatedDiscount(df, c, {p}, p)
      <4>1. /\ Authoritative(df[q], c) = sale /\ sale \in Int
            /\ OrderStatus(df[q]) = OrderStatus(df[p])
            /\ PaymentStatus(df[q]) = PaymentStatus(df[p])
            /\ \A g \in {"refund_amount", "tax_amount", "chargeback_amount", "payment_amount"} :
                  Amount(df[q], g) = Amount(df[p], g)
            /\ df[q]["order_date"] = df[p]["order_date"]
            /\ DOMAIN df[q] = DOMAIN df[p]
            /\ Subtotal(df[q]) = None /\ Subtotal(df[p]) = None
            /\ "recognition_date" \in DOMAIN df[p] =>
                  df[q]["recognition_date"] = df[p]["recognition_date"]
        BY <2>2, <3>1, <3>2, <3>3, SameOrderSame
      <4>2. SaleAmount(df, c, kept, q) = sale
        BY <4>1 DEF SaleAmount
      <4>3. q \in kept /\ OrderOf(df, kept, q) = {q}
        <5>1. q \in kept /\ OrderOf(df, kept, q) = OrderOf(df, kept, p)
          BY <3>2, <3>3 DEF OrderOf, SameOrder
        <5> QED
          BY <3>2, <5>1
      <4>4. canonical[q] = CanonicalRow(df[q], c, sale, given)
        BY <2>4, <4>2, <4>3
      <4>5. c.discount_scope = "entire_order" /\ given # own => ~(Names(df[p]) <=> Names(df[q]))
        <5>1. q \in Accepted(v) /\ df[q]["order_id"] = df[p]["order_id"]
          BY <3>2, <3>3
        <5>2. ASSUME c.discount_scope = "entire_order" => (Names(df[p]) <=> Names(df[q]))
              PROVE  given = own
          BY <2>2, <3>1, <5>1, <5>2, SameDiscount
        <5> HIDE DEF given, own
        <5> QED
          BY <5>2
      <4>6. df[q]["order_id"] = df[p]["order_id"]
        BY <3>2
      <4> DEFINE other == CanonicalRow(df[p], c, sale, own)
      <4>7. standing(p) = other
        OBVIOUS
      <4>8. \A f \in DOMAIN CanonicalRow(df[q], c, sale, given) :
               \/ CanonicalRow(df[q], c, sale, given)[f] = other[f]
               \/ f = "net_collected" /\ ~(Tells(df[p]) <=> Tells(df[q]))
               \/ f = "discount_amount" /\ c.discount_scope = "entire_order" /\ given # own
        <5> HIDE DEF df, c, v, kept, canonical, sale, given, own
        <5> QED
          BY <4>1, <4>6, SameReport DEF other
      <4> HIDE DEF df, c, v, kept, canonical, sale, given, own, other, standing
      <4> QED
        BY <4>4, <4>5, <4>7, <4>8
    <3> HIDE DEF Alike, kept, v
    <3> QED
      BY <3>2, <3>3
  <2> HIDE DEF v, kept
  <2> QED
    BY <2>4, <2>5 DEF AnyRowStandsForTheOrder
<1> QED
  BY <1>1, Invariance, PTL
=============================================================================
