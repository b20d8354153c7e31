-------------------------- MODULE MCSalesPipeline --------------------------
(***************************************************************************)
(* SalesPipeline for TLC: data frames of a few rows around a typical one,  *)
(* each row different from it in one or two cells, for every revenue mode, *)
(* discount rule, policy and tax treatment; and longer frames with a given *)
(* share of bad rows.                                                      *)
(***************************************************************************)
EXTENDS SalesPipeline, SequencesExt

\* The rows that differ from r in at most one cell, as alternatives allow.
Near(r, alternatives) ==
    {r} \cup UNION {{[r EXCEPT ![f] = x] : x \in alternatives[f]} : f \in DOMAIN alternatives}
NearTwice(r, alternatives) == UNION {Near(q, alternatives) : q \in Near(r, alternatives)}

Frames(rows, n, configs) ==
    {[df |-> df, config |-> c] : df \in SeqOf(rows, n), c \in configs}

Typical == [order_id |-> "o1", order_date |-> "d1", customer_id |-> "c1", other |-> 0]
Changes == [order_id |-> {"o2", Blank}, order_date |-> {"d2", Blank, Bad},
            customer_id |-> {"c2", Blank}, other |-> {1}]

Config(mode, typical) ==
    [revenue_mode |-> mode, mapping |-> DOMAIN typical \ {"other"},
     negative_revenue_policy |-> "invalid", assume_all_completed |-> TRUE,
     discount_type |-> "none", discount_scope |-> "per_line",
     order_discount_allocation |-> "unallocated", revenue_mismatch_policy |-> "warn",
     mismatch_tolerance |-> 1, refund_tax_treatment |-> None, reserved_column |-> FALSE]

\* Configurations that are odd, some of them refused.
Row == [revenue |-> 10] @@ Typical
RowConfig == Config("row_total", Row)
OddConfigs ==
    {RowConfig,
     [RowConfig EXCEPT !.discount_scope = "entire_order"],
     [RowConfig EXCEPT !.order_discount_allocation = "proportional"],
     [RowConfig EXCEPT !.discount_type = "fixed"],
     [RowConfig EXCEPT !.mismatch_tolerance = -1],
     [RowConfig EXCEPT !.assume_all_completed = FALSE],
     [RowConfig EXCEPT !.reserved_column = TRUE]}
Odd == Frames(Near(Row, [revenue |-> {-10, Bad}, other |-> {1}]), 2, OddConfigs)
       \cup Frames({Typical}, 2, {Config("row_total", Typical)})

\* Sales by row, with statuses and payments.
Sale == [order_status |-> "completed", payment_status |-> "paid", payment_amount |-> 10] @@ Row
Sales ==
    Frames(Near(Sale, [revenue |-> {-10, 0, Bad},
                       order_status |-> {"returned", "pending", "cancelled", Blank, Bad},
                       payment_status |-> {"failed", "disputed", "chargeback_lost", Bad},
                       payment_amount |-> {Blank, Bad}] @@ Changes),
           2, {[Config("row_total", Sale) EXCEPT !.negative_revenue_policy = p] :
                  p \in {"refunds", "invalid"}})

\* Returns, refunds and taxes.
Return == [order_status |-> "returned", refund_amount |-> 5, returned_quantity |-> 1,
           quantity |-> 2, tax_amount |-> 2, currency |-> "USD"] @@ Row
Returns ==
    Frames(NearTwice(Return, [order_status |-> {"completed", "pending"},
                              refund_amount |-> {Blank, Bad, -1}, returned_quantity |-> {3, Blank, Bad},
                              quantity |-> {1, 0, -2, Bad}, tax_amount |-> {9, Blank},
                              currency |-> {"EUR", Bad}, revenue |-> {-10, 0}]),
           1, {[Config("row_total", Return) EXCEPT !.refund_tax_treatment = t,
                                                   !.negative_revenue_policy = p] :
                  t \in {None, "includes_tax", "excludes_tax"}, p \in {"refunds", "invalid"}})

\* Lines with prices: discounts of units, lines and orders, and reported totals.
Line == [unit_price |-> 10, quantity |-> 2, discount |-> 20, revenue |-> 17] @@ Typical
LineConfig == Config("unit_price_times_quantity", Line)
Discounts ==
    {c \in {[LineConfig EXCEPT !.discount_type = t, !.discount_scope = s,
                        !.order_discount_allocation = a, !.negative_revenue_policy = p,
                        !.revenue_mismatch_policy = m] :
        t \in {"fixed", "percentage"}, s \in {"per_unit", "per_line", "entire_order"},
        a \in {"unallocated", "proportional"}, p \in {"refunds", "invalid"},
        m \in {"warn", "quarantine"}} : ValidConfig(c)}
LineChanges == [order_id |-> {"o2"}, unit_price |-> {7, 1}, quantity |-> {-2},
                discount |-> {Blank, 3}, other |-> {1}]
LineMistakes == [unit_price |-> {300, Bad}, quantity |-> {1, 0, Bad}, discount |-> {150, 3, -1},
                 revenue |-> {Bad, 20}] @@ [LineChanges EXCEPT !.order_id = {Blank}]
Lines == Frames(Near(Line, LineChanges), 3,
                {c \in Discounts : /\ c.discount_scope = "entire_order"
                                   /\ c.negative_revenue_policy = "refunds"
                                   /\ c.revenue_mismatch_policy = "warn"})
         \cup Frames(NearTwice(Line, LineMistakes), 1,
                     {c \in Discounts : c.order_discount_allocation = "unallocated"})
         \cup Frames(Near(Line, LineChanges), 2, Discounts)

\* Reported lines whose order discount has no subtotals to be shared by.
Reported == [discount |-> 3] @@ Row
Unshared == Frames(Near(Reported, [order_id |-> {"o2"}, revenue |-> {20}, other |-> {1}]), 3,
                   {[Config("row_total", Reported) EXCEPT !.discount_type = "fixed",
                        !.discount_scope = "entire_order", !.order_discount_allocation = a] :
                       a \in {"unallocated", "proportional"}})

\* Rows that stand for orders.
Order == [order_status |-> "completed", payment_status |-> "paid", refund_amount |-> 5,
          tax_amount |-> 2, payment_amount |-> 10, currency |-> "USD", state_or_region |-> "r1",
          recognition_date |-> "d1", discount |-> 3] @@ Row
OrdersOfRows ==
    Frames(Near(Order, [revenue |-> {20}, order_status |-> {"pending", Bad},
                        payment_status |-> {"disputed"}, refund_amount |-> {Blank, 0},
                        tax_amount |-> {0}, payment_amount |-> {Blank, 0}, currency |-> {"EUR"},
                        state_or_region |-> {Blank}, recognition_date |-> {Blank},
                        discount |-> {Blank}, order_id |-> {"o2", Blank}, other |-> {1}]),
           3, {[Config("order_total", Order) EXCEPT !.refund_tax_treatment = "excludes_tax",
                    !.discount_type = "fixed", !.discount_scope = "entire_order"]})

\* A given number of bad rows among a given number.
Shares ==
    {[df |-> [n \in 1 .. total |->
                 [Row EXCEPT !["other"] = n, !["order_id"] = IF n <= bad THEN Blank ELSE "o1"]],
      config |-> RowConfig] : <<total, bad>> \in {x \in {5, 20, 21} \X (0 .. 6) : x[2] <= x[1]}}

MCUploads == Odd \cup Sales \cup Returns \cup Lines \cup Unshared \cup OrdersOfRows \cup Shares
=============================================================================
