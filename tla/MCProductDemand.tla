-------------------------- MODULE MCProductDemand --------------------------
(***************************************************************************)
(* The demand preview and its studies for TLC: a horizon of two days,      *)
(* eleven days of two products in one category, sold in various rhythms,   *)
(* with one cell, product or column changed and one assumption withdrawn   *)
(* or added; and a third product with a category of its own.  Exports go   *)
(* on for two held back weeks.  Public products are sold in other rhythms. *)
(***************************************************************************)
EXTENDS DemandStudies

\* Units sold a day, 0 for a day without a row.
Steady == [d \in 1 .. 11 |-> 1]
Growing == [d \in 1 .. 11 |-> (d + 3) \div 4]
Odd == [d \in 1 .. 11 |-> 2 * (d % 2)]
Rare == [d \in 1 .. 11 |-> IF d \in {1, 11} THEN 2 ELSE 0]
Burst == [d \in 1 .. 11 |-> IF d \in {2, 5, 6} THEN 3 ELSE 0]
Ended == [d \in 1 .. 11 |-> IF d <= 6 THEN 1 ELSE 0]
Rhythms == {Steady, Growing, Odd, Rare, Burst, Ended}

Sales(p, name, rhythm) ==
    {[line |-> 3 * d + (CASE p = "p1" -> 0 [] p = "p2" -> 1 [] p = "p3" -> 2),
      id |-> p, name |-> name, category |-> "c1", unit |-> "kg", ordered |-> d, day |-> d,
      quantity |-> rhythm[d], status |-> "completed"] :
        d \in {x \in 1 .. 11 : rhythm[x] > 0}}

Columns == {"quantity", "product_category"}
Plain(first, second) ==
    [rows |-> Sales("p1", "rice", first) \cup Sales("p2", "beans", second),
     columns |-> Columns, mode |-> "row_total"]

\* Some rows of a product changed in one cell.
Changed(x, p, days, field, value) ==
    [x EXCEPT !.rows = {IF r.id = p /\ r.day \in days THEN [r EXCEPT ![field] = value] ELSE r :
                            r \in x.rows}]
All == 1 .. 11
Variants(x) ==
    {x,
     Changed(x, "p1", {5}, "category", None),
     Changed(x, "p1", {5}, "category", "c2"),
     Changed(x, "p1", {5}, "id", None),
     Changed(x, "p1", {5}, "unit", None),
     Changed(x, "p1", {6}, "unit", "sack"),
     Changed(x, "p1", {6}, "status", "cancelled"),
     Changed(Changed(x, "p1", {6}, "status", "returned"), "p1", {6}, "quantity", -1),
     Changed(x, "p2", All, "id", None),
     Changed(x, "p2", All, "unit", "sack"),
     Changed(x, "p2", All, "category", "c2"),
     Changed(x, "p2", All, "category", None),
     Changed(Changed(x, "p2", All, "id", None), "p2", All, "name", None),
     [x EXCEPT !.rows = {[r EXCEPT !.quantity = None] : r \in x.rows},
               !.columns = {"product_category"}],
     [x EXCEPT !.rows = {[r EXCEPT !.category = None] : r \in x.rows},
               !.columns = {"quantity"}]}

Confirmed ==
    [default_unit_of_measure |-> None, confirm_product_names_unique |-> TRUE,
     confirm_product_categories |-> TRUE, export_covers_all_open_days |-> TRUE,
     stockout_tracking_complete |-> TRUE, business_closed_dates |-> {}, stockout_dates |-> {}]
Assumptions ==
    {Confirmed,
     [Confirmed EXCEPT !.default_unit_of_measure = "kg"],
     [Confirmed EXCEPT !.confirm_product_names_unique = FALSE],
     [Confirmed EXCEPT !.confirm_product_categories = FALSE],
     [Confirmed EXCEPT !.export_covers_all_open_days = FALSE],
     [Confirmed EXCEPT !.stockout_tracking_complete = FALSE],
     [Confirmed EXCEPT !.business_closed_dates = {3}],
     [Confirmed EXCEPT !.business_closed_dates = {9}],
     [Confirmed EXCEPT !.stockout_dates = {<<<<"id", "p1">>, 7>>}],
     [Confirmed EXCEPT !.stockout_dates = {<<<<"id", "p1">>, 9>>}],
     [Confirmed EXCEPT !.stockout_dates = {<<<<"id", "p2">>, 11>>}]}

Third(x) ==
    [x EXCEPT !.rows = @ \cup {[r EXCEPT !.category = "c2"] : r \in Sales("p3", "maize", Steady)}]

Input(x, a) == [data |-> x, assumptions |-> a, decision_ready |-> TRUE]

\* Every two rhythms as they are; changes where the rhythms differ most.
Pairs == {<<Steady, Odd>>, <<Rare, Burst>>, <<Odd, Rare>>, <<Growing, Ended>>, <<Burst, Steady>>}

MCInputs ==
    {Input(Plain(f, g), Confirmed) : f, g \in Rhythms}
    \cup {Input(x, Confirmed) : x \in UNION {Variants(Plain(p[1], p[2])) : p \in Pairs}}
    \cup {Input(Plain(p[1], p[2]), a) : p \in Pairs, a \in Assumptions}
    \cup {Input(x, a) : x \in Variants(Plain(Steady, Odd)), a \in Assumptions}
    \cup {Input(Third(Plain(p[1], p[2])), Confirmed) : p \in Pairs}
    \cup {[Input(Plain(Steady, Odd), Confirmed) EXCEPT !.decision_ready = FALSE],
          Input([Plain(Steady, Odd) EXCEPT !.mode = "order_total", !.columns = {},
                    !.rows = {[r EXCEPT !.id = None, !.name = None, !.unit = None,
                                        !.quantity = None, !.category = None] : r \in @}],
                Confirmed)}

(***************************************************************************)
(* The studies.  An export is the sales of an input with the held back     *)
(* days 12 to 15 added, on which both products sell in any of these ways.  *)
(***************************************************************************)
Later(p, name, f) ==
    {[line |-> 3 * d + (IF p = "p1" THEN 0 ELSE 1), id |-> p, name |-> name, category |-> "c1",
      unit |-> "kg", ordered |-> d, day |-> d, quantity |-> f[d - 11], status |-> "completed"] :
        d \in {x \in 12 .. 15 : f[x - 11] > 0}}

Goes(x, f, g) == [x EXCEPT !.rows = @ \cup Later("p1", "rice", f) \cup Later("p2", "beans", g)]
Export(x, a) ==
    [rows |-> x.rows, columns |-> x.columns, mode |-> x.mode, assumptions |-> a, accepted |-> TRUE]

Continues == {<<1, 1, 1, 1>>, <<0, 2, 0, 2>>, <<0, 0, 5, 1>>}
\* An order of the last day before the holdout that is recognised one day later.
Late(x) ==
    [x EXCEPT !.rows = {IF r.id = "p1" /\ r.ordered = 11 THEN [r EXCEPT !.day = 12] ELSE r : r \in @}]
New(x) ==
    [x EXCEPT !.rows = @ \cup {[r EXCEPT !.id = "p3", !.name = "maize", !.category = "c2"] :
                                 r \in {q \in @ : q.ordered > 11}}]

MCExports ==
    {Export(Goes(Plain(p[1], p[2]), f, <<1, 1, 1, 1>>), Confirmed) : p \in Pairs, f \in Continues}
    \cup {Export(Goes(Changed(Plain(p[1], p[2]), "p2", {5}, "category", None), <<1, 1, 1, 1>>, <<1, 1, 1, 1>>), Confirmed) : p \in Pairs}
    \cup {Export(Goes(Plain(Steady, Odd), f, <<0, 0, 0, 0>>), a) : f \in Continues, a \in Assumptions}
    \cup {Export(Late(Goes(Plain(Steady, Odd), <<1, 1, 1, 1>>, <<0, 2, 0, 2>>)), Confirmed),
          Export(New(Goes(Plain(Burst, Odd), <<1, 1, 1, 1>>, <<0, 2, 0, 2>>)), Confirmed),
          Export([Plain(Steady, Odd) EXCEPT !.rows = {}], Confirmed),
          [Export(Plain(Steady, Odd), Confirmed) EXCEPT !.accepted = FALSE]}

\* The first eleven days of a public product are like those of an input; four
\* more are held back.  A long product hardly sells until shortly before them.
Faded == [d \in 1 .. 11 |-> IF d <= 7 THEN 1 ELSE 0]
Delayed == [d \in 1 .. 11 |-> IF d > 3 THEN 1 ELSE 0]
Never == [d \in 1 .. 11 |-> 0]
Public(rhythm, f) == [d \in 1 .. 15 |-> IF d <= 11 THEN rhythm[d] ELSE f[d - 11]]
Long(f) == [d \in 1 .. 34 |-> IF d <= 30 THEN IF d \in {1, 28, 30} THEN 4 ELSE 0 ELSE f[d - 30]]

SellsNoMore == <<0, 0, 0, 0>>
MCPublicSales ==
    {[q1 |-> Public(Steady, <<1, 1, 1, 1>>), q2 |-> Public(x, f), q3 |-> Public(Growing, <<0, 2, 0, 2>>)] :
        x \in {Odd, Faded, Delayed, Never}, f \in Continues \cup {SellsNoMore}}
    \cup {[q1 |-> [d \in 1 .. 34 |-> IF d <= 32 THEN 1 ELSE 2], q2 |-> Long(f)] : f \in {SellsNoMore, <<0, 0, 5, 1>>, <<4, 0, 4, 0>>}}
=============================================================================
