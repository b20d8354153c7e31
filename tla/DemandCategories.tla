-------------------------- MODULE DemandCategories --------------------------
(***************************************************************************)
(* What a product without an estimate falls back on: the demand of its     *)
(* category (src/product_demand/category_fallback.py).  a is what the user *)
(* confirmed, ready the readiness report and calendars those of the usable *)
(* products.                                                               *)
(***************************************************************************)
EXTENDS DemandCalendar

CategoriesOf(rows, a, k) == {r.category : r \in RowsOf(rows, a, k)} \ {None}
Members(rows, a, c) == {k \in Keys(rows, a) : c \in CategoriesOf(rows, a, k)}
AllCategories(rows, a) == UNION {CategoriesOf(rows, a, k) : k \in Keys(rows, a)}

\* No category is prepared at all.
NotCategorized(data, a) ==
    IF "product_category" \notin data.columns THEN {"missing_product_category"}
    ELSE IF ~a.confirm_product_categories THEN {"category_confirmation_required"}
    ELSE IF \A r \in data.rows : r.category = None THEN {"missing_product_category"} ELSE {}

UnitOf(ready, k) == IF k \in DOMAIN ready.products THEN ready.products[k].unit ELSE None

\* (mistake) A product's rows without a category are taken to be in the category too.
AllButBlanks(rows, a, ready, c) ==
    LET members == Members(rows, a, c)
    IN  UNION {
          IF c \in CategoriesOf(rows, a, None) THEN {"unresolved_product_identity"} ELSE {},
          IF \E k \in members : CategoriesOf(rows, a, k) # {c}
          THEN {"inconsistent_product_category"} ELSE {},
          IF Cardinality(members) < 2 THEN {"insufficient_distinct_products"} ELSE {},
          IF members \subseteq Usable(ready) THEN {} ELSE {"unsafe_product_semantics"},
          IF \E k, l \in members : UnitOf(ready, k) = None \/ UnitOf(ready, k) # UnitOf(ready, l)
          THEN {"incompatible_units"} ELSE {}}

CategoryReasons(rows, a, ready, c) ==
    LET members == Members(rows, a, c)
    IN  UNION {
          IF c \in CategoriesOf(rows, a, None) THEN {"unresolved_product_identity"} ELSE {},
          IF \E k \in members : CategoriesOf(rows, a, k) # {c}
          THEN {"inconsistent_product_category"} ELSE {},
          IF \E k \in members : \E r \in RowsOf(rows, a, k) : r.category = None
          THEN {"incomplete_product_category"} ELSE {},
          IF Cardinality(members) < 2 THEN {"insufficient_distinct_products"} ELSE {},
          IF members \subseteq Usable(ready) THEN {} ELSE {"unsafe_product_semantics"},
          IF \E k, l \in members : UnitOf(ready, k) = None \/ UnitOf(ready, k) # UnitOf(ready, l)
          THEN {"incompatible_units"} ELSE {}}

\* (mistake) A category is tried if one of its products has no estimate.
PartlyCovered(rows, a, shown) ==
    {c \in AllCategories(rows, a) : ~(Members(rows, a, c) \subseteq shown)}

\* Only categories none of whose products is shown an estimate of its own.
Uncovered(rows, a, shown) ==
    {c \in AllCategories(rows, a) : Members(rows, a, c) \cap shown = {}}

Candidate(rows, a, ready, calendars, c) ==
    [members |-> Members(rows, a, c), reasons |-> CategoryReasons(rows, a, ready, c),
     series |-> IF CategoryReasons(rows, a, ready, c) = {}
                THEN CategorySeries(calendars, Members(rows, a, c), a) ELSE None]

\* prepare_category_fallback_candidates.
NoCandidates == [c \in {} |-> None]
PrepareCandidates(data, a, ready, calendars, shown) ==
    IF NotCategorized(data, a) # {} THEN NoCandidates
    ELSE [c \in Uncovered(data.rows, a, shown) |-> Candidate(data.rows, a, ready, calendars, c)]

DatasetReasons(data, a) ==
    IF NotCategorized(data, a) # {} THEN NotCategorized(data, a)
    ELSE IF \E k \in Keys(data.rows, a) : CategoriesOf(data.rows, a, k) = {}
    THEN {"uncategorized_products"} ELSE {}
=============================================================================
