------------------------- MODULE MCDecisionSupport -------------------------
(***************************************************************************)
(* DecisionSupport for TLC: a little over two years of a steady shop, with *)
(* a month in which something else happens, or two in histories that have  *)
(* just become long enough for a standard forecast.                        *)
(***************************************************************************)
EXTENDS DecisionSupport

Month(orders, value) == [rows |-> TRUE, orders |-> orders, value |-> value, refund |-> FALSE]
Gap == [Month(0, 1) EXCEPT !.rows = FALSE]
Pending == Month(0, 1)
RefundOnly == [Month(0, 1) EXCEPT !.refund = TRUE]

\* Some months vary a little, so that there is a spread to judge by.
MCUsual == [m \in 1 .. 25 |-> IF m \in {8, 10, 12} THEN Month(11, 10) ELSE Month(10, 10)]
MCMaxUnusual == [n \in 1 .. 25 |-> IF n <= 15 THEN 2 ELSE 1]
MCUnusual == {Gap, Pending, RefundOnly, Month(6, 12)}
=============================================================================
