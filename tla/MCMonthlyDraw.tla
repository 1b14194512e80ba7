--------------------------- MODULE MCMonthlyDraw ----------------------------
(* Two players, two months, close requests that overlap.                    *)
EXTENDS MonthlyDraw, TLC

CONSTANTS c1, c2

Symmetry == Permutations({c1, c2})

============================================================================
