--------------------------- MODULE MetricComparator ---------------------------
(***************************************************************************)
(* The reference per-metric decision procedure of the regression engine    *)
(* (spec.md 4.3).  This module is the abstract specification of what one   *)
(* comparison promises; the scripts under src/scripts each implement their *)
(* own variant, and their modules are checked against these operators.     *)
(*                                                                         *)
(* Numbers are integers.  A threshold is a whole percentage t, standing    *)
(* for the fraction t/100.  For a baseline b > 0 the degradation           *)
(* d = num / b (num = b - c or c - b) crosses t exactly when               *)
(* 100 * num > t * b, so no division is needed and ties (d = t) are exact. *)
(***************************************************************************)
EXTENDS Integers

\* The natural direction of each metric the engine knows (spec.md 3).
Direction(m) ==
    IF m \in {"rps", "transfer_rate"} THEN "higher_is_better" ELSE "lower_is_better"

\* The numerator of the sign-normalised degradation: positive means worse.
DegradationNum(m, b, c) ==
    IF Direction(m) = "higher_is_better" THEN b - c ELSE c - b

\* d > t/100, for a baseline b > 0.
Exceeds(m, b, c, t) == 100 * DegradationNum(m, b, c) > t * b

\* d < -t/100, for a baseline b > 0.
BetterBy(m, b, c, t) == 100 * DegradationNum(m, b, c) < -(t * b)

Severities == {"regression", "warning", "improvement", "neutral"}

(***************************************************************************)
(* Classification of one comparable pair under a threshold set            *)
(* ts = [warning, failure, min_improvement]: first match wins, strict     *)
(* comparisons, so a degradation equal to a threshold does not cross it.   *)
(***************************************************************************)
SpecSeverity(m, b, c, ts) ==
    CASE Exceeds(m, b, c, ts.failure)          -> "regression"
      [] Exceeds(m, b, c, ts.warning)          -> "warning"
      [] BetterBy(m, b, c, ts.min_improvement) -> "improvement"
      [] OTHER                                 -> "neutral"
================================================================================
