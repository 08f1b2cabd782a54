--------------------------- MODULE ReportAggregator ---------------------------
(***************************************************************************)
(* The abstract report aggregator of spec.md 4.4.  It walks the scenarios *)
(* of the current results in input order; for each one it compares, in    *)
(* MetricOrder, every metric present in both the current results and a    *)
(* non-zero baseline, and appends the comparison to the partition that     *)
(* Classify names.  When the input is exhausted it derives the overall    *)
(* status by precedence.  A fatal error (bad input, invalid policy) may   *)
(* only end the run before any comparison, and then there is no report.   *)
(*                                                                         *)
(* Classify is a parameter: instantiated with the reference classifier of *)
(* MetricComparator it is the full specification of the engine; with a    *)
(* script's own classifier it says that the script aggregates correctly,  *)
(* whatever it thinks of one metric.                                       *)
(***************************************************************************)
EXTENDS Integers, Sequences

CONSTANTS
    NA,               \* the value of an absent key
    MetricOrder,      \* the metrics compared, in the order they are compared
    Classify(_, _, _, _)  \* Classify(metric, baseline, current, policy)

VARIABLES
    input,       \* the current results: a sequence of [name, results]
    base,        \* scenario name -> (metric -> value or NA), or NA
    policy,      \* the threshold policy, handed to Classify
    partitions,  \* "regression" / "warning" / "improvement" -> Seq of entries
    next,        \* index of the next scenario of input to aggregate
    verdict      \* "none" while running, then the overall status or "error"

vars == <<input, base, policy, partitions, next, verdict>>

Partitions == {"regression", "warning", "improvement"}

\* A pair is comparable when both values are present and the baseline is not 0.
Comparable(s, m) ==
    /\ base[s.name] # NA
    /\ base[s.name][m] \notin {NA, 0}
    /\ s.results[m] # NA

Entry(s, m) ==
    [scenario |-> s.name, metric |-> m,
     baseline |-> base[s.name][m], current |-> s.results[m]]

\* The comparisons of one scenario, in metric order.
Comparisons(s) ==
    LET ms == SelectSeq(MetricOrder, LAMBDA m : Comparable(s, m))
    IN  [i \in 1..Len(ms) |-> Entry(s, ms[i])]

\* Precedence: regression, then warning, then improvement, then pass.
OverallStatus(parts) ==
    CASE parts["regression"] # <<>>  -> "failure"
      [] parts["warning"] # <<>>     -> "warning"
      [] parts["improvement"] # <<>> -> "improvement"
      [] OTHER                       -> "pass"

Init ==
    /\ partitions = [p \in Partitions |-> <<>>]
    /\ next = 1
    /\ verdict = "none"

Aggregate ==
    /\ verdict = "none"
    /\ next <= Len(input)
    /\ LET cs == Comparisons(input[next])
       IN  partitions' =
             [p \in Partitions |->
                partitions[p] \o
                  SelectSeq(cs, LAMBDA e :
                     Classify(e.metric, e.baseline, e.current, policy) = p)]
    /\ next' = next + 1
    /\ UNCHANGED <<input, base, policy, verdict>>

Conclude ==
    /\ verdict = "none"
    /\ next > Len(input)
    /\ verdict' = OverallStatus(partitions)
    /\ UNCHANGED <<input, base, policy, partitions, next>>

\* Only scenarios without a comparable pair have been passed over.
NothingCompared == \A k \in 1..(next - 1) : Comparisons(input[k]) = <<>>

Fail ==
    /\ verdict = "none"
    /\ NothingCompared
    /\ verdict' = "error"
    /\ UNCHANGED <<input, base, policy, partitions, next>>

Next == Aggregate \/ Conclude \/ Fail

Spec == Init /\ [][Next]_vars /\ WF_vars(Aggregate \/ Conclude)
================================================================================
