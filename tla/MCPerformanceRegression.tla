------------------------ MODULE MCPerformanceRegression ------------------------
(***************************************************************************)
(* Inputs for model checking performance_regression.py.                   *)
(* Baselines are 20 (or 0, or absent) so that the default thresholds fall *)
(* on whole values: rps 18 is exactly -10% and 17 is -15% (regression),   *)
(* 21 is exactly +5% and 22 is +10% (improvement); latency 22 is exactly  *)
(* +10%, 24 exactly +20% (warning), 25 is +25% (regression) and 15 is     *)
(* -25%.  Only low_concurrent has a baseline, so high_concurrent entries  *)
(* exercise the skip; a second entry covers ordering and repeated names.      *)
(***************************************************************************)
EXTENDS PerformanceRegression

MCNames == {"low_concurrent", "high_concurrent"}

RpsValues == {17, 18, 21, 22}
LatencyValues == {15, 22, 24, 25}

Entries(rv, lv) == [name : MCNames, results : [rps : rv, latency_p99 : lv]]

\* A second scenario after the first: one without a baseline, one that
\* regresses, one that improves (the latter two repeat low_concurrent).
Followers ==
    {[name |-> "high_concurrent", results |-> [rps |-> 17, latency_p99 |-> 25]],
     [name |-> "low_concurrent",  results |-> [rps |-> 17, latency_p99 |-> 22]],
     [name |-> "low_concurrent",  results |-> [rps |-> 22, latency_p99 |-> 15]]}

UpToTwo(E) == {<<>>} \cup {<<e>> : e \in E} \cup {<<e, f>> : e \in E, f \in Followers}

Unreadable == {[kind |-> k, scenarios |-> <<>>] : k \in {"missing", "malformed"}}

\* Every scenario reports both metrics.
MCCurrentFiles ==
    {[kind |-> "ok", scenarios |-> q] : q \in UpToTwo(Entries(RpsValues, LatencyValues))}
    \cup Unreadable

NoScenarios == [n \in MCNames |-> NA]

MCBaselineFiles ==
    {[kind |-> "ok", scenarios |-> [n \in MCNames |-> IF n = "low_concurrent" THEN b ELSE NA]] :
        b \in {NA} \cup [Metrics -> {NA, 0, 20}]}
    \cup {[kind |-> k, scenarios |-> NoScenarios] : k \in {"missing", "malformed"}}

NoKeys == [k \in {} |-> 0]

\* A complete custom policy with a real RPS warning band.
CustomThresholds ==
    [rps_warning |-> 5, rps_failure |-> 10,
     latency_warning |-> 10, latency_failure |-> 20, min_improvement |-> 5]

\* The last file lacks every key a ladder starts with, so the first
\* comparison of a run raises KeyError.
MCThresholdFiles ==
    {[kind |-> "none", t |-> NoKeys], [kind |-> "unreadable", t |-> NoKeys],
     [kind |-> "ok", t |-> NoKeys], [kind |-> "ok", t |-> CustomThresholds],
     [kind |-> "ok", t |-> [min_improvement |-> 5]]}

\* Results in which the low_concurrent scenario did not report rps.
MCCurrentFilesAbsent ==
    {[kind |-> "ok", scenarios |-> <<[name |-> "low_concurrent",
                                      results |-> [rps |-> NA, latency_p99 |-> l]]>>] :
        l \in LatencyValues}
================================================================================
