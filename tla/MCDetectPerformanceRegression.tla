-------------------- MODULE MCDetectPerformanceRegression --------------------
(***************************************************************************)
(* Inputs for model checking detect_performance_regression.py.            *)
(* low_concurrent has baseline 20 for every metric and high_concurrent 40  *)
(* or none; medium and extreme have none, so their six checks take the    *)
(* zero-baseline return.  With the default thresholds (rps 10%, latency   *)
(* 20%) the current values put each band on both sides of its edge: rps   *)
(* 17 regresses, 18 is exactly -10% (warning), 19 exactly -5% (neutral),  *)
(* 22 improves; latency 25 regresses, 24 is exactly +20% (warning), 22    *)
(* exactly +10% (neutral), 17 improves.  The custom thresholds (rps 20%,  *)
(* latency and resources 10%) move every edge.                            *)
(***************************************************************************)
EXTENDS DetectPerformanceRegression

Absent == [m \in MetricKeys |-> NA]

\* A results entry with the given rps, latency and cpu values.
Measured(r, a, p, cpu) ==
    [Absent EXCEPT !["rps"] = r, !["latency_avg"] = a, !["latency_p99"] = p,
                   !["cpu_usage"] = cpu]

LowEntries ==
    {[key |-> "low_concurrent", dict |-> Measured(r, a, p, cpu)] :
        r \in {17, 18, 19, 22}, a \in {17, 22, 24, 25}, p \in {NA, 18},
        cpu \in {NA, 23}}

HighEntries ==
    {[key |-> "high_concurrent", dict |-> Measured(r, a, NA, NA)] :
        r \in {36, 44}, a \in {NA, 50}}

\* The results mapping holds none, one or both levels, in either order.
Mappings ==
    {<<>>}
    \cup {<<e>> : e \in LowEntries \cup HighEntries}
    \cup {<<e, f>> : e \in LowEntries, f \in HighEntries}
    \cup {<<f, e>> : e \in LowEntries, f \in HighEntries}

\* CSV rows: low_concurrent improving, regressing or at 0 (skipped by the
\* loader), high_concurrent improving, and a row without a test_name.
CsvRows ==
    {[test_name |-> "low_concurrent", rps |-> v] : v \in {0, 17, 22}}
    \cup {[test_name |-> "high_concurrent", rps |-> 44],
           [test_name |-> "", rps |-> 22]}

\* Up to three rows, so a name can repeat with a different value between.
CsvFiles == {<<>>} \cup {<<a>> : a \in CsvRows} \cup {<<a, b>> : a, b \in CsvRows}
            \cup {<<a, b, c>> : a, b, c \in CsvRows}

MCResultsFiles ==
    {[kind |-> "unsupported", entries |-> <<>>, rows |-> <<>>]}
    \cup {[kind |-> "json", entries |-> m, rows |-> <<>>] : m \in Mappings}
    \cup {[kind |-> "csv", entries |-> <<>>, rows |-> c] : c \in CsvFiles}

LevelBaseline(v) == [rps |-> v, latency_avg |-> v, latency_p99 |-> v]

DefaultThresholds == [rps |-> NA, latency |-> NA, resources |-> NA]
CustomThresholds == [rps |-> 20, latency |-> 10, resources |-> 10]

MCBaselineFiles ==
    {[kind |-> kd, data |-> NA] : kd \in {"missing", "empty", "malformed"}}
    \cup {[kind |-> "ok", data |-> [levels |-> [l \in {Levels[i] : i \in 1..4} |->
                         CASE l = "low_concurrent"  -> LevelBaseline(20)
                           [] l = "high_concurrent" -> high
                           [] OTHER                 -> NA],
           thresholds |-> th,
           resources |-> [cpu_usage |-> cpu, memory_usage |-> NA]]] :
            high \in {LevelBaseline(40), NA}, cpu \in {20, NA},
            th \in {DefaultThresholds, CustomThresholds}}
================================================================================
