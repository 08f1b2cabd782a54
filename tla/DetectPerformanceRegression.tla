----------------------- MODULE DetectPerformanceRegression -----------------------
(***************************************************************************)
(* src/scripts/detect_performance_regression.py: PerformanceRegressionDetector *)
(* and main().  The script loads a YAML baseline, loads the current        *)
(* results, runs fourteen fixed calls of _compare_metric (rps of the four  *)
(* concurrency levels, average and p99 latency of each level, cpu and      *)
(* memory), prints the report and, under --fail-on-regression, exits 1/2/0.*)
(*                                                                         *)
(* Values are integers and thresholds whole percents, as in               *)
(* MetricComparator: change > t becomes 100*num > t*b and                  *)
(* change > t*0.5 becomes 200*num > t*b.  The inputs (the two files and   *)
(* the flag) are variables fixed in Init.                                  *)
(***************************************************************************)
EXTENDS Integers, Sequences, SequencesExt, MetricComparator

CONSTANTS
    NA,            \* an absent key
    BaselineFiles, \* [kind: "missing"/"empty"/"malformed"/"ok", data]
    ResultsFiles   \* [kind: "unsupported"/"json"/"csv", entries: Seq of [key, dict],
                   \*  rows: the CSV's Seq of [test_name, rps]]

\* The keys _compare_metric looks up in a results entry.
MetricKeys == {"rps", "latency_avg", "latency_p99", "cpu_usage", "memory_usage"}

\* The levels _check_rps_regression and _check_latency_regression visit, in order.
Levels == <<"low_concurrent", "medium_concurrent", "high_concurrent",
            "extreme_concurrent">>

\* One _compare_metric call: the metric name, the key looked up in the
\* results, where the baseline is read, the threshold class and direction.
Check(name, key, level, cls, higher) ==
    [name |-> name, key |-> key, level |-> level, cls |-> cls, higher |-> higher]

\* Mutant: the high_concurrent call is a copy of the low_concurrent one.
RpsChecksCopyPaste ==
    [i \in 1..4 |-> LET l == IF i = 3 THEN Levels[1] ELSE Levels[i]
                    IN  Check(l, "rps", l, "rps", TRUE)]

RpsChecks == [i \in 1..4 |-> Check(Levels[i], "rps", Levels[i], "rps", TRUE)]

\* Mutant: the latency calls pass higher_is_better=True.
LatencyChecksHigherIsBetter ==
    [i \in 1..8 |->
        LET l == Levels[(i + 1) \div 2]
        IN  IF i % 2 = 1
            THEN Check(l \o "_avg_latency", "latency_avg", l, "latency", TRUE)
            ELSE Check(l \o "_p99_latency", "latency_p99", l, "latency", TRUE)]

LatencyChecks ==
    [i \in 1..8 |->
        LET l == Levels[(i + 1) \div 2]
        IN  IF i % 2 = 1
            THEN Check(l \o "_avg_latency", "latency_avg", l, "latency", FALSE)
            ELSE Check(l \o "_p99_latency", "latency_p99", l, "latency", FALSE)]

ResourceChecks ==
    << Check("cpu_usage", "cpu_usage", NA, "resources", FALSE),
       Check("memory_usage", "memory_usage", NA, "resources", FALSE) >>

\* detect_regression: rps, then latency, then resources.
Checks == RpsChecks \o LatencyChecks \o ResourceChecks

\* The failure threshold of each class when the baseline file sets none.
DefaultThreshold == [rps |-> 10, latency |-> 20, resources |-> 20]

Lists == {"regressions", "warnings", "improvements"}

VARIABLES
    baselineFile,     \* input: the --baseline file
    resultsFile,      \* input: the positional results file
    failOnRegression, \* input: --fail-on-regression
    pc,               \* "start", "detect", "report" or "done"
    baseline,         \* self.baseline: a parsed baseline, or NA for {} / None
    current,          \* self.current_results: Seq of [key, dict]
    k,                \* index in Checks of the next _compare_metric call
    report,           \* the three lists, name -> Seq of entries
    status,           \* _get_status() once printed, "none" before
    exitCode          \* the process exit status, -1 while running

inputs == <<baselineFile, resultsFile, failOnRegression>>
vars == <<baselineFile, resultsFile, failOnRegression, pc, baseline, current,
          k, report, status, exitCode>>

OrZero(v) == IF v = NA THEN 0 ELSE v

\* One row of _load_csv_results: a row with a test_name and rps > 0 sets
\* self.current_results[test_name] = {'rps': rps}.  A dict keeps the place
\* of a key's first insertion, so a repeated test_name replaces the value
\* where the name first appeared.
CsvRow(res, row) ==
    LET i == SelectInSeq(res, LAMBDA e : e.key = row.test_name)
        d == [m \in MetricKeys |-> IF m = "rps" THEN row.rps ELSE NA]
    IN  CASE row.test_name = "" \/ row.rps <= 0 -> res
          [] i # 0                            -> [res EXCEPT ![i].dict = d]
          [] OTHER                            -> Append(res, [key |-> row.test_name, dict |-> d])

\* _load_csv_results over the rows in file order.
CsvResults(rows) == FoldLeft(CsvRow, <<>>, rows)

\* _load_baseline: a missing file is {}; yaml.safe_load of an empty file is
\* None; both are falsy and make detect_regression return at once.
LoadedBaseline(bf) == IF bf.kind \in {"missing", "empty"} THEN NA ELSE bf.data

\* thresholds.get(cls, {}).get('failure', default)
ThresholdOf(bl, cls) ==
    IF bl.thresholds[cls] = NA THEN DefaultThreshold[cls] ELSE bl.thresholds[cls]

\* baseline_data.get(level, {}).get(key, 0), or for resources
\* self.baseline.get('resources', {}).get(key, {}).get('baseline', 0).
BaselineValue(bl, c) ==
    IF c.cls = "resources" THEN OrZero(bl.resources[c.key])
    ELSE IF bl.levels[c.level] = NA THEN 0
    ELSE OrZero(bl.levels[c.level][c.key])

\* _find_current_value: the entry named metric_name if it has metric_key,
\* else the first entry, in file order, that has metric_key, else None.
FindCurrentValue(name, key) ==
    LET direct == SelectInSeq(current, LAMBDA e : e.key = name /\ e.dict[key] # NA)
        fuzzy  == SelectInSeq(current, LAMBDA e : e.dict[key] # NA)
    IN  CASE direct # 0 -> current[direct].dict[key]
          [] fuzzy # 0  -> current[fuzzy].dict[key]
          [] OTHER      -> NA

\* The numerator of change_percent: positive means worse.
ChangeNum(b, c, higher) == IF higher THEN b - c ELSE c - b

\* The if/elif chain of _compare_metric: the list the comparison goes to.
CompareSeverity(b, c, t, higher) ==
    CASE 100 * ChangeNum(b, c, higher) > t * b    -> "regressions"
      [] 200 * ChangeNum(b, c, higher) > t * b    -> "warnings"
      [] 200 * ChangeNum(b, c, higher) < -(t * b) -> "improvements"
      [] OTHER                                    -> "none"

Init ==
    /\ baselineFile \in BaselineFiles
    /\ resultsFile \in ResultsFiles
    /\ failOnRegression \in BOOLEAN
    /\ pc = "start"
    /\ baseline = NA
    /\ current = <<>>
    /\ k = 1
    /\ report = [l \in Lists |-> <<>>]
    /\ status = "none"
    /\ exitCode = -1

\* The constructor: yaml.safe_load raises on a malformed baseline.
BaselineUnparsable ==
    /\ pc = "start"
    /\ baselineFile.kind = "malformed"
    /\ pc' = "done"
    /\ exitCode' = 1
    /\ UNCHANGED <<inputs, baseline, current, k, report, status>>

\* load_results: an unsupported suffix prints an error and exits 1.
ResultsUnsupported ==
    /\ pc = "start"
    /\ baselineFile.kind # "malformed"
    /\ resultsFile.kind = "unsupported"
    /\ pc' = "done"
    /\ exitCode' = 1
    /\ UNCHANGED <<inputs, baseline, current, k, report, status>>

\* The constructor and load_results both succeed.
Load ==
    /\ pc = "start"
    /\ baselineFile.kind # "malformed"
    /\ resultsFile.kind # "unsupported"
    /\ baseline' = LoadedBaseline(baselineFile)
    /\ current' = IF resultsFile.kind = "csv" THEN CsvResults(resultsFile.rows)
                   ELSE resultsFile.entries
    /\ pc' = "detect"
    /\ UNCHANGED <<inputs, k, report, status, exitCode>>

\* detect_regression with a falsy baseline: no comparison at all.
NoBaseline ==
    /\ pc = "detect"
    /\ baseline = NA
    /\ pc' = "report"
    /\ UNCHANGED <<inputs, baseline, current, k, report, status, exitCode>>

\* Mutant: _compare_metric without the `baseline_value == 0` return.
CompareMetricNoZeroGuard ==
    /\ pc = "detect"
    /\ baseline # NA
    /\ k <= Len(Checks)
    /\ LET c   == Checks[k]
           b   == BaselineValue(baseline, c)
           cur == FindCurrentValue(c.name, c.key)
           sev == CompareSeverity(b, cur, ThresholdOf(baseline, c.cls), c.higher)
           e   == [metric |-> c.name, baseline |-> b, current |-> cur,
                   higher |-> c.higher]
       IN  report' = IF cur = NA \/ sev = "none" THEN report
                     ELSE [report EXCEPT ![sev] = Append(@, e)]
    /\ k' = k + 1
    /\ pc' = IF k = Len(Checks) THEN "report" ELSE "detect"
    /\ UNCHANGED <<inputs, baseline, current, status, exitCode>>

\* One call of _compare_metric for Checks[k], with its early returns.
CompareMetric ==
    /\ pc = "detect"
    /\ baseline # NA
    /\ k <= Len(Checks)
    /\ LET c   == Checks[k]
           b   == BaselineValue(baseline, c)
           cur == FindCurrentValue(c.name, c.key)
           sev == CompareSeverity(b, cur, ThresholdOf(baseline, c.cls), c.higher)
           e   == [metric |-> c.name, baseline |-> b, current |-> cur,
                   higher |-> c.higher]
       IN  report' = IF b = 0 \/ cur = NA \/ sev = "none" THEN report
                     ELSE [report EXCEPT ![sev] = Append(@, e)]
    /\ k' = k + 1
    /\ pc' = IF k = Len(Checks) THEN "report" ELSE "detect"
    /\ UNCHANGED <<inputs, baseline, current, status, exitCode>>

\* _get_status: precedence regression, warning, improvement, pass.
GetStatus(r) ==
    CASE r["regressions"] # <<>>  -> "failure"
      [] r["warnings"] # <<>>     -> "warning"
      [] r["improvements"] # <<>> -> "improvement"
      [] OTHER                    -> "pass"

\* Mutant: exit_with_status tests has_warning before has_regression.
ExitStatusWarningFirst(r) ==
    CASE r["warnings"] # <<>>    -> 2
      [] r["regressions"] # <<>> -> 1
      [] OTHER                   -> 0

\* exit_with_status
ExitStatus(r) ==
    CASE r["regressions"] # <<>> -> 1
      [] r["warnings"] # <<>>    -> 2
      [] OTHER                   -> 0

\* generate_report, then exit_with_status under --fail-on-regression; else
\* main returns and the process exits 0.
Finish ==
    /\ pc = "report"
    /\ status' = GetStatus(report)
    /\ exitCode' = IF failOnRegression THEN ExitStatus(report) ELSE 0
    /\ pc' = "done"
    /\ UNCHANGED <<inputs, baseline, current, k, report>>

Next ==
    \/ BaselineUnparsable
    \/ ResultsUnsupported
    \/ Load
    \/ NoBaseline
    \/ CompareMetric
    \/ Finish

Spec == Init /\ [][Next]_vars /\ WF_vars(Next)

-----------------------------------------------------------------------------
(* Properties *)

Dict == [MetricKeys -> Nat \cup {NA}]
\* A reported comparison; its baseline is never 0 (it was divided by).
Entry == [metric : {Checks[i].name : i \in 1..Len(Checks)}, baseline : Nat \ {0},
          current : Nat, higher : BOOLEAN]

TypeOK ==
    /\ pc \in {"start", "detect", "report", "done"}
    /\ current \in Seq([key : STRING, dict : Dict])
    /\ k \in 1..Len(Checks) + 1
    /\ report \in [Lists -> Seq(Entry)]
    /\ status \in {"none", "failure", "warning", "improvement", "pass"}
    /\ exitCode \in {-1, 0, 1, 2}

\* The check a report entry came from (metric names are unique in Checks).
CheckNamed(n) == Checks[CHOOSE i \in 1..Len(Checks) : Checks[i].name = n]

\* The script's threshold set in the terms of spec 4.1: the warning and the
\* improvement boundaries are half the failure threshold (exact for even t).
HalfPolicy(t) == [warning |-> t \div 2, failure |-> t, min_improvement |-> t \div 2]

ListOf(sev) ==
    [regression |-> "regressions", warning |-> "warnings",
     improvement |-> "improvements", neutral |-> "none"][sev]

\* The reference severity of one check against the loaded baseline and the
\* current results, under the script's half-threshold policy.
SpecVerdict(c) ==
    LET b   == BaselineValue(baseline, c)
        cur == FindCurrentValue(c.name, c.key)
    IN  IF b = 0 \/ cur = NA THEN "none"
        ELSE ListOf(SpecSeverity(c.key, b, cur,
                                 HalfPolicy(ThresholdOf(baseline, c.cls))))

\* Every entry _compare_metric appended is in the list the reference
\* classifier puts it in, with the metric's own direction (the
\* higher_is_better flags of the _check_* calls) and the t*0.5 bands.
NoMisclassification ==
    \A l \in Lists : \A i \in 1..Len(report[l]) :
        LET e == report[l][i]
            c == CheckNamed(e.metric)
        IN  ListOf(SpecSeverity(c.key, e.baseline, e.current,
                 HalfPolicy(ThresholdOf(baseline, c.cls)))) = l

\* When the report is printed, each of the fourteen checks appears exactly
\* once if the reference classifier finds it not neutral, and never
\* otherwise: no check of detect_regression is dropped or repeated.
EveryComparisonReported ==
    status # "none" =>
        \A i \in 1..Len(Checks) :
            LET n == Checks[i].name
                count == Cardinality(UNION {{<<l, j>> : j \in
                           {j \in 1..Len(report[l]) : report[l][j].metric = n}}
                                            : l \in Lists})
            IN  count = IF baseline # NA /\ SpecVerdict(Checks[i]) # "none"
                        THEN 1 ELSE 0

\* Under --fail-on-regression the exit code follows the printed status as
\* spec 6 says (failure 1, warning 2, else 0); without it, main returns 0;
\* a run that printed no report died with 1.
ExitCodeFollowsStatus ==
    pc = "done" =>
        exitCode = CASE status = "none"                      -> 1
                     [] failOnRegression /\ status = "failure" -> 1
                     [] failOnRegression /\ status = "warning" -> 2
                     [] OTHER                                  -> 0

\* The rps of the last row of a CSV that names level n with rps >= least.
LastRow(rows, n, least) ==
    LET is == {i \in 1..Len(rows) : rows[i].test_name = n /\ rows[i].rps >= least}
    IN  IF is = {} THEN NA ELSE rows[Max(is)].rps

\* A level whose latest CSV row measured rps 0 against a non-zero baseline
\* served nothing: spec 4.3 gives d = (B - 0) / B = 1, a regression, and
\* spec 7 treats only an absent value as not comparable.  It is about the
\* rps > 0 filter of _load_csv_results.
ZeroRpsReported ==
    (status # "none" /\ baseline # NA /\ resultsFile.kind = "csv") =>
        \A i \in 1..Len(RpsChecks) :
            LET c == RpsChecks[i]
            IN  (/\ LastRow(resultsFile.rows, c.level, 0) = 0
                 /\ BaselineValue(baseline, c) # 0)
                => \E j \in 1..Len(report["regressions"]) :
                       report["regressions"][j].metric = c.name

\* Each rps or latency value reported for a level is that level's own
\* measurement (spec 9: exact (scenario, metric) keys, no fuzzy matching).
ComparesOwnScenario ==
    \A l \in Lists : \A i \in 1..Len(report[l]) :
        LET e == report[l][i]
            c == CheckNamed(e.metric)
        IN  c.level # NA =>
              \E j \in 1..Len(current) :
                  current[j].key = c.level /\ current[j].dict[c.key] = e.current
================================================================================
