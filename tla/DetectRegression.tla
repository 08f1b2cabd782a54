----------------------------- MODULE DetectRegression -----------------------------
(***************************************************************************)
(* src/scripts/detect_regression.py, run as                              *)
(*   detect_regression.py <performance_results.json>                      *)
(* main() loads the results (no argument or an unreadable file ends the   *)
(* process with status 1), detect_regression() walks test_scenarios and   *)
(* compares rps and latency_avg of each scenario the built-in BASELINE     *)
(* knows against the built-in THRESHOLDS, then main() prints and saves    *)
(* the markdown report and exits 1 on failures, 2 on warnings, else 0.    *)
(*                                                                         *)
(* Values are integers in tenths of the unit (wrk prints one decimal), so *)
(* BASELINE is the source's table times ten and an exact tie such as      *)
(* 518 -> 621.6 is a value of the model.  change = (c - b) / b is a float *)
(* in the script: away from a tie the model's exact comparison agrees     *)
(* with it, and at an exact tie the rounded quotient lands on one side of *)
(* the threshold, fixed per value pair: RoundsBeyond lists the pairs whose *)
(* IEEE-754 quotient lies strictly beyond it (569.8 -> 518 is not one:    *)
(* 0.09999999999999991; 621.6 -> 518 is: 0.20000000000000004).            *)
(***************************************************************************)
EXTENDS Integers, Sequences, MetricComparator

CONSTANTS
    NA,            \* an absent key
    CurrentFiles,  \* [kind: "noarg"/"unreadable"/"ok", scenarios: Seq]
    RoundsBeyond   \* <<current, baseline>> ties whose float quotient crosses

\* THRESHOLDS, in whole percent.
THRESHOLDS ==
    [rps       |-> [warning |-> 10, failure |-> 10],
     latency   |-> [warning |-> 10, failure |-> 20],
     resources |-> [warning |-> 10, failure |-> 20]]

\* BASELINE, in tenths (17798 rps is 177980, 518 us is 5180).
BASELINE ==
    [low_concurrent    |-> [rps |-> 177980, latency_avg |-> 5180,   latency_p99 |-> 16000],
     medium_concurrent |-> [rps |-> 172090, latency_avg |-> 27900,  latency_p99 |-> 85000],
     high_concurrent   |-> [rps |-> 166230, latency_avg |-> 122000, latency_p99 |-> 400000]]

\* The metrics detect_regression reads, in the order it reads them.
Metrics == <<"rps", "latency_avg">>

Lists == {"failures", "warnings", "improvements"}

VARIABLES
    currentFile,  \* input: the results file named by sys.argv[1]
    pc,           \* "start", "compare", "done"
    idx,          \* loop index over current_data['test_scenarios']
    report,       \* failures, warnings, improvements
    printed,      \* the markdown report was printed and saved
    exitCode      \* the process exit status, NA while running

vars == <<currentFile, pc, idx, report, printed, exitCode>>

\* The float test change < -t (or change > t): exact away from a tie; at a
\* tie it holds when the rounded quotient lands beyond the threshold (out,
\* which is Beyond of the pair compared).
Below(num, b, t, out) == 100 * num < -(t * b) \/ (out /\ 100 * num = -(t * b))
Above(num, b, t, out) == 100 * num > t * b \/ (out /\ 100 * num = t * b)

\* The if/elif chain of the rps check.
RpsSeverity(c, b, out) ==
    CASE Below(c - b, b, THRESHOLDS.rps.failure, out) -> "failures"
      [] Below(c - b, b, THRESHOLDS.rps.warning, out) -> "warnings"
      [] Above(c - b, b, THRESHOLDS.rps.warning, out) -> "improvements"
      [] OTHER                                         -> "none"

\* Mutant: the latency improvement test copied from the rps check.
LatencySeverityRpsSense(c, b, out) ==
    CASE Above(c - b, b, THRESHOLDS.latency.failure, out) -> "failures"
      [] Above(c - b, b, THRESHOLDS.latency.warning, out) -> "warnings"
      [] Above(c - b, b, THRESHOLDS.latency.warning, out) -> "improvements"
      [] OTHER                                             -> "none"

\* The if/elif chain of the average latency check.
LatencySeverity(c, b, out) ==
    CASE Above(c - b, b, THRESHOLDS.latency.failure, out) -> "failures"
      [] Above(c - b, b, THRESHOLDS.latency.warning, out) -> "warnings"
      [] Below(c - b, b, THRESHOLDS.latency.warning, out) -> "improvements"
      [] OTHER                                             -> "none"

Beyond(c, b) == <<c, b>> \in RoundsBeyond

Severity(m, c, b, out) ==
    IF m = "rps" THEN RpsSeverity(c, b, out) ELSE LatencySeverity(c, b, out)

Scenarios == currentFile.scenarios
Current == Scenarios[idx]

\* results[m]['value'] raises KeyError when the scenario lacks the metric.
Measured(s) == \A i \in 1..Len(Metrics) : s.results[Metrics[i]] # NA

\* Append the comparisons of scenario s, each metric with its rounding.
Compared(rep, s) ==
    LET b == BASELINE[s.name]
        Add(r, m) ==
            LET sev == Severity(m, s.results[m], b[m], Beyond(s.results[m], b[m]))
            IN  IF sev = "none" THEN r
                ELSE [r EXCEPT ![sev] = Append(@, [scenario |-> s.name, metric |-> m,
                                                  baseline |-> b[m],
                                                  current |-> s.results[m]])]
    IN  Add(Add(rep, "rps"), "latency_avg")

Init ==
    /\ currentFile \in CurrentFiles
    /\ pc = "start"
    /\ idx = 1
    /\ report = [l \in Lists |-> <<>>]
    /\ printed = FALSE
    /\ exitCode = NA

\* main(): the usage message without an argument, or open/json.load raising.
LoadFails ==
    /\ pc = "start"
    /\ currentFile.kind \in {"noarg", "unreadable"}
    /\ pc' = "done"
    /\ exitCode' = 1
    /\ UNCHANGED <<currentFile, idx, report, printed>>

Load ==
    /\ pc = "start"
    /\ currentFile.kind = "ok"
    /\ pc' = "compare"
    /\ UNCHANGED <<currentFile, idx, report, printed, exitCode>>

\* `if scenario_name not in BASELINE: continue`
SkipScenario ==
    /\ pc = "compare"
    /\ idx <= Len(Scenarios)
    /\ Current.name \notin DOMAIN BASELINE
    /\ idx' = idx + 1
    /\ UNCHANGED <<currentFile, pc, report, printed, exitCode>>

\* The rps check, then the average latency check.
CompareScenario ==
    /\ pc = "compare"
    /\ idx <= Len(Scenarios)
    /\ Current.name \in DOMAIN BASELINE
    /\ Measured(Current)
    /\ report' = Compared(report, Current)
    /\ idx' = idx + 1
    /\ UNCHANGED <<currentFile, pc, printed, exitCode>>

\* A scenario of BASELINE without rps or latency_avg: KeyError, traceback,
\* exit status 1, and whatever was found so far is never printed.
CompareRaises ==
    /\ pc = "compare"
    /\ idx <= Len(Scenarios)
    /\ Current.name \in DOMAIN BASELINE
    /\ ~Measured(Current)
    /\ pc' = "done"
    /\ exitCode' = 1
    /\ UNCHANGED <<currentFile, idx, report, printed>>

\* Mutant: warnings are looked at before failures.
ExitCodeWarningFirst(rep) ==
    CASE rep.warnings # <<>> -> 2
      [] rep.failures # <<>> -> 1
      [] OTHER               -> 0

\* The exit code of main(): failures 1, else warnings 2, else 0.
ExitCode(rep) ==
    CASE rep.failures # <<>> -> 1
      [] rep.warnings # <<>> -> 2
      [] OTHER               -> 0

\* generate_report, print, save to regression_report.md, exit.
Finish ==
    /\ pc = "compare"
    /\ idx > Len(Scenarios)
    /\ printed' = TRUE
    /\ exitCode' = ExitCode(report)
    /\ pc' = "done"
    /\ UNCHANGED <<currentFile, idx, report>>

Next ==
    \/ LoadFails \/ Load
    \/ SkipScenario \/ CompareScenario \/ CompareRaises
    \/ Finish

\* One sequential process that runs to its exit.
Spec == Init /\ [][Next]_vars /\ WF_vars(Next)
--------------------------------------------------------------------------------
(***************************************************************************)
(* Correspondence with the reference classifier and aggregator.          *)
(***************************************************************************)

ListSeverity ==
    [failures |-> "regression", warnings |-> "warning", improvements |-> "improvement"]

\* THRESHOLDS in the terms of spec 4.1: the improvement test of both checks
\* uses the warning threshold.
DRPolicy(m) ==
    LET t == IF m = "rps" THEN THRESHOLDS.rps ELSE THRESHOLDS.latency
    IN  [warning |-> t.warning, failure |-> t.failure, min_improvement |-> t.warning]

\* What the printed report and the exit code say: 1 and 2 are failure and
\* warning, an improvement section with exit 0 is improvement, else pass.
ReportedStatus ==
    CASE exitCode = 1                -> "failure"
      [] exitCode = 2                -> "warning"
      [] report.improvements # <<>>  -> "improvement"
      [] OTHER                       -> "pass"

Verdict ==
    IF pc # "done" THEN "none" ELSE IF printed THEN ReportedStatus ELSE "error"

MappedBase ==
    [n \in {Scenarios[i].name : i \in 1..Len(Scenarios)} \cup DOMAIN BASELINE |->
        IF n \in DOMAIN BASELINE THEN BASELINE[n] ELSE NA]

\* The aggregator of spec 4.4 with the reference classifier under DRPolicy:
\* the engine of the spec.
SpecClassify(m, b, c, p) == SpecSeverity(m, b, c, DRPolicy(m))

Engine ==
    INSTANCE ReportAggregator WITH
        MetricOrder <- Metrics, Classify <- SpecClassify,
        input <- Scenarios, base <- MappedBase, policy <- THRESHOLDS,
        partitions <- [regression |-> report.failures, warning |-> report.warnings,
                       improvement |-> report.improvements],
        next <- idx, verdict <- Verdict

--------------------------------------------------------------------------------
(***************************************************************************)
(* Properties                                                              *)
(***************************************************************************)

\* Every comparison detect_regression appended is in the list the reference
\* classifier of spec 4.3 picks under THRESHOLDS, ties included: a value
\* exactly at a threshold (518 -> 621.6 is +20%, 518 -> 466.2 is -10%)
\* does not cross it, whatever the float quotient rounds to.
NoMisclassification ==
    \A l \in Lists : \A i \in 1..Len(report[l]) :
        LET e == report[l][i]
        IN  SpecSeverity(e.metric, e.baseline, e.current, DRPolicy(e.metric))
              = ListSeverity[l]

\* Away from ties, the script is the engine of spec 4.3/4.4 under its own
\* THRESHOLDS: each comparison classified as the reference does, in input
\* order, nothing dropped, exit codes by precedence.
ImplementsSpec == Engine!Spec
================================================================================
