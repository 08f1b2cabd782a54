------------------------- MODULE PerformanceRegression -------------------------
(***************************************************************************)
(* src/scripts/performance_regression.py: the detector run as             *)
(*   performance_regression.py current baseline [--thresholds f]          *)
(*                             [--fail-on-regression]                     *)
(* main() loads the current results (exit 1 when unreadable), the         *)
(* baseline (PerformanceBaseline) and the thresholds                      *)
(* (PerformanceThresholds), runs PerformanceComparator.compare, which     *)
(* checks rps and latency_p99 of each scenario, renders the report and    *)
(* exits 1 only when --fail-on-regression is set and a failure was found. *)
(*                                                                         *)
(* The input files are VARIABLES chosen once in Init and never changed:   *)
(* every combination of the small sets given by the MC module is a run.  *)
(* Values and thresholds are integers (a threshold t stands for t/100).   *)
(* The report's text is not modelled: a rendering is named by its       *)
(* format, and the model keeps where main() sends each one (--format,     *)
(* --output), the overall status it prints and the exit code.            *)
(***************************************************************************)
EXTENDS Integers, Sequences, MetricComparator

CONSTANTS
    NA,              \* an absent key
    Names,           \* scenario names
    CurrentFiles,    \* possible contents of the current results file
    BaselineFiles,   \* possible contents of the baseline file
    ThresholdFiles   \* possible --thresholds arguments

Metrics == {"rps", "latency_p99"}

VARIABLES
    currentFile, baselineFile, thresholdFile, failOnRegression,  \* inputs
    format,      \* --format: "markdown", "json" or "both"
    output,      \* --output: a path, or NA
    outFile,     \* the rendering the --output file holds, NA if not written
    stdout,      \* the renderings printed
    pc,          \* "start", "compare", "finish", "done"
    baseline,    \* PerformanceBaseline.baseline['scenarios'] once loaded
    thresholds,  \* PerformanceThresholds.thresholds once loaded
    idx,         \* loop index over current_results['test_scenarios']
    report,      \* PerformanceReport: regressions, warnings, improvements
    status,      \* the overall status the markdown report prints
    exitCode     \* the process exit code, NA while running

inputs == <<currentFile, baselineFile, thresholdFile, failOnRegression, format, output>>
emitted == <<outFile, stdout>>
vars == <<inputs, emitted, pc, baseline, thresholds, idx, report, status, exitCode>>

--------------------------------------------------------------------------------
(* PerformanceThresholds                                                   *)

DEFAULT_THRESHOLDS ==
    [rps_warning |-> 10, rps_failure |-> 10,
     latency_warning |-> 10, latency_failure |-> 20, min_improvement |-> 5]

\* No --thresholds, an unreadable file, or an empty 'thresholds' object all
\* give the defaults (`thresholds or DEFAULT_THRESHOLDS.copy()`); any other
\* object is taken as it is, whatever keys it lacks.
ResolveThresholds(tf) ==
    IF tf.kind = "ok" /\ DOMAIN tf.t # {} THEN tf.t ELSE DEFAULT_THRESHOLDS

(* PerformanceBaseline: a missing or undecodable file loads as {}.         *)
LoadedBaseline(bf) ==
    IF bf.kind = "ok" THEN bf.scenarios ELSE [n \in Names |-> NA]

\* `if not baseline_scenario: continue` -- absent or an empty dict.
HasBaseline(bs) == bs # NA /\ \E m \in Metrics : bs[m] # NA

--------------------------------------------------------------------------------
(* PerformanceComparator._check_rps / _check_latency.  Each check is a    *)
(* ladder of threshold lookups tried in order; the first test that holds  *)
(* names the list the result is appended to.  A lookup of a key the       *)
(* thresholds lack raises KeyError.  change = (current - baseline) /      *)
(* baseline, held as the numerator num over the baseline b > 0.           *)

\* Mutant: a tie at the threshold counts as crossing it.
BelowOrEqual(num, b, t) == 100 * num <= -(t * b)

Below(num, b, t) == 100 * num < -(t * b)     \* change < -t
Above(num, b, t) == 100 * num > t * b        \* change >  t

\* Mutant: the RPS warning test is left out.
RpsLadderNoWarning ==
    << [key |-> "rps_failure",     test |-> "below", list |-> "regressions"],
       [key |-> "min_improvement", test |-> "above", list |-> "improvements"] >>

RpsLadder ==
    << [key |-> "rps_failure",     test |-> "below", list |-> "regressions"],
       [key |-> "rps_warning",     test |-> "below", list |-> "warnings"],
       [key |-> "min_improvement", test |-> "above", list |-> "improvements"] >>

LatencyLadder ==
    << [key |-> "latency_failure", test |-> "above", list |-> "regressions"],
       [key |-> "latency_warning", test |-> "above", list |-> "warnings"] >>

Passes(r, num, b, t) == IF r.test = "below" THEN Below(num, b, t) ELSE Above(num, b, t)

Ladder == [rps |-> RpsLadder, latency_p99 |-> LatencyLadder]

RECURSIVE Climb(_, _, _, _)
Climb(ladder, num, b, th) ==
    IF ladder = <<>> THEN "none"
    ELSE LET r == Head(ladder) IN
         IF r.key \notin DOMAIN th THEN "KeyError"
         ELSE IF Passes(r, num, b, th[r.key]) THEN r.list
         ELSE Climb(Tail(ladder), num, b, th)

\* `.get(m, {}).get('value', 0)` and `.get(m, 0)`: absent reads as 0.
OrZero(v) == IF v = NA THEN 0 ELSE v

\* The outcome of checking metric m of one scenario: "skip" (baseline 0),
\* "KeyError", "none", or the name of the list the result goes to.
CheckMetric(m, results, bs, th) ==
    IF OrZero(bs[m]) = 0 THEN "skip"
    ELSE Climb(Ladder[m], OrZero(results[m]) - OrZero(bs[m]), OrZero(bs[m]), th)

Result(name, m, results, bs) ==
    [scenario |-> name, metric |-> m,
     baseline |-> OrZero(bs[m]), current |-> OrZero(results[m])]

\* Append the result of one check to the list its outcome names.
Record(rep, outcome, res) ==
    IF outcome \in {"regressions", "warnings", "improvements"}
    THEN [rep EXCEPT ![outcome] = Append(@, res)]
    ELSE rep

--------------------------------------------------------------------------------
(* PerformanceReport.has_failure/has_warning/has_improvement and the      *)
(* status line of ReportGenerator.generate_markdown.                      *)
\* Mutant: improvements are looked at before warnings.
ReportStatusImprovementFirst(rep) ==
    IF rep.regressions # <<>> THEN "failure"
    ELSE IF rep.improvements # <<>> THEN "improvement"
    ELSE IF rep.warnings # <<>> THEN "warning"
    ELSE "pass"

ReportStatus(rep) ==
    IF rep.regressions # <<>> THEN "failure"
    ELSE IF rep.warnings # <<>> THEN "warning"
    ELSE IF rep.improvements # <<>> THEN "improvement"
    ELSE "pass"

EmptyReport == [regressions |-> <<>>, warnings |-> <<>>, improvements |-> <<>>]

Scenarios == currentFile.scenarios

Init ==
    /\ currentFile \in CurrentFiles
    /\ baselineFile \in BaselineFiles
    /\ thresholdFile \in ThresholdFiles
    /\ failOnRegression \in BOOLEAN
    /\ format \in {"markdown", "json", "both"}
    /\ output \in {NA, "report"}
    /\ outFile = NA
    /\ stdout = {}
    /\ pc = "start"
    /\ baseline = NA
    /\ thresholds = NA
    /\ idx = 1
    /\ report = EmptyReport
    /\ status = NA
    /\ exitCode = NA

\* main(): an unreadable current results file exits 1 before anything else.
CurrentUnreadable ==
    /\ pc = "start"
    /\ currentFile.kind # "ok"
    /\ pc' = "done"
    /\ exitCode' = 1
    /\ UNCHANGED <<inputs, emitted, baseline, thresholds, idx, report, status>>

\* main(): load the baseline and the thresholds, then start compare().
LoadInputs ==
    /\ pc = "start"
    /\ currentFile.kind = "ok"
    /\ baseline' = LoadedBaseline(baselineFile)
    /\ thresholds' = ResolveThresholds(thresholdFile)
    /\ pc' = "compare"
    /\ UNCHANGED <<inputs, emitted, idx, report, status, exitCode>>

(* One iteration of the loop of compare(), split by its outcome.          *)
Current == Scenarios[idx]
BaselineOf(s) == baseline[s.name]
Outcomes(s) ==
    <<CheckMetric("rps", s.results, BaselineOf(s), thresholds),
      CheckMetric("latency_p99", s.results, BaselineOf(s), thresholds)>>

\* `if not baseline_scenario: continue`
SkipScenario ==
    /\ pc = "compare"
    /\ idx <= Len(Scenarios)
    /\ ~HasBaseline(BaselineOf(Current))
    /\ idx' = idx + 1
    /\ UNCHANGED <<inputs, emitted, pc, baseline, thresholds, report, status, exitCode>>

\* _check_rps then _check_latency, each appending at most one result.
CompareScenario ==
    /\ pc = "compare"
    /\ idx <= Len(Scenarios)
    /\ HasBaseline(BaselineOf(Current))
    /\ LET s == Current
           o == Outcomes(s)
       IN  /\ "KeyError" \notin {o[1], o[2]}
           /\ report' =
                Record(Record(report, o[1], Result(s.name, "rps", s.results, BaselineOf(s))),
                       o[2], Result(s.name, "latency_p99", s.results, BaselineOf(s)))
    /\ idx' = idx + 1
    /\ UNCHANGED <<inputs, emitted, pc, baseline, thresholds, status, exitCode>>

\* A threshold lookup raises KeyError: the traceback ends the program with
\* exit status 1 and no report is printed.
CompareRaises ==
    /\ pc = "compare"
    /\ idx <= Len(Scenarios)
    /\ HasBaseline(BaselineOf(Current))
    /\ "KeyError" \in {Outcomes(Current)[1], Outcomes(Current)[2]}
    /\ pc' = "done"
    /\ exitCode' = 1
    /\ UNCHANGED <<inputs, emitted, baseline, thresholds, idx, report, status>>

(* main()'s output: each rendering --format asks for goes to the --output *)
(* file when one is given and --format names that rendering alone, and is *)
(* printed otherwise; the json branch's replace('.md', '.json') sits       *)
(* under args.format == 'json' and never runs.  Markdown is handled first, *)
(* so with both written to one file the json would be what it holds.      *)
Requested(fmt) == IF fmt = "both" THEN {"markdown", "json"} ELSE {fmt}

\* Mutant: `if args.output:` without the format test, in both branches.
ToFileWhatever(r, fmt, out) == out # NA /\ r \in Requested(fmt)

ToFile(r, fmt, out) == out # NA /\ fmt = r

OutputFile(fmt, out) ==
    CASE ToFile("json", fmt, out)     -> "json"
      [] ToFile("markdown", fmt, out) -> "markdown"
      [] OTHER                        -> NA

Printed(fmt, out) == {r \in Requested(fmt) : ~ToFile(r, fmt, out)}

Render ==
    /\ outFile' = OutputFile(format, output)
    /\ stdout' = Printed(format, output)

\* Mutant: exit status 2 when there are warnings but no failure.
FinishExitsTwoOnWarning ==
    /\ pc = "compare"
    /\ idx > Len(Scenarios)
    /\ status' = ReportStatus(report)
    /\ exitCode' = CASE failOnRegression /\ report.regressions # <<>> -> 1
                      [] report.warnings # <<>> -> 2
                      [] OTHER -> 0
    /\ Render
    /\ pc' = "done"
    /\ UNCHANGED <<inputs, baseline, thresholds, idx, report>>

\* compare() returns; main() renders the report and picks the exit code.
Finish ==
    /\ pc = "compare"
    /\ idx > Len(Scenarios)
    /\ status' = ReportStatus(report)
    /\ exitCode' = IF failOnRegression /\ report.regressions # <<>> THEN 1 ELSE 0
    /\ Render
    /\ pc' = "done"
    /\ UNCHANGED <<inputs, baseline, thresholds, idx, report>>

Next ==
    \/ CurrentUnreadable \/ LoadInputs
    \/ SkipScenario \/ CompareScenario \/ CompareRaises
    \/ Finish

\* The script is one sequential process that runs to its exit.
Spec == Init /\ [][Next]_vars /\ WF_vars(Next)
--------------------------------------------------------------------------------
(***************************************************************************)
(* Correspondence with the reference classifier and aggregator.          *)
(***************************************************************************)

ListSeverity ==
    [regressions |-> "regression", warnings |-> "warning", improvements |-> "improvement"]

\* The MetricComparator threshold set the script's keys give metric m.
SpecPolicy(th, m) ==
    IF m = "rps"
    THEN [warning |-> th.rps_warning, failure |-> th.rps_failure,
          min_improvement |-> th.min_improvement]
    ELSE [warning |-> th.latency_warning, failure |-> th.latency_failure,
          min_improvement |-> th.min_improvement]

PolicyComplete ==
    thresholds # NA /\ DOMAIN DEFAULT_THRESHOLDS \subseteq DOMAIN thresholds

SpecClassify(m, b, c, th) == SpecSeverity(m, b, c, SpecPolicy(th, m))

\* The severity the script's own ladder gives a comparable pair.
PRClassify(m, b, c, th) ==
    LET o == Climb(Ladder[m], c - b, b, th)
    IN  IF o \in DOMAIN ListSeverity THEN ListSeverity[o] ELSE "neutral"

\* What the run has decided so far, in the aggregator's terms.
Verdict ==
    IF pc # "done" THEN "none" ELSE IF status = NA THEN "error" ELSE status

\* The refinement mapping: the aggregator's input is the parsed current
\* results, its baseline and policy what the script loads from its files.
MappedInput == IF currentFile.kind = "ok" THEN Scenarios ELSE <<>>
MappedPartitions ==
    [regression |-> report.regressions, warning |-> report.warnings,
     improvement |-> report.improvements]

\* The aggregator with the script's own classifier ...
Aggregator ==
    INSTANCE ReportAggregator WITH
        MetricOrder <- <<"rps", "latency_p99">>, Classify <- PRClassify,
        input <- MappedInput, base <- LoadedBaseline(baselineFile),
        policy <- ResolveThresholds(thresholdFile),
        partitions <- MappedPartitions, next <- idx, verdict <- Verdict

--------------------------------------------------------------------------------
(***************************************************************************)
(* Properties                                                              *)
(***************************************************************************)

ResultType ==
    [scenario : Names, metric : Metrics, baseline : Int, current : Int]

TypeOK ==
    /\ currentFile \in CurrentFiles /\ baselineFile \in BaselineFiles
    /\ thresholdFile \in ThresholdFiles /\ failOnRegression \in BOOLEAN
    /\ pc \in {"start", "compare", "done"}
    /\ baseline \in {NA} \cup [Names -> {NA} \cup [Metrics -> Int \cup {NA}]]
    /\ idx \in 1..(Len(Scenarios) + 1)
    /\ report \in [regressions : Seq(ResultType), warnings : Seq(ResultType),
                   improvements : Seq(ResultType)]
    /\ status \in {NA, "failure", "warning", "improvement", "pass"}
    /\ exitCode \in {NA, 0, 1}
    /\ format \in {"markdown", "json", "both"} /\ output \in {NA, "report"}
    /\ outFile \in {NA, "markdown", "json"} /\ stdout \subseteq {"markdown", "json"}

(* No misclassification: every result _check_rps and _check_latency have  *)
(* appended sits in the list of the severity the reference classifier     *)
(* (spec.md 4.3: sign-normalised degradation, strict thresholds, failure  *)
(* before warning before improvement) gives its baseline and current      *)
(* values under the thresholds the script resolved.  It is about the sign *)
(* conventions of the two checks and their tie-breaking at a threshold.   *)
NoMisclassification ==
    PolicyComplete =>
        \A l \in DOMAIN ListSeverity : \A i \in DOMAIN report[l] :
            LET r == report[l][i]
            IN  SpecClassify(r.metric, r.baseline, r.current, thresholds) = ListSeverity[l]

(* No degradation missed: for every scenario compare() has passed over,   *)
(* every measured metric with a non-zero baseline that the reference      *)
(* classifier calls a regression or a warning is in the report, in that   *)
(* list.  It is about the skip conditions of compare() and the checks and *)
(* the order of their threshold tests.                                    *)
NoDegradationMissed ==
    PolicyComplete =>
        \A k \in 1..(idx - 1) : \A m \in Metrics :
            LET s   == Scenarios[k]
                bs  == baseline[s.name]
                sev == IF bs # NA /\ bs[m] \notin {NA, 0} /\ s.results[m] # NA
                       THEN SpecClassify(m, bs[m], s.results[m], thresholds)
                       ELSE "neutral"
                l   == CHOOSE l \in DOMAIN ListSeverity : ListSeverity[l] = sev
            IN  sev \in {"regression", "warning"} =>
                    \E i \in DOMAIN report[l] :
                        report[l][i] = Result(s.name, m, s.results, bs)

(* No report lost: once main() has rendered a report, every rendering    *)
(* --format asked for is on stdout or is what the --output file holds, so  *)
(* neither branch of the format routing drops one or overwrites the other. *)
NoReportLost ==
    (pc = "done" /\ status # NA) =>
        \A r \in Requested(format) : r \in stdout \/ outFile = r

(* The script implements the aggregator of spec.md 4.4 with its own       *)
(* classifier: scenarios in input order, metrics rps then latency_p99,    *)
(* exactly the comparable pairs, the overall status by precedence, and a  *)
(* fatal error only before the first comparison.                          *)
ImplementsAggregator == Aggregator!Spec
================================================================================
