---------------------------------- MODULE Pipeline ----------------------------------
(***************************************************************************)
(* The CI path of a baseline: a baseline run is measured and one of the   *)
(* two producers in src/scripts turns it into a baseline file, then a PR  *)
(* run is measured and its results are checked against that file by the   *)
(* gate (performance_regression.py --fail-on-regression, the              *)
(* PerformanceRegression module) and by notify_pr.py, which writes the   *)
(* PR comment.                                                            *)
(*                                                                         *)
(*   update_baseline.py  writes {version, date, commit,                   *)
(*                        baseline: {scenario: {rps, latency_avg}}}       *)
(*   parse_wrk_output.py writes {version, ..., scenarios: {scenario:      *)
(*                        {rps: int(rps), latency_p99: 0, ...}}}          *)
(*   the gate reads     baseline['scenarios'][scenario]                   *)
(*   notify_pr reads    baseline['baseline']['rps']                       *)
(*                                                                         *)
(* A baseline file is a record whose fields are its top-level keys.  Rps  *)
(* values are in tenths: wrk's rps is requests / duration, a float, and   *)
(* parse_wrk_output keeps int(rps).  The producers' own steps and crashes *)
(* are in BaselineUpdate; here a producer run is one step.               *)
(***************************************************************************)
EXTENDS Integers, Sequences

CONSTANTS
    NA,          \* an absent key or file
    Names,       \* scenario names
    BaseRuns,    \* the baseline run: Seq of [name, rps, latency] in run order
    PRFiles      \* the PR run's results files, in the gate's format

VARIABLES
    producer,    \* "update_baseline" or "parse_wrk": how CI made the baseline
    baseRun,     \* what the baseline run measured
    doc,         \* the baseline file the producer wrote, NA if none
    stage,       \* "produce", "gate" (then notify_pr), "done"
    comparison,  \* notify_pr's compare_performance result, NA if not called
    \* the gate's variables (PerformanceRegression)
    currentFile, baselineFile, thresholdFile, failOnRegression,
    format, output, outFile, stdout,
    pc, baseline, thresholds, idx, report, status, exitCode

gateVars == <<currentFile, baselineFile, thresholdFile, failOnRegression,
              format, output, outFile, stdout,
              pc, baseline, thresholds, idx, report, status, exitCode>>
vars == <<producer, baseRun, doc, stage, comparison, gateVars>>

NoKeys == [k \in {} |-> 0]

Gate == INSTANCE PerformanceRegression WITH
    CurrentFiles <- PRFiles, BaselineFiles <- {},
    ThresholdFiles <- {[kind |-> "none", t |-> NoKeys]}

--------------------------------------------------------------------------------
(* The producers.                                                          *)

\* extract_baseline_data: 'baseline' maps each scenario with results to its
\* rps and (unless 'N/A') latency_avg; the rest is metadata.
UpdateBaselineDoc(run) ==
    [version |-> "unknown", commit |-> "unknown",
     baseline |-> [n \in {run[i].name : i \in 1..Len(run)} |->
                     LET e == CHOOSE i \in 1..Len(run) : run[i].name = n
                     IN  IF run[e].latency = NA THEN [rps |-> run[e].rps]
                         ELSE [rps |-> run[e].rps, latency_avg |-> run[e].latency]]]

\* Mutant: round() in place of int().
RoundRps(v) == ((v + 5) \div 10) * 10

\* int(requests / duration), in tenths.
IntRps(v) == (v \div 10) * 10

\* generate_performance_json maps the first three wrk runs by position.
WrkNames == <<"low_concurrent", "medium_concurrent", "high_concurrent">>

WrkDoc(run) ==
    [version |-> "1.0.0",
     scenarios |-> [n \in {WrkNames[i] : i \in 1..3} |->
                      LET i == CHOOSE j \in 1..3 : WrkNames[j] = n
                      IN  [rps |-> IntRps(run[i].rps), latency_avg |-> 0,
                           latency_p99 |-> 0]],
     thresholds |-> "defaults"]

\* PerformanceBaseline: baseline.get('scenarios', {}).get(name), a missing
\* key of a scenario being absent; a missing file loads as {}.
GateView(d) ==
    IF d = NA THEN [kind |-> "missing", scenarios |-> [n \in Names |-> NA]]
    ELSE [kind |-> "ok",
          scenarios |-> [n \in Names |->
              IF "scenarios" \in DOMAIN d /\ n \in DOMAIN d.scenarios
              THEN [m \in {"rps", "latency_p99"} |->
                      IF m \in DOMAIN d.scenarios[n] THEN d.scenarios[n][m] ELSE NA]
              ELSE NA]]

--------------------------------------------------------------------------------
(* notify_pr.compare_performance: the rps of the first scenario that has  *)
(* one against baseline['baseline']['rps'], both truthy, +-10%.           *)

FirstRps(cf) ==
    LET has == {k \in 1..Len(cf.scenarios) : cf.scenarios[k].results.rps # NA}
    IN  IF cf.kind # "ok" \/ has = {} THEN NA
        ELSE cf.scenarios[CHOOSE k \in has : \A j \in has : k <= j].results.rps

BaselineRps(d) ==
    IF "baseline" \in DOMAIN d /\ "rps" \in DOMAIN d.baseline THEN d.baseline.rps ELSE NA

ComparePerformance(cf, d) ==
    LET c == FirstRps(cf)
        b == BaselineRps(d)
        compared == c \notin {NA, 0} /\ b \notin {NA, 0}
    IN  [compared    |-> compared,
         regression  |-> compared /\ 100 * (c - b) < -10 * b,
         improvement |-> compared /\ 100 * (c - b) > 10 * b]

--------------------------------------------------------------------------------

Init ==
    /\ producer \in {"update_baseline", "parse_wrk"}
    /\ baseRun \in BaseRuns
    /\ doc = NA
    /\ stage = "produce"
    /\ comparison = NA
    /\ currentFile \in PRFiles
    /\ baselineFile = NA
    /\ thresholdFile = [kind |-> "none", t |-> NoKeys]
    /\ failOnRegression = TRUE
    /\ format = "markdown" /\ output = NA /\ outFile = NA /\ stdout = {}
    /\ pc = "wait"
    /\ baseline = NA /\ thresholds = NA /\ idx = 1
    /\ report = Gate!EmptyReport /\ status = NA /\ exitCode = NA

\* The producer writes the baseline file; the gate is started on it.
StartGate(d) ==
    /\ baselineFile' = GateView(d)
    /\ pc' = "start"
    /\ stage' = "gate"

UpdateBaseline ==
    /\ stage = "produce" /\ producer = "update_baseline"
    /\ doc' = UpdateBaselineDoc(baseRun)
    /\ StartGate(doc')
    /\ UNCHANGED <<producer, baseRun, comparison, currentFile, thresholdFile,
                   failOnRegression, format, output, outFile, stdout,
                   baseline, thresholds, idx, report, status, exitCode>>

ParseWrk ==
    /\ stage = "produce" /\ producer = "parse_wrk"
    /\ Len(baseRun) >= 3
    /\ doc' = WrkDoc(baseRun)
    /\ StartGate(doc')
    /\ UNCHANGED <<producer, baseRun, comparison, currentFile, thresholdFile,
                   failOnRegression, format, output, outFile, stdout,
                   baseline, thresholds, idx, report, status, exitCode>>

\* "Need at least 3 RPS values": exit 1 and no file is written.
ParseWrkFails ==
    /\ stage = "produce" /\ producer = "parse_wrk"
    /\ Len(baseRun) < 3
    /\ StartGate(NA)
    /\ UNCHANGED <<producer, baseRun, doc, comparison, currentFile, thresholdFile,
                   failOnRegression, format, output, outFile, stdout,
                   baseline, thresholds, idx, report, status, exitCode>>

\* One step of performance_regression.py.
GateStep ==
    /\ stage = "gate"
    /\ Gate!Next
    /\ UNCHANGED <<producer, baseRun, doc, stage, comparison>>

\* notify_pr main(): compare only when both files loaded.
Notify ==
    /\ stage = "gate" /\ pc = "done"
    /\ comparison' = IF doc = NA THEN NA ELSE ComparePerformance(currentFile, doc)
    /\ stage' = "done"
    /\ UNCHANGED <<producer, baseRun, doc, gateVars>>

Next == UpdateBaseline \/ ParseWrk \/ ParseWrkFails \/ GateStep \/ Notify

Spec == Init /\ [][Next]_vars /\ WF_vars(Next)
--------------------------------------------------------------------------------
(***************************************************************************)
(* Properties                                                              *)
(***************************************************************************)

\* The PR run's rps for scenario n fell more than 10% (the default
\* rps_failure) below what the baseline run measured for n.
Regressed(n) ==
    /\ currentFile.kind = "ok"
    /\ \E i \in 1..Len(baseRun), k \in 1..Len(currentFile.scenarios) :
          LET b == baseRun[i].rps
              c == currentFile.scenarios[k].results.rps
          IN  baseRun[i].name = n /\ currentFile.scenarios[k].name = n
              /\ 100 * (c - b) < -10 * b

Flagged == exitCode = 1 \/ (comparison # NA /\ comparison.regression)

\* Whichever producer wrote the baseline, a PR run whose rps fell more than
\* 10% below the baseline run's is caught: the gate exits 1 or the PR
\* comment reports a regression.  It is about the key each consumer reads
\* from the file each producer writes.
NoRegressionMissed ==
    stage = "done" => ((\E n \in Names : Regressed(n)) => Flagged)

\* The gate never fails a PR, and the comment never reports a regression,
\* unless the PR run's rps really fell more than 10% below the baseline
\* run's for some scenario: int() truncation of the wrk rps only lowers
\* the baseline, and the zero latency_p99 it writes is skipped.
NoFalseAlarm ==
    stage = "done" => (Flagged => \E n \in Names : Regressed(n))
================================================================================
