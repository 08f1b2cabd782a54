# TLA+ models of the uvhttp performance-regression tooling

The repository's Python side (`src/`) is CI tooling around the uvhttp
benchmarks. It parses benchmark output, keeps a baseline, decides whether a
run regressed, and reports the result. `spec.md` describes the decision part
as one engine: a threshold policy, a baseline store, a per-metric comparator
and a report aggregator. The source implements that engine three times, each
a little differently, and surrounds it with producers and consumers of the
baseline file. This project models the engine as the spec states it. It then
models each implementation from its source and checks it against the spec.

## Inventory

| Component | Source | State | Operations | Interacts with |
|---|---|---|---|---|
| ThresholdPolicy | `performance_regression.py` `PerformanceThresholds` (77-98); `detect_regression.py` `THRESHOLDS` (11-24); `detect_performance_regression.py` lookups (103, 143, 169) | a dict of threshold fractions, built once | resolve defaults / file; key lookup | the comparator reads it |
| BaselineStore | `performance_regression.py` `PerformanceBaseline` (48-71); `detect_performance_regression.py` `_load_baseline` (32-39); `detect_regression.py` `BASELINE` (27-43) | the parsed baseline file | load (missing and undecodable files become `{}` in two of the three), lookup by scenario | the comparator; `update_baseline.py` writes the file |
| MetricComparator | `_check_rps`/`_check_latency` (PR 151-232); `_compare_metric` + `_find_current_value` (DPR 189-252); `detect_regression` (DR 45-134); `compare_performance` (notify_pr 33-74) | none (pure) | classify one (baseline, current) pair | appends to report lists |
| ReportAggregator + CLI | `compare`, `has_*`, `main` (PR 113-149, 35-45, 349-430); `detect_regression`, `_get_status`, `exit_with_status` (DPR 79-99, 290-372); DR `main` (186-212) | report lists, status, exit code | loop over scenarios, overall status, exit code | calls the comparator; CI reads the exit code |
| Baseline update | `update_baseline.py` | baseline file, `.backup`, history file (persisted across runs) | extract, optional compare, backup, overwrite, history insert+truncate | produces what the detectors read |
| PR notification | `notify_pr.py` | none | one RPS comparison, comment text | reads results and baseline files |
| wrk parser | `parse_wrk_output.py` | none | regex over the log, baseline-shaped JSON | produces current results |
| Benchmark analyzer | `benchmark/analyze_results.py` | `data`, `analysis` dicts | grade against absolute targets, overall roll-up | reads benchmark logs |
| Trend chart, API docs, sidebar | `generate_trend_chart.py`, `convert_xml_to_markdown.py`, `update_api_sidebar.py` | none | rendering | none of the above |

Everything is sequential. Each script is one process that runs from start to
exit, with no threads, callbacks or suspension points. So the hard behaviours
are not interleavings:

* **Numeric edges.** Ties at a threshold must not cross it. A zero baseline
  must be skipped. The default RPS warning equals the RPS failure threshold,
  so the RPS warning band is empty. The DPR warning band is half the failure
  threshold.
* **Error paths.** Missing or undecodable files are swallowed in some places
  and fatal in others. An absent metric becomes 0. A partial thresholds file
  raises `KeyError` in the middle of the loop.
* **Lookups that pick the wrong data.** The DPR fuzzy lookup takes the first
  scenario that has the metric. The producers and consumers of the baseline
  file disagree on its shape.
* **Persisted state across runs.** `update_baseline.py` truncates and then
  writes the baseline. It overwrites the backup. It updates the history last.
  A crash between these steps leaves inconsistent files.

The properties that make each component correct:

* ThresholdPolicy: unlisted keys fall back to the defaults, and an invalid
  policy is rejected (spec 4.1).
* Comparator: its result equals the reference classification (spec 4.3).
  This covers the sign normalisation, strict ties and failure > warning >
  improvement.
* Aggregator: the report contains exactly the comparable pairs, in input
  order. The overall status follows precedence. A fatal error occurs only
  before any comparison (spec 4.4 and 7).
* Baseline update: a valid baseline is always recoverable from the baseline
  or its backup. The history is bounded by `--max-history` and never lists a
  baseline that was not first written to the baseline file.
* Pipeline: a baseline written by the update script is the one the detectors
  compare against.

`PROJECT.json` lists every component and every hazard, each at the line
where it bites.

## Modules

| Module | What it is |
|---|---|
| `MetricComparator` | The reference classifier of spec 4.3, as operators. Integer values, thresholds in whole percent, `100*num > t*b` in place of `d > t`, so ties are exact. |
| `ReportAggregator` | The abstract aggregator of spec 4.4, parameterised by `Classify(metric, baseline, current, policy)`. Actions: `Aggregate` (one scenario), `Conclude` (overall status), `Fail` (a fatal error while no scenario passed over had a comparable pair, `NothingCompared`). |
| `PerformanceRegression` | `performance_regression.py`. Its inputs are six VARIABLES fixed in `Init`: the current results file, the baseline file, the `--thresholds` file and `--fail-on-regression`. `--format` and `--output` are two more inputs. Actions: `CurrentUnreadable` and `LoadInputs` (main), then `SkipScenario`, `CompareScenario` and `CompareRaises` (one iteration of `compare()` each), then `Finish` (status, exit code, and `Render`: which rendering the `--output` file holds and which are printed, by `ToFile`'s test `args.output and args.format == r`). The checks are the recursive `Climb` over the threshold "ladders" `RpsLadder` and `LatencyLadder`, in the code's `if/elif` order. A lookup of a missing key is a `KeyError`. |
| `MCPerformanceRegression` | The input sets for TLC. |
| `DetectPerformanceRegression` | `detect_performance_regression.py`. Its inputs are three VARIABLES fixed in `Init`: the baseline file (missing, empty, malformed or parsed), the results file (unsupported suffix, a parsed JSON/YAML mapping kept as a sequence because its insertion order decides the fuzzy lookup, or CSV rows that `Load` folds with `CsvRow`: rows without a `test_name` or with rps <= 0 are dropped, and a repeated name replaces its value where it first appeared) and `--fail-on-regression`. `Checks` is the table of the fourteen `_compare_metric` calls in the order `detect_regression` makes them. Actions: `BaselineUnparsable` (the constructor's `yaml.safe_load` raises), `ResultsUnsupported`, `Load`, `NoBaseline` (the early return on a falsy baseline), `CompareMetric` (one whole `_compare_metric` call, with `_find_current_value`), and `Finish` (report, then `exit_with_status` under the flag). |
| `MCDetectPerformanceRegression` | The input sets for TLC. |
| `DetectRegression` | `detect_regression.py`. `BASELINE` and `THRESHOLDS` are the source's tables. Values are in tenths, because wrk prints one decimal and exact ties such as 518 -> 621.6 then exist. Its one input is the results file. Actions: `LoadFails` (no argument, or an unreadable file), `Load`, `SkipScenario`, `CompareScenario` (the rps chain, then the latency_avg chain), `CompareRaises` (`KeyError` on a missing metric), and `Finish` (print, save, exit 1/2/0). The script computes the change as a float quotient. Away from a tie, the exact comparison is what Python computes. At an exact tie the quotient's side of the threshold is fixed per value pair by the constant `RoundsBeyond`: the pairs whose IEEE-754 quotient lies strictly beyond the threshold, which `MCDetectRegression` gives from Python's own results (621.6 and 466.2 against 518 cross; 569.8 against 518 and 16018.2 against 17798 do not). |
| `MCDetectRegression` | The input sets for TLC. |
| `BaselineUpdate` | `update_baseline.py`, run again and again on the same files. The state is the baseline file, its `.backup` and the history file; each is absent, `corrupt` (truncated by `open(path, 'w')` and not yet dumped) or valid. The run's `pc` walks the steps of `main`. Actions: `StartRun` (a CI job with some results and options), `LoadFails`, `Extract`, `CompareBaselines` and `CompareDivides` (`--compare` loads the old baseline and divides by its values, and an old 0 raises `ZeroDivisionError` before any write), `BackupOpen` and `BackupCopy` (`shutil.copy2` opens the destination, then copies whatever the baseline holds), `NoBackup`, `TruncateBaseline`, `DumpBaseline`, `TruncateHistory` (load with the bare `except`, insert, slice), `DumpHistory`, and `Crash`, which ends a run after any step and leaves the files as they are. `written` is a ghost variable: every baseline some run finished writing. `lastHistory` (the list the history file held when last dumped whole) and `historyCrash` (some run crashed with the history truncated) are ghosts too. |
| `MCBaselineUpdate` | The initial files (none, or a valid baseline with a one-entry history) and the `--max-history` values. |
| `Pipeline` | The CI path of a baseline. A baseline run is measured, and a producer turns it into a baseline file. The producer is either `update_baseline.py` (`extract_baseline_data`: the `baseline` key) or `parse_wrk_output.py` (`generate_performance_json`: the `scenarios` key, `int(rps)`, zero latencies, the first three runs named by position). Then the gate, `PerformanceRegression` composed by `INSTANCE` as `Gate`, runs on a PR run's results with `--fail-on-regression` and no `--thresholds`. Last, `notify_pr.compare_performance` runs on the same files. The file is a record whose fields are its top-level keys. `GateView` is what `PerformanceBaseline.get_scenario_baseline` finds in it. Actions: `UpdateBaseline`, `ParseWrk`, `ParseWrkFails` (fewer than three wrk runs), `GateStep` (`Gate!Next` with the pipeline's own variables unchanged), and `Notify`. |
| `MCPipeline` | Baseline and PR runs in tenths of rps. |
| `BenchmarkAnalyzer` | `benchmark/analyze_results.py`. Its inputs are how `main` finds the results directory and what the four files hold; a log is the fields its marker lines give. Actions: `NoResultsDir`, `LoadResults`, `Analyze` (the whole of `analyze()`: the four graders, the `float()` `ValueError`s, and `_assess_overall` reading `self.analysis` before the dict literal is assigned to it), and `GenerateReport`. |
| `MCBenchmarkAnalyzer` | CSVs and logs with values on each side of the targets, and missing or unparseable ones. |

Floating point: for integer values like those used here, Python's
`(c-b)/b < -0.1` agrees with the exact rational comparison. This was checked
for every baseline up to 400 with thresholds 0.05, 0.1, 0.15 and 0.2,
including `t*0.5`. So the integer model is faithful at the ties.

### Refinement

`PerformanceRegression` instantiates `ReportAggregator` with the script's own
classifier (`PRClassify`), under this refinement mapping:

* the input is the parsed current results;
* the baseline and the policy are what the script loads from its files;
* the partitions are the three report lists;
* `next` is the loop index;
* the verdict is the printed status, or `"error"` after a traceback or a
  load failure.

`DetectRegression` instantiates it as `Engine`, with the reference classifier
under the script's `THRESHOLDS`, so it checks the script's classification and
its aggregation in one refinement.

## Runs

| Run | Expect | Shows |
|---|---|---|
| `pr_classify` | pass | `NoMisclassification`: every reported result has the reference severity. `NoDegradationMissed`: every reference regression or warning among the scenarios compared so far is reported. `NoReportLost`: once the report is rendered, every rendering `--format` asks for is printed or is what the `--output` file holds; with `both` and `--output` both are printed and the file is not written, and a routing that wrote both to the file would keep only the json. `ImplementsAggregator`: the script refines the abstract aggregator with its own classifier (input order, skips, precedence, errors only before comparing); the policy that lacks every key a ladder starts with raises `KeyError` at the first comparison, which refines `Fail`. Also `TypeOK`. |
| `pr_absent_metric` | violation | `ImplementsAggregator` fails. A `low_concurrent` scenario without an rps value, against a baseline of 20, is read as rps 0 (`.get('value', 0)`) and reported as a -100% regression. Spec 2 and 7 skip a metric absent from the current results. |
| `dpr_classify` | pass | `NoMisclassification`: every entry is in the list the reference classifier picks under the half-threshold policy `[warning: t/2, failure: t, min_improvement: t/2]`, with each metric's own direction. `EveryComparisonReported`: each of the fourteen checks appears once if it is not neutral, and never otherwise. `ExitCodeFollowsStatus`: the exit code follows the printed status (1 and 2 only under the flag, 1 after a crash). `TypeOK` also says that no entry has a zero baseline. |
| `dpr_fuzzy_lookup` | violation | `ComparesOwnScenario` fails: with a CSV whose only row is `high_concurrent` rps 44, the `low_concurrent` rps check compares baseline 20 with 44 and reports an improvement. |
| `dpr_zero_rps` | violation | `ZeroRpsReported` fails. A CSV whose only row is `low_concurrent` at rps 0 loads as no results, so nothing is compared and the status is `pass`. Spec 4.3 makes 20 -> 0 a regression. |
| `dr_classify` | pass | `ImplementsSpec`: away from ties, the script refines `ReportAggregator` with the reference classifier under its own `THRESHOLDS` (improvement at the warning threshold). It checks the classification, input order, the skip of unknown scenarios, exit-code precedence, and that a `KeyError` in the first scenario is an error before any comparison. |
| `dr_float_ties` | violation | `NoMisclassification` fails at an exact tie: 518 -> 466.2 (-10%) is an improvement, because Python computes `-0.10000000000000002`. |
| `ub_update` | pass | `RecoverableAfterOneCrash`: between runs, after at most one crash since the last complete run, the baseline or its `.backup` is valid. `HistoryBounded`: a valid history never holds more entries than the largest `--max-history`. `HistoryFollowsBaseline`: every entry of a valid history was once written whole to the baseline file, so no crash leaves the history ahead of the baseline. `HistoryLostOnlyByCrash`: when a run is about to dump the history, the list it dumps is the history last written whole with the new entry inserted, unless some run crashed between `open(history, 'w')` and `json.dump`; only such a crash makes the bare `except` start from `[]`. |
| `ub_two_crashes` | violation | `BaselineRecoverable` fails. A crash inside the baseline write leaves a truncated baseline. The next run's `copy2` truncates the good `.backup`, and a crash inside that copy leaves no valid copy at all. |
| `pipeline_gate` | pass | `NoFalseAlarm`: with either producer, neither the gate nor the PR comment flags a PR unless its rps really fell more than 10% below the baseline run's. `int()` truncation only lowers a wrk baseline, so it never produces a false alarm. |
| `pipeline_shapes` | violation | `NoRegressionMissed` fails. Against a baseline written by `update_baseline.py`, low_concurrent 100.0 -> 88.0 rps (-12%) passes the gate with exit 0. The PR comment has no comparison either: the gate reads `scenarios`, and notify_pr reads `baseline.rps`. |
| `analyzer_report` | violation | `ReportGenerated` fails. With a results directory and parseable logs, `analyze()` raises `AttributeError` and `analysis_report.md` is never written. |

Bounds, from `MCPerformanceRegression`:

* Threshold files: none, unreadable, an empty object, a complete custom
  policy with a real RPS warning band, and `{min_improvement: 5}`, which lacks
  the first key of both ladders. `pr_absent_metric` takes results whose
  `low_concurrent` scenario has no rps.
* Baselines are 20, 0 or absent for each metric of `low_concurrent`.
  `high_concurrent` has no baseline, so it exercises the skip.
* Current rps is one of {17, 18, 21, 22}: -15%, a tie at -10%, a tie at +5%,
  and +10%.
* Current latency is one of {15, 22, 24, 25}: -25%, a tie at +10%, a tie at
  +20%, and +25%.
* The current results hold 0, 1 or 2 scenarios. The second one is drawn from
  three representatives: a scenario without a baseline, a repeated
  `low_concurrent` regression, and a repeated improvement.
* The threshold files are: none, unreadable, an empty object, a complete
  custom policy whose RPS warning band is non-empty (warning 5, failure 10),
  and a partial file.
* Both values of `--fail-on-regression` are included.

For `dpr_*`, from `MCDetectPerformanceRegression`:

* `low_concurrent` has baseline 20 for every metric. `high_concurrent` has 40
  or none. medium and extreme have none, so their six checks take the
  zero-baseline return. The cpu baseline is 20 or none. The memory baseline
  is none.
* The thresholds are the defaults (rps 10%, latency and resources 20%) or a
  custom set (rps 20%, latency 10%, resources 10%). All of them are even, so
  the half threshold is a whole percent.
* The results hold none, one or both levels, in either order. The low entry
  takes rps {17, 18, 19, 22}, latency_avg {17, 22, 24, 25}, latency_p99 absent
  or 18, and cpu absent or 23. Under the defaults these values are a
  regression, a tie at the failure threshold, a tie at the half threshold,
  and an improvement. The high entry takes rps {36, 44} and latency_avg absent
  or 50.
* The results file can also have an unsupported suffix. The baseline can also
  be missing, empty or malformed.
* A CSV holds up to three rows from `low_concurrent` at rps 0, 17 or 22,
  `high_concurrent` at 44, and a row without a `test_name`. So a name can
  repeat with another row between, and a level can be at 0 alone or after a
  positive row.
* Results keys are level names only, the shape the benchmarks write, so no
  latency check ever matches its name directly.

For `dr_*`, from `MCDetectRegression`: `low_concurrent` and `high_concurrent`
take values on both sides of each threshold, at least 0.01% away from a tie.
`extreme_concurrent` is not in `BASELINE`, so it is skipped. There are up to
two scenarios. The tie set holds the exact ties 16018.2, 621.6, 569.8 and
466.2. For every one of these values the float quotient was evaluated in
Python: `MCRoundsBeyond` lists the two that cross their threshold, and away
from ties the quotient agrees with the exact comparison.

For `ub_*`, from `MCBaselineUpdate`: three runs and at most two crashes
since the last complete run. A crash can fall after every step, and two
crashes are the fewest that defeat the backup. `--max-history` takes -1, 1
and 2: a negative slice, the bound the one-entry initial history already
meets, and a bound a third entry exceeds. Results are unreadable, without
scenarios, good, or with a measured 0. `--compare` takes both values. `--no-history` takes both values. `--no-backup` is always
false: with it, one crash is enough to lose the baseline, which is what the
flag asks for.

For `pipeline_*`, from `MCPipeline`:

* The baseline run measures low_concurrent at 100.0 or 100.6 rps, and medium
  and high at 200.0 and 300.0. A run of only two wrk results makes
  `parse_wrk_output` fail.
* The PR run has low_concurrent at 88.0, 90.2, 90.6 or 100.0. It comes alone,
  or after high_concurrent at 260.0 or 300.0.
* 90.2 is a regression against 100.6 that `int()` hides. 90.6 is not a
  regression against 100.6, but it would be one against a rounded 101.

For `analyzer_report`, from `MCBenchmarkAnalyzer`:

* The rps CSV is absent, empty, has matching rows, has a row no target names,
  or repeats a row.
* Each log is absent, or has values on each side of its target, a missing
  line, or a value `float()` rejects.

These bounds put every tie on both sides of every threshold, reach each
branch of both ladders, and reach every error path. A second scenario is
enough for ordering, repeated names and precedence across scenarios.

Fairness: `WF_vars(Next)` on the single process of each detector. The
script runs to completion once started, with no waits. No run states
termination on its own: each script is a finite loop or straight-line
code, so it would hold by the shape of the code. The fairness is there
because the abstract aggregator's `Spec` is fair, so the refinement
properties `ImplementsAggregator` and `ImplementsSpec` include the promise
that a report or an error is eventually reached. `CHECK_DEADLOCK FALSE`
is set because the terminal state (`pc = "done"`) is the exit of the process.
`Pipeline` and `BenchmarkAnalyzer` are sequential runs like the detectors,
with the same weak fairness. `BaselineUpdate` has no fairness: CI decides whether another run ever
happens, and a crash is never forced. Its behaviours stop after `MaxRuns`
runs, so deadlock is not checked there either.

## Not modelled (yet) and why

* Paths that are modelled but that no run states a property about:
  * the `KeyError` of a `--thresholds` file lacking only later keys, which
    comes after results were appended (PR `CompareRaises`; `pr_classify`
    checks the file whose `KeyError` comes at the first comparison);
  * the undecodable baseline loaded as empty (PR `LoadedBaseline`);
  * the latency improvement `_check_latency` never reports;
  * the DR `KeyError` after a compared scenario;
  * `performance_regression.py` never exits 2 on a warning (spec 6);
  * notify_pr's truthiness test and first-scenario rule, which no checked
    behaviour reaches because no producer writes the key it compares with.

  Each is a disagreement with spec 4.1, 4.3 or 7 that the model reaches. The
  project keeps its runs for the properties above and the hazards in
  `PROJECT.json` say so.
* The dead `Failed to extract baseline data` check of `update_baseline.py`:
  results without scenarios replace a good baseline with an empty one.
  `BaselineUpdate` reaches this (`Extract` of `noscenarios` results). Its
  run gave way to `dpr_zero_rps` within the budget of twelve runs.
* After a run that measured a 0, every `update_baseline.py --compare` run
  with scenarios dies in `CompareDivides` before it writes, so the flag
  keeps the zero baseline forever. The model reaches it; stating that an
  update eventually succeeds would need a run of its own.

* Markdown and JSON rendering, and the console printing, are text. The
  model names a rendering by its format and keeps only where it goes.
* Log and CSV parsing is text processing: the regex of `parse_wrk_output` and
  the line splitting of the `analyze_results` loaders. The models start from
  the values those steps yield.
* A wrk baseline gates on rps alone: its `latency_p99` is 0, so
  `_check_latency` skips it. `Pipeline` reaches this, but no run states it.
* The analyzer's grading cannot be checked as it behaves: the code never gets
  past `_assess_overall`. The graders are in the model, but no run observes
  them.
* The trend chart, the XML docs converter and the sidebar. Spec 1 places
  them outside the system as presentation adapters. They are single passes
  over their inputs with no state that outlives a run, except the docs output
  directory, which `convert_xml_to_markdown.py` never clears. A page of a
  struct removed since an earlier conversion stays there, and
  `update_api_sidebar.py` globs it into the sidebar. Likewise,
  `generate_trend_chart.py` raises from `plot` when one data file lacks a
  scenario the others have. Both are hazards a model would state as
  violations. The budget of twelve runs goes to the engine's findings.

## Plan

In order of importance:

1. **Done:** `MetricComparator`, `ReportAggregator`, `PerformanceRegression`
   with its refinements. This is the detector whose CLI the spec describes.
2. **Done:** `DetectPerformanceRegression`, with its CSV loader. There is no
   refinement of `ReportAggregator`. The script makes a fixed list of
   per-metric calls, with no loop over the scenarios of the input, so spec
   4.4's input-order contract has nothing to map to. Its classifier is checked
   directly against `MetricComparator` instead.
3. **Done:** `DetectRegression`. A composed `DetectorsAgree` was considered
   and dropped. The three detectors read different metrics (rps with
   latency_p99, latency_avg, or all five) from differently shaped files. Each
   one is instead checked against the same reference engine.
4. **Done:** `BaselineUpdate`. Whether the history starts with the current
   baseline is not stated: a crash between the two writes breaks it, and
   neither the code nor the spec promises it. The converse is stated:
   `HistoryFollowsBaseline`.
5. **Done:** `Pipeline`, with `parse_wrk_output.py` as a second producer.
6. **Done:** `BenchmarkAnalyzer`.
7. **Done:** the DPR CSV loader (`dpr_zero_rps`).
8. **Done:** `--compare` of `update_baseline.py`; the absent-metric finding
   (`pr_absent_metric`), with the aggregator refinement moved into
   `pr_classify`.
9. **Done:** the `--format`/`--output` routing of `performance_regression.py`
   as part of `Finish` (`NoReportLost`), and `HistoryLostOnlyByCrash` for the
   truncate-then-dump of the history file.
