------------------------------ MODULE BenchmarkAnalyzer ------------------------------
(***************************************************************************)
(* src/benchmark/analyze_results.py: main() picks a results directory,    *)
(* BenchmarkAnalyzer.load_results() reads four files into self.data,      *)
(* analyze() builds self.analysis (one graded category each for rps,      *)
(* latency, memory and connections, then the overall assessment) and     *)
(* generate_report() writes analysis_report.md.                          *)
(*                                                                         *)
(* A file is NA when it is absent or lacks the marker its loader looks   *)
(* for; otherwise it is the fields its lines give.  A field is NA (no     *)
(* such line), a number, or Bad (a value float() rejects).  Rps are       *)
(* whole requests per second, latencies tenths of a millisecond, the      *)
(* success rate tenths of a percent.                                      *)
(***************************************************************************)
EXTENDS Integers, Sequences

CONSTANTS
    NA,
    Bad,     \* a value float() rejects
    Dirs,    \* "given" (argv[1]), "latest" (the newest results/run_*), "none"
    Inputs   \* [rps: NA or Seq of [test_name, rps], latency, memory, connection]

VARIABLES
    dir,       \* how main() found the results directory
    files,     \* what the four files hold
    pc,        \* "main", "analyze", "report", "done"
    data,      \* self.data
    analysis,  \* self.analysis, NA until assigned
    written,   \* analysis_report.md was written
    exitCode   \* NA while running

vars == <<dir, files, pc, data, analysis, written, exitCode>>

--------------------------------------------------------------------------------
(* load_results                                                            *)

\* _load_rps_results: csv.DictReader rows, a later row of the same test_name
\* replacing an earlier one; 'rps' exists only once a row was read.
LoadedRps(csv) ==
    IF csv = NA \/ csv = <<>> THEN NA
    ELSE [n \in {csv[i].test_name : i \in 1..Len(csv)} |->
            csv[CHOOSE i \in 1..Len(csv) :
                    /\ csv[i].test_name = n
                    /\ \A j \in (i + 1)..Len(csv) : csv[j].test_name # n].rps]

Loaded(f) ==
    [rps |-> LoadedRps(f.rps), latency |-> f.latency,
     memory |-> f.memory, connection |-> f.connection]

--------------------------------------------------------------------------------
(* The graders: each detail is "ok" (the check mark), "warn" or "fail".   *)

AtLeast(v, target, warn) ==
    IF v >= target THEN "ok" ELSE IF v >= warn THEN "warn" ELSE "fail"

Below(v, target, warn) ==
    IF v < target THEN "ok" ELSE IF v < warn THEN "warn" ELSE "fail"

\* The keys _analyze_rps looks for and their [target, warning] floors.
RpsTargets ==
    [benchmark_rps_2t_10c  |-> <<17000, 15000>>,
     benchmark_rps_4t_50c  |-> <<17000, 15000>>,
     benchmark_rps_8t_200c |-> <<16000, 14000>>]

\* `all('✅' in detail ...)`: true of no details at all.
Status(grades) == IF \A g \in grades : g = "ok" THEN "pass" ELSE "partial"

AnalyzeRps(d) ==
    IF d.rps = NA THEN "no_data"
    ELSE Status({AtLeast(d.rps[k], RpsTargets[k][1], RpsTargets[k][2]) :
                    k \in DOMAIN RpsTargets \cap DOMAIN d.rps})

\* avg < 15 ms and p99 < 50 ms, warnings below 30 and 100.
AnalyzeLatency(d) ==
    IF d.latency = NA THEN "no_data"
    ELSE Status({Below(v, 150, 300) : v \in {d.latency.avg} \ {NA}}
                \cup {Below(v, 500, 1000) : v \in {d.latency.p99} \ {NA}})

AnalyzeMemory(d) == IF d.memory = NA THEN "no_data" ELSE "pass"

\* success rate >= 99.9 %, warning from 99.0 %.
AnalyzeConnection(d) ==
    IF d.connection = NA THEN "no_data"
    ELSE Status({AtLeast(v, 999, 990) : v \in {d.connection.rate} \ {NA}})

\* float(value.split()[0]) or float(rate.replace('%', '')) of a bad value.
Raises(d) ==
    \/ d.latency # NA /\ Bad \in {d.latency.avg, d.latency.p99}
    \/ d.connection # NA /\ d.connection.rate = Bad

\* _assess_overall over the statuses self.analysis holds.
AssessOverall(a) ==
    LET s == {a.rps, a.latency, a.connection, a.memory}
    IN  IF s = {"pass"} THEN "excellent"
        ELSE IF s \subseteq {"pass", "partial"} THEN "good"
        ELSE "needs_improvement"

--------------------------------------------------------------------------------

Init ==
    /\ dir \in Dirs
    /\ files \in Inputs
    /\ pc = "main"
    /\ data = NA
    /\ analysis = NA
    /\ written = FALSE
    /\ exitCode = NA

\* No argv[1] and no results/run_* directory: "没有找到测试结果目录", exit 1.
NoResultsDir ==
    /\ pc = "main" /\ dir = "none"
    /\ pc' = "done" /\ exitCode' = 1
    /\ UNCHANGED <<dir, files, data, analysis, written>>

LoadResults ==
    /\ pc = "main" /\ dir # "none"
    /\ data' = Loaded(files)
    /\ pc' = "analyze"
    /\ UNCHANGED <<dir, files, analysis, written, exitCode>>

\* analyze(): the dict literal evaluates the four graders in order, then
\* _assess_overall(), which reads self.analysis before the literal is
\* assigned to it (AttributeError when there is none yet).  A raise is a
\* traceback and exit status 1.
Analyze ==
    /\ pc = "analyze"
    /\ IF Raises(data) \/ analysis = NA
       THEN pc' = "done" /\ exitCode' = 1 /\ UNCHANGED analysis
       ELSE /\ analysis' = [rps |-> AnalyzeRps(data), latency |-> AnalyzeLatency(data),
                            memory |-> AnalyzeMemory(data),
                            connection |-> AnalyzeConnection(data),
                            overall |-> AssessOverall(analysis)]
            /\ pc' = "report"
            /\ UNCHANGED exitCode
    /\ UNCHANGED <<dir, files, data, written>>

\* generate_report() writes analysis_report.md; main() returns.
GenerateReport ==
    /\ pc = "report"
    /\ written' = TRUE
    /\ pc' = "done" /\ exitCode' = 0
    /\ UNCHANGED <<dir, files, data, analysis>>

Next == NoResultsDir \/ LoadResults \/ Analyze \/ GenerateReport

Spec == Init /\ [][Next]_vars /\ WF_vars(Next)
--------------------------------------------------------------------------------
(***************************************************************************)
(* Properties                                                              *)
(***************************************************************************)

\* Once main() has found a results directory whose logs parse, the script
\* "analyses the benchmark results and generates the performance report"
\* (its docstring): the run ends with analysis_report.md written.
ReportGenerated ==
    (pc = "done" /\ dir # "none" /\ ~Raises(Loaded(files))) => written
================================================================================
