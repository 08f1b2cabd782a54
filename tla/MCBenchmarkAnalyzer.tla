--------------------------- MODULE MCBenchmarkAnalyzer ---------------------------
(***************************************************************************)
(* Result directories for analyze_results.py: the rps CSV absent, empty,  *)
(* or with rows for the low and high targets and a key no target names    *)
(* (a repeated row last); latency, memory and connection logs absent or   *)
(* with values on each side of their targets, missing or unparseable.    *)
(***************************************************************************)
EXTENDS BenchmarkAnalyzer

Row(n, v) == [test_name |-> n, rps |-> v]

MCRpsCsvs ==
    {NA, <<>>,
     <<Row("benchmark_rps_2t_10c", 17500), Row("benchmark_rps_8t_200c", 14500)>>,
     <<Row("benchmark_rps_other", 9000)>>,
     <<Row("benchmark_rps_2t_10c", 12000), Row("benchmark_rps_2t_10c", 17000)>>}

MCInputs ==
    [rps : MCRpsCsvs,
     latency : {NA} \cup [avg : {120, 310, Bad}, p99 : {NA, 600}],
     memory : {NA, [peak |-> "64MB"]},
     connection : {NA} \cup [rate : {NA, 999, 985, Bad}]]
================================================================================
