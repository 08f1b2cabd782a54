------------------------------- MODULE MCPipeline -------------------------------
(***************************************************************************)
(* Inputs for the pipeline, rps in tenths.  The baseline run measures     *)
(* low_concurrent at 100.0 or 100.6 rps (a whole value, and one that      *)
(* int() truncates), medium and high at 200.0 and 300.0, in the order the *)
(* wrk runs are made; a run with only two wrk results makes              *)
(* parse_wrk_output fail.  The PR run measures low_concurrent at 88.0     *)
(* (a regression), 90.2 (a regression against 100.6 only, within the     *)
(* truncation), 90.6 (no regression against 100.6 either) or 100.0, alone *)
(* or after high_concurrent at 260.0 (a regression) or 300.0.             *)
(***************************************************************************)
EXTENDS Pipeline

MCNames == {"low_concurrent", "medium_concurrent", "high_concurrent"}

Measurement(n, r) == [name |-> n, rps |-> r, latency |-> 50]

MCBaseRuns ==
    {<<Measurement("low_concurrent", l), Measurement("medium_concurrent", 2000),
       Measurement("high_concurrent", 3000)>> : l \in {1000, 1006}}
    \cup {<<Measurement("low_concurrent", 1000), Measurement("medium_concurrent", 2000)>>}

PRScenario(n, r) == [name |-> n, results |-> [rps |-> r, latency_p99 |-> 500]]

Lows == {PRScenario("low_concurrent", c) : c \in {880, 902, 906, 1000}}
Highs == {PRScenario("high_concurrent", c) : c \in {2600, 3000}}

MCPRFiles ==
    {[kind |-> "ok", scenarios |-> <<l>>] : l \in Lows}
    \cup {[kind |-> "ok", scenarios |-> <<h, l>>] : h \in Highs, l \in Lows}
================================================================================
