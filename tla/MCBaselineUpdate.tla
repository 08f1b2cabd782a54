-------------------------- MODULE MCBaselineUpdate --------------------------
(***************************************************************************)
(* Three runs, up to two crashes between completed runs, every kind of    *)
(* results file, and --max-history of -1, 1 or 2.  Before the first run   *)
(* there is either nothing or a valid baseline that the history lists.    *)
(***************************************************************************)
EXTENDS BaselineUpdate

\* A negative --max-history is accepted by argparse.
MCMaxHistoryValues == {-1, 1, 2}

MCInitialFiles ==
    {[baseline |-> Absent, history |-> HistoryFile("absent", <<>>)],
     [baseline |-> Baseline(0, "ok"),
      history |-> HistoryFile("valid", <<Baseline(0, "ok")>>)]}
================================================================================
