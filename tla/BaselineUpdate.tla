------------------------------ MODULE BaselineUpdate ------------------------------
(***************************************************************************)
(* src/scripts/update_baseline.py run again and again (one run per CI     *)
(* job) on the same three files: the baseline, its .backup and the        *)
(* history.  A run loads the results, extracts a new baseline, copies the *)
(* old baseline to .backup, rewrites the baseline, then inserts the new   *)
(* baseline at the head of the history and truncates it to --max-history. *)
(*                                                                         *)
(* Each write is open(path, 'w') -- which truncates the file -- followed  *)
(* by json.dump (shutil.copy2 likewise opens its destination first), so   *)
(* a file is "corrupt" between the two steps.  The process may die        *)
(* between any two steps (a killed job, a full disk); the files stay as   *)
(* they are and a later run starts from them.  A baseline file is        *)
(* [kind, run, data]: absent, corrupt, or valid with the run that         *)
(* extracted it and what its scenarios hold ("none": no scenarios, "ok":  *)
(* measured values, "zero": a measured rps or latency_avg of 0); the      *)
(* history file is [kind, list] with a list of valid baselines.           *)
(* With --compare, the old baseline is loaded and compared with the new   *)
(* one before any write.                                                   *)
(***************************************************************************)
EXTENDS Integers, Sequences

CONSTANTS
    MaxRuns,          \* runs of the script in a behaviour
    MaxCrashes,       \* crashes since the last completed run
    ResultKinds,      \* "unreadable", "noscenarios", "ok", "zero"
    CompareValues,    \* values of --compare
    NoBackupValues,   \* values of --no-backup
    NoHistoryValues,  \* values of --no-history
    MaxHistoryValues, \* values of --max-history
    InitialFiles      \* [baseline, history] found before the first run

Absent == [kind |-> "absent", run |-> 0, data |-> "none"]
Corrupt == [kind |-> "corrupt", run |-> 0, data |-> "none"]
Baseline(r, d) == [kind |-> "valid", run |-> r, data |-> d]
HistoryFile(k, l) == [kind |-> k, list |-> l]

VARIABLES
    baseline,  \* the baseline file
    backup,    \* <baseline>.backup
    history,   \* the history file: a list of baselines
    runs,      \* runs started so far
    pc,        \* "idle" between runs, else the next step of the current run
    args,      \* the current run's results kind and options
    new,       \* new_baseline of the current run
    pending,   \* the history list the current run is writing
    crashes,   \* runs that died since the last run that completed
    written,      \* every baseline some run finished writing
    lastHistory,  \* the list the history file held when last written whole
    historyCrash  \* some run died between opening the history and its dump

vars == <<baseline, backup, history, runs, pc, args, new, pending, crashes,
          written, lastHistory, historyCrash>>

IsValid(f) == f.kind = "valid"

\* load of the history: a missing or undecodable file is [] (bare except).
LoadedHistory(h) == IF IsValid(h) THEN h.list ELSE <<>>

\* Python's s[:k]: the first k elements, or all but the last -k when k < 0.
PyHead(s, k) ==
    LET n == IF k >= 0 THEN k ELSE Len(s) + k
    IN  SubSeq(s, 1, IF n < 0 THEN 0 ELSE IF n > Len(s) THEN Len(s) ELSE n)

\* Mutant: the history is never sliced.
HistoryAfterInsertUnsliced(h, b, max) == <<b>> \o h

\* history.insert(0, new_baseline); history = history[:max_entries]
HistoryAfterInsert(h, b, max) == PyHead(<<b>> \o h, max)

Init ==
    /\ \E f \in InitialFiles : baseline = f.baseline /\ history = f.history
    /\ backup = Absent
    /\ runs = 0
    /\ pc = "idle"
    /\ args = [results |-> "ok", noBackup |-> FALSE, noHistory |-> FALSE,
               maxHistory |-> 0, compare |-> FALSE]
    /\ new = Absent
    /\ pending = <<>>
    /\ crashes = 0
    /\ written = IF IsValid(baseline) THEN {baseline} ELSE {}
    /\ lastHistory = LoadedHistory(history)
    /\ historyCrash = FALSE

files == <<baseline, backup, history>>
ghosts == <<written, lastHistory, historyCrash>>

\* A CI job runs the script with some results file and options.
StartRun ==
    /\ pc = "idle"
    /\ runs < MaxRuns
    /\ \E k \in ResultKinds, nb \in NoBackupValues, nh \in NoHistoryValues,
          mh \in MaxHistoryValues, c \in CompareValues :
          args' = [results |-> k, noBackup |-> nb, noHistory |-> nh,
                   maxHistory |-> mh, compare |-> c]
    /\ runs' = runs + 1
    /\ pc' = "load"
    /\ UNCHANGED <<files, new, pending, crashes, ghosts>>

\* load_current_results returns None (or {}): "Failed to load results", exit 1.
LoadFails ==
    /\ pc = "load"
    /\ args.results = "unreadable"
    /\ pc' = "idle"
    /\ UNCHANGED <<files, runs, args, new, pending, crashes, ghosts>>

\* extract_baseline_data always returns a dict, so the "Failed to extract"
\* exit never happens; results without test_scenarios give an empty
\* 'baseline'.
Extract ==
    /\ pc = "load"
    /\ args.results # "unreadable"
    /\ new' = Baseline(runs, IF args.results = "noscenarios" THEN "none" ELSE args.results)
    /\ pc' = "compare"
    /\ UNCHANGED <<files, runs, args, pending, crashes, ghosts>>

\* load_baseline gives None for a missing or undecodable file.  Both
\* baselines' scenarios are the same level names, so compare_with_baseline
\* divides by an old value whenever both have scenarios; an old value of 0
\* raises ZeroDivisionError.
OldBaselineDivides ==
    /\ IsValid(baseline)
    /\ baseline.data = "zero"
    /\ new.data # "none"

\* `if args.compare and old_baseline`: the comparison only prints.
CompareBaselines ==
    /\ pc = "compare"
    /\ ~(args.compare /\ OldBaselineDivides)
    /\ pc' = "backup"
    /\ UNCHANGED <<files, runs, args, new, pending, crashes, ghosts>>

\* ZeroDivisionError: a traceback and exit status 1 before any write.
CompareDivides ==
    /\ pc = "compare"
    /\ args.compare /\ OldBaselineDivides
    /\ pc' = "idle"
    /\ UNCHANGED <<files, runs, args, new, pending, crashes, ghosts>>

\* `if backup and os.path.exists(baseline_file)`: copy2 opens the .backup.
BackupOpen ==
    /\ pc = "backup"
    /\ ~args.noBackup /\ baseline # Absent
    /\ backup' = Corrupt
    /\ pc' = "copy"
    /\ UNCHANGED <<baseline, history, runs, args, new, pending, crashes, ghosts>>

\* copy2 copies whatever the baseline file holds, a corrupt one included.
BackupCopy ==
    /\ pc = "copy"
    /\ backup' = baseline
    /\ pc' = "truncate"
    /\ UNCHANGED <<baseline, history, runs, args, new, pending, crashes, ghosts>>

\* Mutant: the exists test inverted, so an existing baseline is not backed up.
NoBackupWhenExists ==
    /\ pc = "backup"
    /\ args.noBackup \/ baseline # Absent
    /\ pc' = "truncate"
    /\ UNCHANGED <<files, runs, args, new, pending, crashes, ghosts>>

NoBackup ==
    /\ pc = "backup"
    /\ args.noBackup \/ baseline = Absent
    /\ pc' = "truncate"
    /\ UNCHANGED <<files, runs, args, new, pending, crashes, ghosts>>

\* open(baseline_file, 'w')
TruncateBaseline ==
    /\ pc = "truncate"
    /\ baseline' = Corrupt
    /\ pc' = "dump"
    /\ UNCHANGED <<backup, history, runs, args, new, pending, crashes, ghosts>>

\* json.dump(new_baseline, f); with --no-history the run is complete.
DumpBaseline ==
    /\ pc = "dump"
    /\ baseline' = new
    /\ written' = written \cup {new}
    /\ pc' = IF args.noHistory THEN "idle" ELSE "history"
    /\ crashes' = IF args.noHistory THEN 0 ELSE crashes
    /\ UNCHANGED <<backup, history, runs, args, new, pending, lastHistory, historyCrash>>

\* Mutant: main updates the history before it rewrites the baseline.
TruncateHistoryFirst ==
    /\ pc = "truncate"
    /\ pending' = HistoryAfterInsert(LoadedHistory(history), new, args.maxHistory)
    /\ history' = HistoryFile("corrupt", <<>>)
    /\ pc' = "histdump"
    /\ UNCHANGED <<baseline, backup, runs, args, new, crashes, ghosts>>

\* Mutant: open(history_file, 'w') before the existing history is loaded.
TruncateHistoryBeforeLoad ==
    /\ pc = "history"
    /\ pending' = HistoryAfterInsert(<<>>, new, args.maxHistory)
    /\ history' = HistoryFile("corrupt", <<>>)
    /\ pc' = "histdump"
    /\ UNCHANGED <<baseline, backup, runs, args, new, crashes, ghosts>>

\* update_history_file: load, insert, slice, then open(history_file, 'w').
TruncateHistory ==
    /\ pc = "history"
    /\ pending' = HistoryAfterInsert(LoadedHistory(history), new, args.maxHistory)
    /\ history' = HistoryFile("corrupt", <<>>)
    /\ pc' = "histdump"
    /\ UNCHANGED <<baseline, backup, runs, args, new, crashes, ghosts>>

\* json.dump(history, f): the run is complete.
DumpHistory ==
    /\ pc = "histdump"
    /\ history' = HistoryFile("valid", pending)
    /\ lastHistory' = pending
    /\ pc' = "idle"
    /\ crashes' = 0
    /\ UNCHANGED <<baseline, backup, runs, args, new, pending, written, historyCrash>>

\* The process dies after any step; the files keep what was written.
Crash ==
    /\ pc \notin {"idle"}
    /\ crashes < MaxCrashes
    /\ pc' = "idle"
    /\ crashes' = crashes + 1
    /\ historyCrash' = (historyCrash \/ pc = "histdump")
    /\ UNCHANGED <<files, runs, args, new, pending, written, lastHistory>>

Next ==
    \/ StartRun \/ LoadFails \/ Extract \/ CompareBaselines \/ CompareDivides
    \/ BackupOpen \/ BackupCopy \/ NoBackup
    \/ TruncateBaseline \/ DumpBaseline
    \/ TruncateHistory \/ DumpHistory
    \/ Crash

Spec == Init /\ [][Next]_vars
--------------------------------------------------------------------------------
(***************************************************************************)
(* Properties                                                              *)
(***************************************************************************)

\* The largest --max-history any run is given.
HistoryLimit == CHOOSE m \in MaxHistoryValues : \A x \in MaxHistoryValues : m >= x

\* Between runs, once some run wrote a baseline and at most one run has died
\* since the last complete one, the baseline or its .backup is valid: the
\* copy2 before open('w') covers one crash at any point of a run.
RecoverableAfterOneCrash ==
    (pc = "idle" /\ written # {} /\ crashes <= 1) =>
        IsValid(baseline) \/ IsValid(backup)

\* Between runs, once some run wrote a baseline, the baseline or its .backup
\* is valid, however many runs died.
BaselineRecoverable ==
    (pc = "idle" /\ written # {}) => IsValid(baseline) \/ IsValid(backup)

\* Every baseline the history lists was once written whole to the baseline
\* file: main calls update_history_file only after update_baseline_file has
\* finished json.dump, so no crash leaves the history ahead of the baseline.
HistoryFollowsBaseline ==
    IsValid(history) => \A i \in 1..Len(history.list) : history.list[i] \in written

\* Every history write starts from the list the last complete one left,
\* unless some run died between update_history_file's open(history, 'w')
\* and its json.dump: the load's bare except then reads the truncated
\* file as [] and the entries before the new one are lost.  Only that
\* crash, never a run that completes or dies elsewhere, loses history.
HistoryLostOnlyByCrash ==
    (pc = "histdump" /\ ~historyCrash) =>
        pending = HistoryAfterInsert(lastHistory, new, args.maxHistory)

\* The history file never holds more entries than --max-history allows.
HistoryBounded ==
    IsValid(history) => Len(history.list) <= HistoryLimit
================================================================================
