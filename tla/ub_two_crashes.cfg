CONSTANTS
    MaxRuns = 3
    MaxCrashes = 2
    ResultKinds = {"unreadable", "noscenarios", "ok"}
    CompareValues = {FALSE}
    NoBackupValues = {FALSE}
    NoHistoryValues = {FALSE, TRUE}
    MaxHistoryValues <- MCMaxHistoryValues
    InitialFiles <- MCInitialFiles
SPECIFICATION Spec
INVARIANT BaselineRecoverable
CHECK_DEADLOCK FALSE
