CONSTANTS
    MaxRuns = 3
    MaxCrashes = 2
    ResultKinds = {"unreadable", "noscenarios", "ok", "zero"}
    CompareValues = {FALSE, TRUE}
    NoBackupValues = {FALSE}
    NoHistoryValues = {FALSE, TRUE}
    MaxHistoryValues <- MCMaxHistoryValues
    InitialFiles <- MCInitialFiles
SPECIFICATION Spec
INVARIANT RecoverableAfterOneCrash
INVARIANT HistoryBounded
INVARIANT HistoryFollowsBaseline
INVARIANT HistoryLostOnlyByCrash
CHECK_DEADLOCK FALSE
