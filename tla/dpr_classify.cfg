CONSTANTS
    NA = NA
    BaselineFiles <- MCBaselineFiles
    ResultsFiles <- MCResultsFiles
SPECIFICATION Spec
INVARIANT TypeOK
INVARIANT NoMisclassification
INVARIANT EveryComparisonReported
INVARIANT ExitCodeFollowsStatus
CHECK_DEADLOCK FALSE
