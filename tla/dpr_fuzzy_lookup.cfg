CONSTANTS
    NA = NA
    BaselineFiles <- MCBaselineFiles
    ResultsFiles <- MCResultsFiles
SPECIFICATION Spec
INVARIANT ComparesOwnScenario
CHECK_DEADLOCK FALSE
