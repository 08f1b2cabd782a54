CONSTANTS
    NA = NA
    BaselineFiles <- MCBaselineFiles
    ResultsFiles <- MCResultsFiles
SPECIFICATION Spec
INVARIANT ZeroRpsReported
CHECK_DEADLOCK FALSE
