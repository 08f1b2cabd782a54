CONSTANTS
    NA = NA
    Names <- MCNames
    BaseRuns <- MCBaseRuns
    PRFiles <- MCPRFiles
SPECIFICATION Spec
INVARIANT NoRegressionMissed
CHECK_DEADLOCK FALSE
