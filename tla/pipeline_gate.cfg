CONSTANTS
    NA = NA
    Names <- MCNames
    BaseRuns <- MCBaseRuns
    PRFiles <- MCPRFiles
SPECIFICATION Spec
INVARIANT NoFalseAlarm
CHECK_DEADLOCK FALSE
