CONSTANTS
    NA = NA
    Bad = Bad
    Dirs = {"given", "latest", "none"}
    Inputs <- MCInputs
SPECIFICATION Spec
INVARIANT ReportGenerated
CHECK_DEADLOCK FALSE
