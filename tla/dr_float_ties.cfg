CONSTANTS
    NA = NA
    CurrentFiles <- MCCurrentFilesTies
    RoundsBeyond <- MCRoundsBeyond
SPECIFICATION Spec
INVARIANT NoMisclassification
CHECK_DEADLOCK FALSE
