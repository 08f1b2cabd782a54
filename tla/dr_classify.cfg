CONSTANTS
    NA = NA
    CurrentFiles <- MCCurrentFiles
    RoundsBeyond <- MCRoundsBeyond
SPECIFICATION Spec
PROPERTY ImplementsSpec
CHECK_DEADLOCK FALSE
