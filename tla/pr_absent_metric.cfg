CONSTANTS
    NA = NA
    Names <- MCNames
    CurrentFiles <- MCCurrentFilesAbsent
    BaselineFiles <- MCBaselineFiles
    ThresholdFiles <- MCThresholdFiles
SPECIFICATION Spec
PROPERTY ImplementsAggregator
CHECK_DEADLOCK FALSE
