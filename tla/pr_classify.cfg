CONSTANTS
    NA = NA
    Names <- MCNames
    CurrentFiles <- MCCurrentFiles
    BaselineFiles <- MCBaselineFiles
    ThresholdFiles <- MCThresholdFiles
SPECIFICATION Spec
INVARIANT TypeOK
INVARIANT NoMisclassification
INVARIANT NoDegradationMissed
INVARIANT NoReportLost
PROPERTY ImplementsAggregator
CHECK_DEADLOCK FALSE
