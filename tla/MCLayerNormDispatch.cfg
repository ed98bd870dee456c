CONSTANTS
    FwdReqs <- MCFwdReqs
    GradReqs <- MCGradReqs
    NDim <- MCNDim
    Axes <- MCAxes
    Widths <- MCWidths
    NonContigs <- MCNonContigs
SPECIFICATION Spec
INVARIANT TypeOK
INVARIANT SupportedRequestsHonoured
INVARIANT StatsBeforeBackward
INVARIANT FailBeforeLaunch
