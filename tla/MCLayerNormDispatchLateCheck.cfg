CONSTANTS
    FwdReqs <- MCWrite
    GradReqs <- MCDataAndBeta
    NDim <- MCNDim
    Axes <- MCLastAxis
    Widths <- MCWidths
    NonContigs <- MCDataGradNonContig
SPECIFICATION Spec
INVARIANT FailBeforeLaunch
