CONSTANTS
    FwdReqs <- MCNull
    GradReqs <- MCDataWrite
    NDim <- MCNDim
    Axes <- MCLastAxis
    Widths <- MCWidths
    NonContigs <- MCNone
SPECIFICATION Spec
INVARIANT StatsBeforeBackward
