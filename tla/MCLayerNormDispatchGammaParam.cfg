CONSTANTS
    FwdReqs <- MCWrite
    GradReqs <- MCGammaWrite
    NDim <- MCNDim
    Axes <- MCLastAxis
    Widths <- MCWidths
    NonContigs <- MCNone
SPECIFICATION Spec
INVARIANT ParamsReadOnly
