CONSTANTS
    FwdReqs <- MCWrite
    GradReqs <- MCDataModes
    NDim <- MCNDim
    Axes <- MCLastAxis
    Widths <- MCWidths
    NonContigs <- MCNone
SPECIFICATION Spec
INVARIANT RequestsHonoured
