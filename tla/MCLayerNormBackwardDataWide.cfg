CONSTANTS
    WarpSize = 4
    ShflRounds = 2
    LoadUnroll = 4
    Widths <- MCWideWidths
    Garbage = Garbage
SPECIFICATION Spec
INVARIANT DataGradComplete
