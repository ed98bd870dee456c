CONSTANTS
    WarpSize = 4
    ShflRounds = 2
    LoadUnroll = 4
    Widths <- MCWidths
    Garbage = Garbage
SPECIFICATION FairSpec
INVARIANT TypeOK
INVARIANT NoSharedRace
INVARIANT ReducedSums
INVARIANT NarrowDataGradComplete
PROPERTY Termination
