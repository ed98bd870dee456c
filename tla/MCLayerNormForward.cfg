CONSTANTS
    WarpSize = 4
    ShflRounds = 2
    Widths <- MCWidths
    Garbage = Garbage
SPECIFICATION FairSpec
INVARIANT TypeOK
INVARIANT NoSharedRace
INVARIANT BroadcastStats
INVARIANT OutputComplete
PROPERTY Termination
