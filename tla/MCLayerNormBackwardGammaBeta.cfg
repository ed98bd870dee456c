CONSTANTS
    WarpSize = 2
    NWarps = 2
    LoadUnroll = 2
    Widths <- MCWidths
    Batches <- MCBatches
    Reqs <- MCAllReqs
    Garbage = Garbage
SPECIFICATION Spec
INVARIANT TypeOK
INVARIANT ChannelPartition
INVARIANT AddToGradComplete
