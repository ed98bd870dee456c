CONSTANTS
    WarpSize = 2
    NWarps = 2
    LoadUnroll = 2
    Widths <- MCWidths
    Batches <- MCBatches
    Reqs <- MCWriteReqs
    Garbage = Garbage
SPECIFICATION Spec
INVARIANT GradWrittenAsRequested
