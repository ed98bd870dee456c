------------------- MODULE MCLayerNormBackwardGammaBeta -------------------
(* LayerNormBackwardGammaBeta for TLC: a block of 2 warps of 2 lanes with  *)
(* 2-wide loads (4 threads, chunk stride 8), rows with no tail, a short    *)
(* tail, a second chunk iteration, and batches narrower and wider than the *)
(* row.                                                                    *)
EXTENDS LayerNormBackwardGammaBeta

MCWidths == {1, 2, 5, 11}
MCBatches == {1, 3}
MCAllReqs == {"null", "write", "addto"} \X {"null", "write", "addto"} \ {<<"null", "null">>}
MCAddToReqs == {<<"addto", "addto">>, <<"addto", "null">>}
MCWriteReqs == {<<"write", "write">>}
=============================================================================
