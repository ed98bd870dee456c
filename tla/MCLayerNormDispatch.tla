------------------------ MODULE MCLayerNormDispatch ------------------------
(* LayerNormDispatch for TLC: the requests and non-contiguous buffers of   *)
(* each run.  MCFwdReqs and MCGradReqs are the calls the code accepts or   *)
(* rejects as it should; the others each isolate one disagreement on the  *)
(* fused path.                                                             *)
EXTENDS LayerNormDispatch

MCFwdReqs == {"write", "addto"}
MCGradReqs == ({"write"} \X {"null"} \X {"null", "write", "addto"})
              \cup {<<"null", "null", "null">>, <<"write", "inplace", "null">>,
                    <<"write", "null", "inplace">>}
MCNonContigs == {"none", "in_data", "out_grad", "beta_grad"}
\* A two-dimensional input: the last axis as -1, another axis (the
\* fallback) and an axis out of range.
MCNDim == 2
MCAxes == {-1, 0, 2}
MCLastAxis == {1}
\* Row widths: a tail shorter than LOAD_UNROLL and no whole chunk (3), whole
\* chunks and no tail (8), and two warps for the Data kernel with both
\* (42).
MCWidths == {3, 8, 42}

MCWrite == {"write"}
MCNull == {"null"}
MCNone == {"none"}
MCBetaOnly == {<<"null", "null", "write">>}
MCDataAddTo == {<<"addto", "null", "null">>}
MCDataModes == MCBetaOnly \cup MCDataAddTo
MCGammaWrite == {<<"write", "write", "null">>}
MCDataWrite == {<<"write", "null", "null">>}
MCDataAndBeta == {<<"write", "null", "write">>}
MCDataGradNonContig == {"data_grad"}
=============================================================================
