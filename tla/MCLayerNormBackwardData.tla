---------------------- MODULE MCLayerNormBackwardData ----------------------
(* LayerNormBackwardData for TLC: 4-lane warps (so a row wider than one    *)
(* warp gets two warps, as "nchannel <= 32 ? 1 : 2" does for 32 lanes) and *)
(* 4-wide loads.  The widths cover an empty tail, a tail shorter than one  *)
(* load, rows wider than the first chunk of every thread, and rows that    *)
(* need a second chunk of the grid-stride loop.                            *)
EXTENDS LayerNormBackwardData

MCWidths == {1, 3, 4, 5, 11, 17, 37}
MCWideWidths == {11, 17}
=============================================================================
