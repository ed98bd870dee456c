------------------------ MODULE MCLayerNormForward -------------------------
(* LayerNormForward on 4-lane warps (2 shuffle rounds): rows of width 1..38 *)
(* cover one and two warps, whole and partial 4-wide chunks, lanes with no  *)
(* cells, a second whole chunk for a lane (38 = 32 + 4 + 2) and a second    *)
(* grid-stride pass.                                                        *)
EXTENDS LayerNormForward

MCWidths == {1, 3, 4, 5, 7, 12, 35, 38}
=============================================================================
