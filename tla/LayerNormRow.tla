---------------------------- MODULE LayerNormRow ----------------------------
(***************************************************************************)
(* What one block of the forward layer-norm kernel promises for its row,  *)
(* with no threads, shuffles or shared memory: out_data elements of the    *)
(* row are written, some at a time, each once and each from the statistics *)
(* of the whole row; mean_data/std_data of the row are written once, from  *)
(* the same statistics; nothing outside the row is touched.               *)
(*                                                                         *)
(* Statistics are represented, as in LayerNormForward, by the bag of row   *)
(* cells they summarise: the row's are the bag holding every cell of the   *)
(* row exactly once.                                                       *)
(***************************************************************************)
EXTENDS Naturals

CONSTANTS
    Widths,   \* the row widths
    Cells,    \* the input cells statistics may summarise
    Garbage   \* the contents of a buffer never written

VARIABLES nchannel, out, stat

rowVars == <<nchannel, out, stat>>

RowMaxWidth == CHOOSE w \in Widths : \A v \in Widths : v <= w
RowBag == [c \in Cells |-> IF c < nchannel THEN 1 ELSE 0]
Unwritten == [n |-> 0, mean |-> Garbage, var |-> Garbage]
Written == [n |-> 1, mean |-> RowBag, var |-> RowBag]

RowInit ==
    /\ nchannel \in Widths
    /\ out = [i \in 0 .. RowMaxWidth - 1 |-> Unwritten]
    /\ stat = [n |-> 0, mean |-> Garbage, std |-> Garbage]

(* One step writes any number of row elements not yet written, each from  *)
(* the row's statistics, and possibly the row's mean and std if they have *)
(* not been written yet.                                                   *)
RowWrite ==
    /\ nchannel' = nchannel
    /\ DOMAIN out' = DOMAIN out
    /\ \A i \in DOMAIN out :
          \/ out'[i] = out[i]
          \/ i < nchannel /\ out[i].n = 0 /\ out'[i] = Written
    /\ \/ stat' = stat
       \/ stat.n = 0 /\ stat' = [n |-> 1, mean |-> RowBag, std |-> RowBag]

RowSpec == RowInit /\ [][RowWrite]_rowVars

=============================================================================
