-------------------- MODULE LayerNormBackwardGammaBeta --------------------
(***************************************************************************)
(* LayerNormFusedBackwardKernel_GammaBeta (src/src/operator/nn/            *)
(* layer_norm.cu), launched by LayerNormGradGPUContig as one block of      *)
(* dimBlock(32, 4) threads.  Thread tid owns the channels of its           *)
(* LOAD_UNROLL-wide chunks l = 4 * tid + 4 * nthread * k, then the tail    *)
(* channels after its last whole chunk; for each it sums over the batch    *)
(* and writes gamma_grad and beta_grad.  Threads share nothing, so one     *)
(* action is one loop iteration of all lanes of a warp, warps interleave.  *)
(*                                                                         *)
(* Data abstraction.  A gradient element is a record: how many copies of   *)
(* the value the buffer held before the call it includes (old), and, for   *)
(* each batch row b of the sum, the row whose mean_data/std_data entry the *)
(* term of b was computed with (stat; Garbage when read out of bounds).    *)
(* beta_grad does not read the statistics; its stat is the identity.       *)
(***************************************************************************)
EXTENDS Naturals, FiniteSets

CONSTANTS
    WarpSize,    \* blockDim.x = 32
    NWarps,      \* blockDim.y = 4
    LoadUnroll,  \* LOAD_UNROLL = 4
    Widths,      \* the row widths (nchannel) to consider
    Batches,     \* the batch sizes (nbatch) to consider
    Reqs,        \* the (gamma_req, beta_req) pairs to consider
    Garbage      \* an undefined value

ASSUME GammaBetaConstAssumption ==
    /\ WarpSize \in Nat \ {0} /\ NWarps \in Nat \ {0} /\ LoadUnroll \in Nat \ {0}
    /\ Widths \subseteq Nat \ {0} /\ Widths # {} /\ IsFiniteSet(Widths)
    /\ Batches \subseteq Nat \ {0} /\ Batches # {}
    /\ Reqs \subseteq {"null", "write", "addto"} \X {"null", "write", "addto"}

\* A finite set of widths has a widest one, the width MaxWidth sizes the
\* buffers for.
ASSUME WidestWidthAssumption == \E w \in Widths : \A v \in Widths : v <= w

MaxWidth == CHOOSE w \in Widths : \A v \in Widths : v <= w
Warps == 0 .. NWarps - 1
Lanes == 0 .. WarpSize - 1
NThread == WarpSize * NWarps
\* "tid = threadIdx.x + threadIdx.y * blockDim.x"
Tid(x, y) == x + y * WarpSize

VARIABLES
    nchannel, nbatch,  \* the shape of the call
    greq, breq,        \* gamma_req and beta_req
    pc,                \* pc[y]: "chunk", "tail" or "done"
    k,                 \* k[y]: iterations of the chunk loop done by warp y
    gg, bg,            \* the elements gamma_grad_ptr and beta_grad_ptr point at
    visits             \* visits[c]: threads that have summed channel c

vars == <<nchannel, nbatch, greq, breq, pc, k, gg, bg, visits>>

Old == [old |-> 1, n |-> 0, stat |-> Garbage]

\* The chunk start of lane tid in iteration j, and whether it is whole.
ChunkStart(tid, j) == LoadUnroll * tid + LoadUnroll * NThread * j
\* Mutation: the chunk loop test "l + LOAD_UNROLL - 1 <= nchannel".
WholeOverrun(l) == l + LoadUnroll - 1 <= nchannel
Whole(l) == l + LoadUnroll - 1 < nchannel
InChunkLoop(y, x) == Whole(ChunkStart(Tid(x, y), k[y]))

\* The row whose statistics the kernel uses for the term of row b at
\* channel l: "local_mean[i] = mean_data[l + i]", out of bounds past nbatch.
StatRow(b, l) == IF l < nbatch THEN l ELSE Garbage
GammaSum(l) == [b \in 0 .. nbatch - 1 |-> StatRow(b, l)]
BetaSum == [b \in 0 .. nbatch - 1 |-> b]

\* Writing sum s into element e: "=" or "+=".
Assign(e, s) == [old |-> 0, n |-> e.n + 1, stat |-> s]
AddTo(e, s) == [old |-> e.old, n |-> e.n + 1, stat |-> s]

\* One element of the chunk loop's "Write to destination": only under
\* gamma_addto / beta_addto, with no write at all otherwise.
ChunkWrite(e, req, s) == IF req = "addto" THEN AddTo(e, s) ELSE e
\* Mutation: the tail loop always assigning.
TailWriteAssign(e, req, s) == IF req = "null" THEN e ELSE Assign(e, s)
\* The tail loop's write: "+=" under addto, "=" otherwise.
TailWrite(e, req, s) ==
    IF req = "addto" THEN AddTo(e, s) ELSE IF req = "write" THEN Assign(e, s) ELSE e

\* The channels the lanes of warp y sum in this chunk iteration, and in
\* their tail loops.
ChunkChannels(y) ==
    {c \in 0 .. MaxWidth - 1 :
        \E x \in Lanes : InChunkLoop(y, x) /\ c - ChunkStart(Tid(x, y), k[y]) \in 0 .. LoadUnroll - 1}
\* Where lane tid leaves the chunk loop: its first chunk that is not whole.
ExitStart(tid) ==
    ChunkStart(tid, CHOOSE j \in 0 .. MaxWidth :
                        ~Whole(ChunkStart(tid, j)) /\ \A i \in 0 .. j - 1 : Whole(ChunkStart(tid, i)))
TailChannels(y) ==
    {c \in 0 .. MaxWidth - 1 : \E x \in Lanes : ExitStart(Tid(x, y)) <= c /\ c < nchannel}

-----------------------------------------------------------------------------
\* The iterations of the chunk loop a warp can make.
MaxIter == MaxWidth \div (LoadUnroll * NThread) + 1

Init ==
    /\ nchannel \in Widths
    /\ nbatch \in Batches
    /\ \E r \in Reqs : greq = r[1] /\ breq = r[2]
    /\ pc = [y \in Warps |-> "chunk"]
    /\ k = [y \in Warps |-> 0]
    /\ gg = [c \in 0 .. MaxWidth - 1 |-> Old]
    /\ bg = [c \in 0 .. MaxWidth - 1 |-> Old]
    /\ visits = [c \in 0 .. MaxWidth - 1 |-> 0]

\* Mutation: the loop test "l + LOAD_UNROLL - 1 < nchannel" dropped.
ChunkIterationUnguarded(y) ==
    /\ pc[y] = "chunk"
    /\ LET C == ChunkChannels(y) IN
       /\ gg' = [c \in DOMAIN gg |->
                   IF c \in C /\ greq # "null" THEN ChunkWrite(gg[c], greq, GammaSum(c)) ELSE gg[c]]
       /\ bg' = [c \in DOMAIN bg |->
                   IF c \in C /\ breq # "null" THEN ChunkWrite(bg[c], breq, BetaSum) ELSE bg[c]]
       /\ visits' = [c \in DOMAIN visits |-> IF c \in C THEN visits[c] + 1 ELSE visits[c]]
    /\ k' = [k EXCEPT ![y] = k[y] + 1]
    /\ UNCHANGED <<nchannel, nbatch, greq, breq, pc>>

\* One iteration of the chunk loop by the lanes of warp y still in it: the
\* batch sums of their LOAD_UNROLL channels, then "Write to destination".
ChunkIteration(y) ==
    /\ pc[y] = "chunk"
    /\ \E x \in Lanes : InChunkLoop(y, x)
    /\ LET C == ChunkChannels(y) IN
       /\ gg' = [c \in DOMAIN gg |->
                   IF c \in C /\ greq # "null" THEN ChunkWrite(gg[c], greq, GammaSum(c)) ELSE gg[c]]
       /\ bg' = [c \in DOMAIN bg |->
                   IF c \in C /\ breq # "null" THEN ChunkWrite(bg[c], breq, BetaSum) ELSE bg[c]]
       /\ visits' = [c \in DOMAIN visits |-> IF c \in C THEN visits[c] + 1 ELSE visits[c]]
    /\ k' = [k EXCEPT ![y] = k[y] + 1]
    /\ UNCHANGED <<nchannel, nbatch, greq, breq, pc>>

\* No lane of warp y is left in the chunk loop.
ChunkExit(y) ==
    /\ pc[y] = "chunk"
    /\ \A x \in Lanes : ~InChunkLoop(y, x)
    /\ pc' = [pc EXCEPT ![y] = "tail"]
    /\ UNCHANGED <<nchannel, nbatch, greq, breq, k, gg, bg, visits>>

\* The tail loop of every lane of warp y, channel by channel.
Tail(y) ==
    /\ pc[y] = "tail"
    /\ LET C == TailChannels(y) IN
       /\ gg' = [c \in DOMAIN gg |->
                   IF c \in C /\ greq # "null" THEN TailWrite(gg[c], greq, GammaSum(c)) ELSE gg[c]]
       /\ bg' = [c \in DOMAIN bg |->
                   IF c \in C /\ breq # "null" THEN TailWrite(bg[c], breq, BetaSum) ELSE bg[c]]
       /\ visits' = [c \in DOMAIN visits |-> IF c \in C THEN visits[c] + 1 ELSE visits[c]]
    /\ pc' = [pc EXCEPT ![y] = "done"]
    /\ UNCHANGED <<nchannel, nbatch, greq, breq, k>>

AllDone == \A y \in Warps : pc[y] = "done"

\* The kernel has returned: nothing changes any more.
Terminated == AllDone /\ UNCHANGED vars

Next == (\E y \in Warps : ChunkIteration(y) \/ ChunkExit(y) \/ Tail(y)) \/ Terminated

Spec == Init /\ [][Next]_vars

-----------------------------------------------------------------------------
(* Properties.                                                             *)

GradElem == [old : 0 .. 1, n : Nat, stat : [0 .. nbatch - 1 -> Nat \cup {Garbage}] \cup {Garbage}]

TypeOK ==
    /\ nchannel \in Widths /\ nbatch \in Batches
    /\ \E r \in Reqs : greq = r[1] /\ breq = r[2]
    /\ pc \in [Warps -> {"chunk", "tail", "done"}]
    /\ k \in [Warps -> 0 .. MaxIter]
    /\ gg \in [0 .. MaxWidth - 1 -> GradElem]
    /\ bg \in [0 .. MaxWidth - 1 -> GradElem]
    /\ visits \in [0 .. MaxWidth - 1 -> Nat]

\* The chunk loops and the tail loops of all threads together partition the
\* row: when the kernel returns, every channel was summed by exactly one
\* thread and no channel past nchannel was touched (the LOAD_UNROLL-wide
\* vectorised loads and the "l < nchannel" tail of the GammaBeta kernel).
ChannelPartition ==
    AllDone => \A c \in 0 .. MaxWidth - 1 : visits[c] = IF c < nchannel THEN 1 ELSE 0

\* The request contract of each of gamma_grad and beta_grad: when the
\* kernel returns, under kWriteTo every element holds exactly the new sum,
\* under kAddTo the old value plus one sum, under kNullOp the old value.
RequestHonoured(e, req) ==
    CASE req = "null"  -> e = Old
      [] req = "write" -> e.n = 1 /\ e.old = 0
      [] req = "addto" -> e.n = 1 /\ e.old = 1
GradWrittenAsRequested ==
    AllDone => \A c \in 0 .. nchannel - 1 :
        RequestHonoured(gg[c], greq) /\ RequestHonoured(bg[c], breq)

\* The same contract for the accumulating modes alone.
AddToGradComplete ==
    AllDone => \A c \in 0 .. nchannel - 1 :
        /\ greq # "write" => RequestHonoured(gg[c], greq)
        /\ breq # "write" => RequestHonoured(bg[c], breq)

\* gamma_grad[c] = sum_b (x[b,c] - mean[b]) / std[b] * og[b,c]: the term of
\* every batch row b uses that row's saved statistics.
GammaGradStats ==
    AllDone => \A c \in 0 .. nchannel - 1 :
        gg[c].n > 0 => gg[c].stat = [b \in 0 .. nbatch - 1 |-> b]

=============================================================================
