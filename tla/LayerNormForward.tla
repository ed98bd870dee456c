-------------------------- MODULE LayerNormForward --------------------------
(***************************************************************************)
(* One execution group (CUDA block) of LayerNormFusedForwardKernelContig   *)
(* (src/src/operator/nn/layer_norm.cu) computing one row, together with    *)
(* the block shape chosen for it by LayerNormGPUContig.                    *)
(*                                                                         *)
(* The block has NWarps warps of WarpSize lanes.  Lanes of a warp run in   *)
(* lock step, so one action of a warp stands for the same statement        *)
(* executed by all its lanes; different warps interleave freely and meet   *)
(* only at __syncthreads(), modelled by the joint action Barrier.          *)
(*                                                                         *)
(* Data abstraction.  A running (mean, sigma2, count) triple is tracked by *)
(* what each of its three components summarises: a bag of row cells       *)
(* (cell c counted k times).  Welford's step adds one cell to the bag of   *)
(* all three components; Chan's merge of two consistent triples (whose     *)
(* three components summarise the same bag) is the consistent triple of   *)
(* the bag sum.  Merging anything else (a mean read from a sigma2 slot, an *)
(* uninitialised slot) gives Garbage.  That the arithmetic of both steps   *)
(* is exact on bags is checked separately in module WelfordChan.           *)
(***************************************************************************)
EXTENDS Naturals, FiniteSets

CONSTANTS
    WarpSize,    \* lanes per warp: 32 (blockDim.x, the mask "& 31")
    ShflRounds,  \* rounds of the intra-warp merge: 5 ("l <= 4")
    Widths,      \* the row widths (nchannel) to consider
    Garbage      \* an undefined value (uninitialised or torn data)

ASSUME WarpSizeAssumption == WarpSize \in Nat \ {0}
ASSUME ShflRoundsAssumption == ShflRounds \in Nat /\ WarpSize = 2^ShflRounds
ASSUME WidthsAssumption == Widths \subseteq Nat \ {0} /\ Widths # {} /\ IsFiniteSet(Widths)
\* A finite non-empty set of widths has a widest member, which MaxWidth
\* sizes the buffers for.
ASSUME WidestWidthAssumption == \E w \in Widths : \A v \in Widths : v <= w

MaxWidth == CHOOSE w \in Widths : \A v \in Widths : v <= w

\* Cells of the input a lane may load: the row and the next 4-wide load.
Cells == 0 .. MaxWidth + 3

\* Multiplicities 0, 1 and 2 ("counted more than once"): enough to tell a
\* partition of the row from anything else, and finite.
Mult == 0 .. 2
Bag == [Cells -> Mult]
Val == Bag \cup {Garbage}
EmptyBag == [c \in Cells |-> 0]
BagSum(a, b) == [c \in Cells |-> IF a[c] + b[c] > 2 THEN 2 ELSE a[c] + b[c]]

\* A (mean, sigma2, count) triple all of whose components summarise bag b.
Triple(b) == [mean |-> b, sigma2 |-> b, count |-> b]
Consistent(t) == t.mean # Garbage /\ t.mean = t.sigma2 /\ t.mean = t.count
GarbageTriple == Triple(Garbage)

VARIABLES
    nchannel,   \* the row width of this launch
    pc,         \* pc[y]: the statement warp y executes next
    rnd,        \* rnd[y]: loop variable l of the intra-warp merge
    off,        \* off[y]: loop variable offset of the inter-warp merge
    t,          \* t[y][x]: (mean, sigma2, count) registers of lane x of warp y
    shm,        \* shm[s]: dynamic shared memory, one DType per slot
    acc,        \* acc[s]: accesses to slot s since the last barrier
    out,        \* out[i]: writes to out_data[i] and the statistics they used
    stat        \* writes to mean_data[bid] / std_data[bid]

vars == <<nchannel, pc, rnd, off, t, shm, acc, out, stat>>

-----------------------------------------------------------------------------
(* Launch geometry: LayerNormGPUContig, dimBlock(32, nthread_y).           *)

MaxWarps == 2
NWarps == IF nchannel <= WarpSize THEN 1 ELSE MaxWarps
Warps == 0 .. NWarps - 1
Lanes == 0 .. WarpSize - 1
NThread == WarpSize * NWarps
Tid(x, y) == x + y * WarpSize

\* Shared memory: mean_buf, sigma2_buf, count_buf, NWarps \div 2 slots each.
Half == NWarps \div 2
Slots == 0 .. 3 * Half - 1
MeanBuf(i) == i
Sigma2Buf(i) == Half + i
CountBuf(i) == NWarps + i

\* The whole row, each cell exactly once.
FullRow == [c \in Cells |-> IF c < nchannel THEN 1 ELSE 0]

(* BlockWelfordOnlineSum: the cells lane tid feeds to StepWelfordOnlineSum, *)
(* first whole 4-wide chunks strided by 4 * nthread, then the tail.         *)
ChunkStarts(tid) == {4 * tid + 4 * NThread * k : k \in 0 .. MaxWidth}
TailStart(tid) ==
    CHOOSE l \in ChunkStarts(tid) :
        /\ ~(l + 3 < nchannel)
        /\ \A m \in ChunkStarts(tid) : m < l => m + 3 < nchannel
\* Mutation: the chunk loop test written "l + 3 <= nchannel".
BlockWelfordOnlineSumOverrun(tid) ==
    LET Tail == CHOOSE l \in ChunkStarts(tid) :
                    /\ ~(l + 3 <= nchannel)
                    /\ \A m \in ChunkStarts(tid) : m < l => m + 3 <= nchannel
    IN Triple([c \in Cells |->
                 IF \/ \E l \in ChunkStarts(tid) : l + 3 <= nchannel /\ c \in l .. l + 3
                    \/ Tail <= c /\ c < nchannel
                 THEN 1 ELSE 0])
BlockWelfordOnlineSum(tid) ==
    Triple([c \in Cells |->
              IF \/ \E l \in ChunkStarts(tid) : l + 3 < nchannel /\ c \in l .. l + 3
                 \/ TailStart(tid) <= c /\ c < nchannel
              THEN 1 ELSE 0])

\* ChanMergePartition(lhs, rhs): lhs merged into rhs.
ChanMergePartition(lhs, rhs) ==
    IF Consistent(lhs) /\ Consistent(rhs)
    THEN Triple(BagSum(lhs.count, rhs.count))
    ELSE GarbageTriple

\* The source lane of round l of the intra-warp merge.
SrcLane(x, l) == (x + 2^l) % WarpSize

\* Mutation: the output loop striding by blockDim.x, "i += 32".
OutChannelsWarpStride(tid) == {i \in 0 .. nchannel - 1 : i >= tid /\ (i - tid) % WarpSize = 0}
\* The grid-stride output loop "for (i = tid; i < nchannel; i += nthread)".
OutChannels(tid) == {i \in 0 .. nchannel - 1 : i >= tid /\ (i - tid) % NThread = 0}

\* Halving of the inter-warp loop variable.
\* Mutation: rounding the halving up, "offset = (offset + 1) / 2".
NextOffsetCeil(o) == (o + 1) \div 2
NextOffset(o) == o \div 2

\* Reading component k of shared slot s: defined only if s is allocated and
\* k was stored there.
Read(s, k) == IF s \in Slots /\ shm[s].comp = k THEN shm[s].val ELSE Garbage
Access(y, kind) == [warp |-> y, kind |-> kind]

SyncPC == {"sync1", "sync2", "sync3"}
PC == {"accum", "shfl", "bcast1", "write", "merge", "bwrite", "bread", "out", "done"}
      \cup SyncPC

-----------------------------------------------------------------------------
Init ==
    /\ nchannel \in Widths
    /\ pc = [y \in Warps |-> "accum"]
    /\ rnd = [y \in Warps |-> 0]
    /\ off = [y \in Warps |-> Half]
    /\ t = [y \in Warps |-> [x \in Lanes |-> Triple(EmptyBag)]]
    /\ shm = [s \in Slots |-> [comp |-> "none", val |-> Garbage]]
    /\ acc = [s \in Slots |-> {}]
    /\ out = [i \in 0 .. MaxWidth - 1 |-> [n |-> 0, mean |-> Garbage, var |-> Garbage]]
    /\ stat = [n |-> 0, mean |-> Garbage, std |-> Garbage]

\* Each lane folds its cells of the row into its triple.
Accumulate(y) ==
    /\ pc[y] = "accum"
    /\ t' = [t EXCEPT ![y] = [x \in Lanes |-> BlockWelfordOnlineSum(Tid(x, y))]]
    /\ pc' = [pc EXCEPT ![y] = "shfl"]
    /\ UNCHANGED <<nchannel, rnd, off, shm, acc, out, stat>>

\* One round l of the intra-warp merge: every lane merges the triple of lane
\* (x + 2^l) & 31, read with WARP_SHFL, into its own.  After the last round
\* a single-warp block broadcasts, a larger one enters the inter-warp loop.
\* Mutant: the shuffle loop runs one round too many (l <= 5).
ShflRoundExtra(y) ==
    /\ pc[y] = "shfl"
    /\ rnd[y] <= ShflRounds
    /\ t' = [t EXCEPT ![y] = [x \in Lanes |->
                ChanMergePartition(t[y][SrcLane(x, rnd[y])], t[y][x])]]
    /\ rnd' = [rnd EXCEPT ![y] = rnd[y] + 1]
    /\ pc' = [pc EXCEPT ![y] =
                IF rnd[y] < ShflRounds THEN "shfl"
                ELSE IF NWarps = 1 THEN "bcast1" ELSE "write"]
    /\ UNCHANGED <<nchannel, off, shm, acc, out, stat>>

ShflRound(y) ==
    /\ pc[y] = "shfl"
    /\ rnd[y] < ShflRounds
    /\ t' = [t EXCEPT ![y] = [x \in Lanes |->
                ChanMergePartition(t[y][SrcLane(x, rnd[y])], t[y][x])]]
    /\ rnd' = [rnd EXCEPT ![y] = rnd[y] + 1]
    /\ pc' = [pc EXCEPT ![y] =
                IF rnd[y] + 1 < ShflRounds THEN "shfl"
                ELSE IF NWarps = 1 THEN "bcast1" ELSE "write"]
    /\ UNCHANGED <<nchannel, off, shm, acc, out, stat>>

\* blockDim.y == 1: mean and sigma2 / nchannel taken from lane 0.
WarpBroadcast(y) ==
    /\ pc[y] = "bcast1"
    /\ t' = [t EXCEPT ![y] = [x \in Lanes |->
                [mean |-> t[y][0].mean, sigma2 |-> t[y][0].sigma2, count |-> t[y][x].count]]]
    /\ pc' = [pc EXCEPT ![y] = "out"]
    /\ UNCHANGED <<nchannel, rnd, off, shm, acc, out, stat>>

\* Mutation: the first __syncthreads() of the halving loop left out.
WriteUpperNoSync(y) ==
    /\ pc[y] = "write"
    /\ IF off[y] <= y /\ y < 2 * off[y]
       THEN LET idx == y - off[y]
                tr == t[y][0]
            IN /\ shm' = [shm EXCEPT ![MeanBuf(idx)] = [comp |-> "mean", val |-> tr.mean],
                                     ![Sigma2Buf(idx)] = [comp |-> "sigma2", val |-> tr.sigma2],
                                     ![CountBuf(idx)] = [comp |-> "count", val |-> tr.count]]
               /\ acc' = [acc EXCEPT ![MeanBuf(idx)] = @ \cup {Access(y, "w")},
                                     ![Sigma2Buf(idx)] = @ \cup {Access(y, "w")},
                                     ![CountBuf(idx)] = @ \cup {Access(y, "w")}]
       ELSE UNCHANGED <<shm, acc>>
    /\ pc' = [pc EXCEPT ![y] = "merge"]
    /\ UNCHANGED <<nchannel, rnd, off, t, out, stat>>

\* Lane 0 of an upper-half warp stores its triple at idx = y - offset.
WriteUpper(y) ==
    /\ pc[y] = "write"
    /\ IF off[y] <= y /\ y < 2 * off[y]
       THEN LET idx == y - off[y]
                tr == t[y][0]
            IN /\ shm' = [shm EXCEPT ![MeanBuf(idx)] = [comp |-> "mean", val |-> tr.mean],
                                     ![Sigma2Buf(idx)] = [comp |-> "sigma2", val |-> tr.sigma2],
                                     ![CountBuf(idx)] = [comp |-> "count", val |-> tr.count]]
               /\ acc' = [acc EXCEPT ![MeanBuf(idx)] = @ \cup {Access(y, "w")},
                                     ![Sigma2Buf(idx)] = @ \cup {Access(y, "w")},
                                     ![CountBuf(idx)] = @ \cup {Access(y, "w")}]
       ELSE UNCHANGED <<shm, acc>>
    /\ pc' = [pc EXCEPT ![y] = "sync1"]
    /\ UNCHANGED <<nchannel, rnd, off, t, out, stat>>

\* Lane 0 of a lower-half warp merges the triple stored at idx = y.
MergeLower(y) ==
    /\ pc[y] = "merge"
    /\ IF y < off[y]
       THEN /\ t' = [t EXCEPT ![y][0] =
                       ChanMergePartition([mean |-> Read(MeanBuf(y), "mean"),
                                           sigma2 |-> Read(Sigma2Buf(y), "sigma2"),
                                           count |-> Read(CountBuf(y), "count")], t[y][0])]
            /\ acc' = [acc EXCEPT ![MeanBuf(y)] = @ \cup {Access(y, "r")},
                                  ![Sigma2Buf(y)] = @ \cup {Access(y, "r")},
                                  ![CountBuf(y)] = @ \cup {Access(y, "r")}]
       ELSE UNCHANGED <<t, acc>>
    /\ pc' = [pc EXCEPT ![y] = "sync2"]
    /\ UNCHANGED <<nchannel, rnd, off, shm, out, stat>>

\* Thread (0, 0) publishes the block's mean and sigma2.
BcastWrite(y) ==
    /\ pc[y] = "bwrite"
    /\ IF y = 0
       THEN /\ shm' = [shm EXCEPT ![MeanBuf(0)] = [comp |-> "mean", val |-> t[0][0].mean],
                                  ![Sigma2Buf(0)] = [comp |-> "sigma2", val |-> t[0][0].sigma2]]
            /\ acc' = [acc EXCEPT ![MeanBuf(0)] = @ \cup {Access(y, "w")},
                                  ![Sigma2Buf(0)] = @ \cup {Access(y, "w")}]
       ELSE UNCHANGED <<shm, acc>>
    /\ pc' = [pc EXCEPT ![y] = "sync3"]
    /\ UNCHANGED <<nchannel, rnd, off, t, out, stat>>

\* Every lane reads mean_buf[0] and sigma2_buf[0] / nchannel.
BcastRead(y) ==
    /\ pc[y] = "bread"
    /\ t' = [t EXCEPT ![y] = [x \in Lanes |->
                [mean |-> Read(MeanBuf(0), "mean"), sigma2 |-> Read(Sigma2Buf(0), "sigma2"),
                 count |-> t[y][x].count]]]
    /\ acc' = [acc EXCEPT ![MeanBuf(0)] = @ \cup {Access(y, "r")},
                          ![Sigma2Buf(0)] = @ \cup {Access(y, "r")}]
    /\ pc' = [pc EXCEPT ![y] = "out"]
    /\ UNCHANGED <<nchannel, rnd, off, shm, out, stat>>

\* Mutation: mean/std written under "threadIdx.x == 0" alone.
WriteOutputEveryWarp(y) ==
    /\ pc[y] = "out"
    /\ out' = [i \in DOMAIN out |->
                LET W == {x \in Lanes : i \in OutChannels(Tid(x, y))}
                IN IF W = {} THEN out[i]
                   ELSE LET x == CHOOSE x \in W : TRUE
                        IN [n |-> out[i].n + Cardinality(W),
                            mean |-> t[y][x].mean, var |-> t[y][x].sigma2]]
    /\ stat' = [n |-> stat.n + 1, mean |-> t[y][0].mean, std |-> t[y][0].sigma2]
    /\ pc' = [pc EXCEPT ![y] = "done"]
    /\ UNCHANGED <<nchannel, rnd, off, t, shm, acc>>

\* The output loop of every lane, then thread (0, 0) writes mean and std.
WriteOutput(y) ==
    /\ pc[y] = "out"
    /\ out' = [i \in DOMAIN out |->
                LET W == {x \in Lanes : i \in OutChannels(Tid(x, y))}
                IN IF W = {} THEN out[i]
                   ELSE LET x == CHOOSE x \in W : TRUE
                        IN [n |-> out[i].n + Cardinality(W),
                            mean |-> t[y][x].mean, var |-> t[y][x].sigma2]]
    /\ stat' = IF y = 0
               THEN [n |-> stat.n + 1, mean |-> t[0][0].mean, std |-> t[0][0].sigma2]
               ELSE stat
    /\ pc' = [pc EXCEPT ![y] = "done"]
    /\ UNCHANGED <<nchannel, rnd, off, t, shm, acc>>

\* __syncthreads(): all warps have arrived at a barrier; each moves past it.
Barrier ==
    /\ \A y \in Warps : pc[y] \in SyncPC
    /\ pc' = [y \in Warps |->
                CASE pc[y] = "sync1" -> "merge"
                  [] pc[y] = "sync2" -> IF NextOffset(off[y]) > 0 THEN "write" ELSE "bwrite"
                  [] pc[y] = "sync3" -> "bread"]
    /\ off' = [y \in Warps |-> IF pc[y] = "sync2" THEN NextOffset(off[y]) ELSE off[y]]
    /\ acc' = [s \in Slots |-> {}]
    /\ UNCHANGED <<nchannel, rnd, t, shm, out, stat>>

AllDone == \A y \in Warps : pc[y] = "done"

\* The kernel has returned: nothing changes any more.
Terminated == AllDone /\ UNCHANGED vars

Warp(y) ==
    \/ Accumulate(y) \/ ShflRound(y) \/ WarpBroadcast(y)
    \/ WriteUpper(y) \/ MergeLower(y) \/ BcastWrite(y) \/ BcastRead(y)
    \/ WriteOutput(y)

Next == (\E y \in Warps : Warp(y)) \/ Barrier \/ Terminated

\* The hardware keeps scheduling every resident warp of a launched block.
Fairness ==
    /\ \A y \in 0 .. MaxWarps - 1 : WF_vars(y \in Warps /\ Warp(y))
    /\ WF_vars(Barrier)

Spec == Init /\ [][Next]_vars
FairSpec == Spec /\ Fairness

-----------------------------------------------------------------------------
(* Properties.                                                             *)

TypeOK ==
    /\ nchannel \in Widths
    /\ pc \in [Warps -> PC]
    /\ rnd \in [Warps -> 0 .. ShflRounds]
    /\ off \in [Warps -> 0 .. Half]
    /\ t \in [Warps -> [Lanes -> [mean : Val, sigma2 : Val, count : Val]]]
    /\ shm \in [Slots -> [comp : {"none", "mean", "sigma2", "count"}, val : Val]]
    /\ acc \in [Slots -> SUBSET [warp : Warps, kind : {"r", "w"}]]
    /\ out \in [0 .. MaxWidth - 1 -> [n : Nat, mean : Val, var : Val]]
    /\ stat \in [n : Nat, mean : Val, std : Val]

\* No data race on shared memory: between two __syncthreads() no slot is
\* written by one warp and read or written by another (the two-barrier
\* halving loop and the broadcast of LayerNormFusedForwardKernelContig).
NoSharedRace ==
    \A s \in Slots : \A a, b \in acc[s] :
        a.warp # b.warp => a.kind = "r" /\ b.kind = "r"

\* Every thread that reaches the output loop holds the mean and sigma2 of the
\* whole row with each element counted exactly once: Welford accumulation,
\* the intra-warp shuffle merge, the inter-warp merge and the broadcast
\* together partition the row.
BroadcastStats ==
    \A y \in Warps : pc[y] \in {"out", "done"} =>
        \A x \in Lanes : t[y][x].mean = FullRow /\ t[y][x].sigma2 = FullRow

\* When the block has finished, every out_data element of the row was written
\* exactly once, from the row's statistics, and mean_data/std_data exactly
\* once by one thread.
OutputComplete ==
    AllDone =>
        /\ \A i \in 0 .. nchannel - 1 :
              out[i] = [n |-> 1, mean |-> FullRow, var |-> FullRow]
        /\ \A i \in nchannel .. MaxWidth - 1 : out[i].n = 0
        /\ stat = [n |-> 1, mean |-> FullRow, std |-> FullRow]

\* The block implements the row contract of LayerNormRow: at every step,
\* whatever the interleaving of the warps, the out_data elements written are
\* elements of the row not written before, each written from the statistics
\* of the whole row, and mean_data/std_data are written at most once, from
\* the same statistics (out_data and the statistics of
\* LayerNormFusedForwardKernelContig, lines 215-241).
Row == INSTANCE LayerNormRow WITH Widths <- Widths, Cells <- Cells, Garbage <- Garbage
RowRefinement == Row!RowSpec

\* Every launched block finishes: no warp waits forever at a barrier and the
\* halving loop ends.
Termination == <>AllDone

=============================================================================
