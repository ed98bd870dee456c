----------------------- MODULE LayerNormBackwardData -----------------------
(***************************************************************************)
(* One execution group (CUDA block, one row bid) of                        *)
(* LayerNormFusedBackwardKernel_Data (src/src/operator/nn/layer_norm.cu)   *)
(* under the block shape chosen for it by LayerNormGradGPUContig.          *)
(*                                                                         *)
(* As in LayerNormForward, one action of a warp stands for one statement   *)
(* of all its lanes and __syncthreads() is the joint action Barrier.  The  *)
(* two sums sum_val0 and sum_val1 are plain sums over the channels a lane  *)
(* visited; each is abstracted to the bag of channels it has summed (a     *)
(* channel counted k times, k capped at 2).  The two sums follow the same  *)
(* loops, so they always summarise the same bag; they are kept apart       *)
(* because they live in two different shared buffers.                     *)
(***************************************************************************)
EXTENDS Naturals, FiniteSets

CONSTANTS
    WarpSize,    \* blockDim.x = 32
    ShflRounds,  \* log2(WarpSize): rounds of "mask = blockDim.x / 2 .. 1"
    LoadUnroll,  \* LOAD_UNROLL = 4
    Widths,      \* the row widths (nchannel) to consider
    Garbage      \* an undefined value (uninitialised or torn data)

ASSUME DataConstAssumption ==
    /\ WarpSize \in Nat \ {0} /\ ShflRounds \in Nat /\ WarpSize = 2^ShflRounds
    /\ LoadUnroll \in Nat \ {0}
    /\ Widths \subseteq Nat \ {0} /\ Widths # {} /\ IsFiniteSet(Widths)

\* A finite non-empty set of widths has a widest member, which MaxWidth
\* sizes the buffers for.
ASSUME WidestWidthAssumption == \E w \in Widths : \A v \in Widths : v <= w

MaxWidth == CHOOSE w \in Widths : \A v \in Widths : v <= w
Cells == 0 .. MaxWidth + LoadUnroll - 1
Bag == [Cells -> 0 .. 2]
Val == Bag \cup {Garbage}
EmptyBag == [c \in Cells |-> 0]
Cap(n) == IF n > 2 THEN 2 ELSE n
\* "a += b" on two sums; anything added to an undefined value is undefined.
AddSum(a, b) ==
    IF a = Garbage \/ b = Garbage THEN Garbage
    ELSE [c \in Cells |-> Cap(a[c] + b[c])]
Sums(b) == [s0 |-> b, s1 |-> b]

VARIABLES
    nchannel,   \* the row width of this launch
    pc,         \* pc[y]: the statement warp y executes next
    msk,        \* msk[y]: loop variable mask of the intra-warp all-reduce
    off,        \* off[y]: loop variable offset of the inter-warp all-reduce
    t,          \* t[y][x]: sum_val0 and sum_val1 of lane x of warp y
    shm,        \* shm[s]: dynamic shared memory buf[], one DType per slot
    acc,        \* acc[s]: accesses to slot s since the last barrier
    grad        \* grad[i]: writes to data_grad[bid * nchannel + i]

vars == <<nchannel, pc, msk, off, t, shm, acc, grad>>

-----------------------------------------------------------------------------
(* Launch geometry: dimBlock(32, nchannel <= 32 ? 1 : 2).                  *)

MaxWarps == 2
NWarps == IF nchannel <= WarpSize THEN 1 ELSE MaxWarps
Warps == 0 .. NWarps - 1
Lanes == 0 .. WarpSize - 1
NThread == WarpSize * NWarps
\* The thread index the kernel computes: "int tid = threadIdx.x".
DataTid(x, y) == x

\* buf[]: sum_val0_buf, then sum_val1_buf at blockDim.y / 2 * blockDim.x.
Half == NWarps \div 2
Slots == 0 .. 2 * Half * WarpSize - 1
Sum0Buf(i) == i
\* Mutation: the second buffer placed at "buf + blockDim.y / 2".
Sum1BufNoStride(i) == Half + i
Sum1Buf(i) == Half * WarpSize + i

FullRow == [c \in Cells |-> IF c < nchannel THEN 1 ELSE 0]

(* Step 1: the channels lane tid adds to sum_val0 and sum_val1: whole      *)
(* LOAD_UNROLL-wide chunks strided by nthread * LOAD_UNROLL, then the tail. *)
ChunkStarts(tid) == {LoadUnroll * tid + LoadUnroll * NThread * k : k \in 0 .. MaxWidth}
Chunked(l) == l + LoadUnroll - 1 < nchannel
TailStart(tid) ==
    CHOOSE l \in ChunkStarts(tid) :
        ~Chunked(l) /\ \A m \in ChunkStarts(tid) : m < l => Chunked(m)
\* Mutation: the tail loop written "l <= nchannel".
RowSumOverrun(tid) ==
    [c \in Cells |-> IF \/ \E l \in ChunkStarts(tid) : Chunked(l) /\ c \in l .. l + LoadUnroll - 1
                        \/ TailStart(tid) <= c /\ c <= nchannel
                     THEN 1 ELSE 0]
RowSum(tid) ==
    [c \in Cells |-> IF \/ \E l \in ChunkStarts(tid) : Chunked(l) /\ c \in l .. l + LoadUnroll - 1
                        \/ TailStart(tid) <= c /\ c < nchannel
                     THEN 1 ELSE 0]

\* __shfl_xor_sync(value, laneMask, 32): the lane x ^ laneMask, or x itself
\* when that lane is outside the warp.
XorLane(x, m) ==
    LET j == IF m = 0 THEN x ELSE IF (x \div m) % 2 = 0 THEN x + m ELSE x - m
    IN IF j < WarpSize THEN j ELSE x

\* Step 2: "for (l = tid; l < nchannel; l += nthread)".
GradChannels(tid) == {i \in 0 .. nchannel - 1 : i >= tid /\ (i - tid) % NThread = 0}

\* Mutation: the halving rounded up, "offset = (offset + 1) / 2".
NextOffsetCeil(o) == (o + 1) \div 2
NextOffset(o) == o \div 2

Read(s, k) == IF s \in Slots /\ shm[s].comp = k THEN shm[s].val ELSE Garbage
Access(y, kind) == [warp |-> y, kind |-> kind]

SyncPC == {"sync1", "sync2", "sync3"}
PC == {"accum", "shfl", "write", "merge", "bwrite", "bread", "grad", "done"} \cup SyncPC
Masks == {WarpSize \div 2^k : k \in 1 .. ShflRounds} \cup {0}

\* The sums all threads of the block computed in step 1, added up.
BlockTotal ==
    [c \in Cells |->
        Cap(Cardinality({th \in Warps \X Lanes : RowSum(DataTid(th[2], th[1]))[c] = 1}))]

-----------------------------------------------------------------------------
\* Mutation: the shuffle loop starting at "mask = blockDim.x".
InitFullMask ==
    /\ nchannel \in Widths
    /\ pc = [y \in Warps |-> "accum"]
    /\ msk = [y \in Warps |-> WarpSize]
    /\ off = [y \in Warps |-> Half]
    /\ t = [y \in Warps |-> [x \in Lanes |-> Sums(EmptyBag)]]
    /\ shm = [s \in Slots |-> [comp |-> "none", val |-> Garbage]]
    /\ acc = [s \in Slots |-> {}]
    /\ grad = [i \in 0 .. MaxWidth - 1 |-> [n |-> 0, s0 |-> Garbage, s1 |-> Garbage]]

Init ==
    /\ nchannel \in Widths
    /\ pc = [y \in Warps |-> "accum"]
    /\ msk = [y \in Warps |-> WarpSize \div 2]
    /\ off = [y \in Warps |-> Half]
    /\ t = [y \in Warps |-> [x \in Lanes |-> Sums(EmptyBag)]]
    /\ shm = [s \in Slots |-> [comp |-> "none", val |-> Garbage]]
    /\ acc = [s \in Slots |-> {}]
    /\ grad = [i \in 0 .. MaxWidth - 1 |-> [n |-> 0, s0 |-> Garbage, s1 |-> Garbage]]

\* Step 1: every lane sums its channels of the row.
Accumulate(y) ==
    /\ pc[y] = "accum"
    /\ t' = [t EXCEPT ![y] = [x \in Lanes |-> Sums(RowSum(DataTid(x, y)))]]
    /\ pc' = [pc EXCEPT ![y] = "shfl"]
    /\ UNCHANGED <<nchannel, msk, off, shm, acc, grad>>

\* One round of the intra-warp all-reduce: every lane adds the sums of lane
\* x ^ mask.  When mask reaches 0 a multi-warp block enters the inter-warp
\* all-reduce ("if (blockDim.y > 1)"), a single warp goes on to step 2.
\* Mutation: the loop test written "mask >= 0".
ShflXorNonStop(y) ==
    /\ pc[y] = "shfl"
    /\ msk[y] >= 0
    /\ t' = [t EXCEPT ![y] = [x \in Lanes |->
                [s0 |-> AddSum(t[y][x].s0, t[y][XorLane(x, msk[y])].s0),
                 s1 |-> AddSum(t[y][x].s1, t[y][XorLane(x, msk[y])].s1)]]]
    /\ msk' = [msk EXCEPT ![y] = msk[y] \div 2]
    /\ pc' = [pc EXCEPT ![y] =
                IF msk[y] \div 2 >= 0 THEN "shfl" ELSE IF NWarps > 1 THEN "write" ELSE "grad"]
    /\ UNCHANGED <<nchannel, off, shm, acc, grad>>

ShflXor(y) ==
    /\ pc[y] = "shfl"
    /\ msk[y] > 0
    /\ t' = [t EXCEPT ![y] = [x \in Lanes |->
                [s0 |-> AddSum(t[y][x].s0, t[y][XorLane(x, msk[y])].s0),
                 s1 |-> AddSum(t[y][x].s1, t[y][XorLane(x, msk[y])].s1)]]]
    /\ msk' = [msk EXCEPT ![y] = msk[y] \div 2]
    /\ pc' = [pc EXCEPT ![y] =
                IF msk[y] \div 2 > 0 THEN "shfl" ELSE IF NWarps > 1 THEN "write" ELSE "grad"]
    /\ UNCHANGED <<nchannel, off, shm, acc, grad>>

\* Lane x of warp y stores into idx = (y - offset) * 32 + x; a lower-half
\* warp reads idx = y * 32 + x.
UpperIdx(y) == [x \in Lanes |-> (y - off[y]) * WarpSize + x]
LowerIdx(y) == [x \in Lanes |-> y * WarpSize + x]
IsUpper(y) == off[y] <= y /\ y < 2 * off[y]

\* The lanes' store "buf[ix[x]] = v[x]" of one statement, tagged k.
Store(m, ix, k, v) ==
    [s \in DOMAIN m |-> IF \E x \in Lanes : ix[x] = s
                        THEN [comp |-> k, val |-> v[CHOOSE x \in Lanes : ix[x] = s]]
                        ELSE m[s]]
\* The slots a statement of warp y touches, added to the access log.
Log(a, ss, y, kind) ==
    [s \in DOMAIN a |-> IF s \in ss THEN a[s] \cup {Access(y, kind)} ELSE a[s]]
Buf0(ix) == [x \in Lanes |-> Sum0Buf(ix[x])]
Buf1(ix) == [x \in Lanes |-> Sum1Buf(ix[x])]
Touched(ix) == {Sum0Buf(ix[x]) : x \in Lanes} \cup {Sum1Buf(ix[x]) : x \in Lanes}
S0(y) == [x \in Lanes |-> t[y][x].s0]
S1(y) == [x \in Lanes |-> t[y][x].s1]

\* Mutation: the first __syncthreads() of the halving loop left out.
WriteUpperNoSync(y) ==
    /\ pc[y] = "write"
    /\ IF IsUpper(y)
       THEN /\ shm' = Store(Store(shm, Buf0(UpperIdx(y)), "s0", S0(y)), Buf1(UpperIdx(y)), "s1", S1(y))
            /\ acc' = Log(acc, Touched(UpperIdx(y)), y, "w")
       ELSE UNCHANGED <<shm, acc>>
    /\ pc' = [pc EXCEPT ![y] = "merge"]
    /\ UNCHANGED <<nchannel, msk, off, t, grad>>

\* Every lane of an upper-half warp stores sum_val0, then sum_val1.
WriteUpper(y) ==
    /\ pc[y] = "write"
    /\ IF IsUpper(y)
       THEN /\ shm' = Store(Store(shm, Buf0(UpperIdx(y)), "s0", S0(y)), Buf1(UpperIdx(y)), "s1", S1(y))
            /\ acc' = Log(acc, Touched(UpperIdx(y)), y, "w")
       ELSE UNCHANGED <<shm, acc>>
    /\ pc' = [pc EXCEPT ![y] = "sync1"]
    /\ UNCHANGED <<nchannel, msk, off, t, grad>>

\* Every lane of a lower-half warp adds the sums stored at y * 32 + x.
MergeLower(y) ==
    /\ pc[y] = "merge"
    /\ IF y < off[y]
       THEN /\ t' = [t EXCEPT ![y] = [x \in Lanes |->
                  [s0 |-> AddSum(t[y][x].s0, Read(Buf0(LowerIdx(y))[x], "s0")),
                   s1 |-> AddSum(t[y][x].s1, Read(Buf1(LowerIdx(y))[x], "s1"))]]]
            /\ acc' = Log(acc, Touched(LowerIdx(y)), y, "r")
       ELSE UNCHANGED <<t, acc>>
    /\ pc' = [pc EXCEPT ![y] = "sync2"]
    /\ UNCHANGED <<nchannel, msk, off, shm, grad>>

\* Warp 0 publishes its sums at threadIdx.x.
BcastWrite(y) ==
    /\ pc[y] = "bwrite"
    /\ IF y = 0
       THEN /\ shm' = Store(Store(shm, Buf0(LowerIdx(0)), "s0", S0(0)), Buf1(LowerIdx(0)), "s1", S1(0))
            /\ acc' = Log(acc, Touched(LowerIdx(0)), y, "w")
       ELSE UNCHANGED <<shm, acc>>
    /\ pc' = [pc EXCEPT ![y] = "sync3"]
    /\ UNCHANGED <<nchannel, msk, off, t, grad>>

\* The other warps read them back.
BcastRead(y) ==
    /\ pc[y] = "bread"
    /\ IF y # 0
       THEN /\ t' = [t EXCEPT ![y] = [x \in Lanes |->
                  [s0 |-> Read(Buf0(LowerIdx(0))[x], "s0"),
                   s1 |-> Read(Buf1(LowerIdx(0))[x], "s1")]]]
            /\ acc' = Log(acc, Touched(LowerIdx(0)), y, "r")
       ELSE UNCHANGED <<t, acc>>
    /\ pc' = [pc EXCEPT ![y] = "grad"]
    /\ UNCHANGED <<nchannel, msk, off, shm, grad>>

\* Step 2 (after "sum_val /= nchannel"): every lane writes data_grad at its
\* channels, "=" or "+=" as data_addto says, from its sums.
WriteGrad(y) ==
    /\ pc[y] = "grad"
    /\ grad' = [i \in DOMAIN grad |->
                LET W == {x \in Lanes : i \in GradChannels(DataTid(x, y))}
                IN IF W = {} THEN grad[i]
                   ELSE LET x == CHOOSE x \in W : TRUE
                        IN [n |-> grad[i].n + Cardinality(W),
                            s0 |-> t[y][x].s0, s1 |-> t[y][x].s1]]
    /\ pc' = [pc EXCEPT ![y] = "done"]
    /\ UNCHANGED <<nchannel, msk, off, t, shm, acc>>

\* __syncthreads(): all warps have arrived at a barrier; each moves past it.
Barrier ==
    /\ \A y \in Warps : pc[y] \in SyncPC
    /\ pc' = [y \in Warps |->
                CASE pc[y] = "sync1" -> "merge"
                  [] pc[y] = "sync2" -> IF NextOffset(off[y]) > 0 THEN "write" ELSE "bwrite"
                  [] pc[y] = "sync3" -> "bread"]
    /\ off' = [y \in Warps |-> IF pc[y] = "sync2" THEN NextOffset(off[y]) ELSE off[y]]
    /\ acc' = [s \in Slots |-> {}]
    /\ UNCHANGED <<nchannel, msk, t, shm, grad>>

AllDone == \A y \in Warps : pc[y] = "done"

\* The kernel has returned: nothing changes any more.
Terminated == AllDone /\ UNCHANGED vars

Warp(y) ==
    \/ Accumulate(y) \/ ShflXor(y) \/ WriteUpper(y) \/ MergeLower(y)
    \/ BcastWrite(y) \/ BcastRead(y) \/ WriteGrad(y)

Next == (\E y \in Warps : Warp(y)) \/ Barrier \/ Terminated

\* The hardware keeps scheduling every resident warp of a launched block.
Fairness ==
    /\ \A y \in 0 .. MaxWarps - 1 : WF_vars(y \in Warps /\ Warp(y))
    /\ WF_vars(Barrier)

Spec == Init /\ [][Next]_vars
FairSpec == Spec /\ Fairness

-----------------------------------------------------------------------------
(* Properties.                                                             *)

TypeOK ==
    /\ nchannel \in Widths
    /\ pc \in [Warps -> PC]
    /\ msk \in [Warps -> Masks]
    /\ off \in [Warps -> 0 .. Half]
    /\ t \in [Warps -> [Lanes -> [s0 : Val, s1 : Val]]]
    /\ shm \in [Slots -> [comp : {"none", "s0", "s1"}, val : Val]]
    /\ acc \in [Slots -> SUBSET [warp : Warps, kind : {"r", "w"}]]
    /\ grad \in [0 .. MaxWidth - 1 -> [n : Nat, s0 : Val, s1 : Val]]

\* No data race on buf[]: between two __syncthreads() no slot is written by
\* one warp and read or written by another, in the halving loop and the
\* broadcast of the inter-warp all-reduce.
NoSharedRace ==
    \A s \in Slots : \A a, b \in acc[s] :
        a.warp # b.warp => a.kind = "r" /\ b.kind = "r"

\* The two all-reduces are correct whatever each thread summed in step 1:
\* every thread that reaches step 2 holds, in both sum_val0 and sum_val1,
\* the total of the partial sums of all threads of the block.
ReducedSums ==
    \A y \in Warps : pc[y] \in {"grad", "done"} =>
        \A x \in Lanes : t[y][x] = Sums(BlockTotal)

\* When the block has finished, every data_grad element of the row was
\* written by exactly one thread, from sums over the whole row with each
\* channel counted once (the contract of LayerNormFusedBackwardKernel_Data).
DataGradComplete ==
    AllDone =>
        /\ \A i \in 0 .. nchannel - 1 : grad[i] = [n |-> 1, s0 |-> FullRow, s1 |-> FullRow]
        /\ \A i \in nchannel .. MaxWidth - 1 : grad[i].n = 0

\* For single-warp blocks (nchannel <= 32) every data_grad element of the
\* row is written once, from sums over the whole row.
NarrowDataGradComplete == NWarps = 1 => DataGradComplete

\* Every launched block finishes.
Termination == <>AllDone

=============================================================================
