------------------ MODULE LayerNormBackwardDataGradProofs ------------------
(***************************************************************************)
(* The data_grad contract of LayerNormFusedBackwardKernel_Data for rows    *)
(* that fit one warp (nchannel <= 32), for every warp size, load width and *)
(* set of row widths, given that the two all-reduces deliver the block     *)
(* total to every thread (ReducedSums, checked by TLC: its XOR masks are   *)
(* WarpSize \div 2^k, beyond the provers).                                 *)
(*                                                                         *)
(* Step 1 partitions the row: lane tid sums exactly the channels c < nchannel *)
(* with (c \div LOAD_UNROLL) % nthread = tid, whole chunks and the tail    *)
(* alike (RowSumPartition).  With one warp the block total is therefore   *)
(* the row with each channel counted once.  Step 2's loop gives element i *)
(* to lane i % nthread alone, so data_grad[i] is written once, from that   *)
(* total, when warp 0 finishes (GradInv).                                  *)
(***************************************************************************)
EXTENDS LayerNormBackwardDataProofs, FiniteSetTheorems

-----------------------------------------------------------------------------
(* The arithmetic of the chunk loop "for (l = LOAD_UNROLL * tid;           *)
(* l + LOAD_UNROLL - 1 < nchannel; l += nthread * LOAD_UNROLL)".           *)

\* Channel c lies in chunk k of thread tid exactly when its chunk index
\* c \div LU is tid + NT * k.
LEMMA ChunkIndex ==
    ASSUME NEW LU \in Nat \ {0}, NEW NT \in Nat \ {0}, NEW tid \in 0 .. NT - 1,
           NEW k \in Nat, NEW c \in Nat
    PROVE  (c \in LU * tid + LU * NT * k .. LU * tid + LU * NT * k + LU - 1)
               <=> c \div LU = tid + NT * k
BY SMT

\* A chunk index belongs to thread tid exactly when it is tid plus a
\* multiple of the stride.
LEMMA ResidueSplit ==
    ASSUME NEW NT \in Nat \ {0}, NEW tid \in 0 .. NT - 1, NEW q \in Nat
    PROVE  q % NT = tid <=> \E k \in Nat : q = tid + NT * k
<1>1. q % NT = tid => q = tid + NT * (q \div NT) /\ q \div NT \in Nat
  BY SMT
<1>2. ASSUME NEW k \in Nat, q = tid + NT * k PROVE q % NT = tid
  BY <1>2, SMT
<1>. QED BY <1>1, <1>2

\* The chunk loop of thread tid stops at chunk k0: every earlier chunk is
\* whole, chunk k0 is not, and k0 <= N.  For a thread past the first chunk
\* the witness is (N - LU - LU * tid) \div (LU * NT) + 1.
LEMMA ChunkExit ==
    ASSUME NEW LU \in Nat \ {0}, NEW NT \in Nat \ {0}, NEW tid \in 0 .. NT - 1,
           NEW N \in Nat \ {0}
    PROVE  \E k0 \in 0 .. N :
              /\ ~(LU * tid + LU * NT * k0 + LU - 1 < N)
              /\ \A k \in 0 .. k0 - 1 : LU * tid + LU * NT * k + LU - 1 < N
<1>1. CASE ~(LU * tid + LU - 1 < N)
  <2>1. ~(LU * tid + LU * NT * 0 + LU - 1 < N)
    BY <1>1, SMT
  <2>. QED BY <2>1
<1>2. CASE LU * tid + LU - 1 < N
  <2> DEFINE R == N - LU - LU * tid
             D == LU * NT
             k0 == R \div D + 1
  <2>1. R \in Nat /\ D \in Nat \ {0} /\ R <= N - 1
    BY <1>2, SMT
  <2>2. k0 \in 0 .. N
    BY <2>1, SMT
  <2>3. \A k \in Nat : (LU * tid + LU * NT * k + LU - 1 < N) <=> D * k <= R
    BY SMT
  <2>4. \A k \in Nat : D * k <= R <=> k <= R \div D
    BY <2>1, SMT
  <2>5. ~(LU * tid + LU * NT * k0 + LU - 1 < N)
    BY <2>1, <2>3, <2>4, SMT
  <2>6. \A k \in 0 .. k0 - 1 : LU * tid + LU * NT * k + LU - 1 < N
    BY <2>1, <2>3, <2>4, SMT
  <2>. QED BY <2>2, <2>5, <2>6
<1>. QED BY <1>1, <1>2


-----------------------------------------------------------------------------
(* Step 1 partitions the row among the threads.                            *)

\* The start of chunk k of thread tid.
Start(tid, k) == LoadUnroll * tid + LoadUnroll * NThread * k

\* The block's shape and the row's width as numbers, and the row within
\* the buffers.
LEMMA RowShape ==
    ASSUME nchannel \in Widths
    PROVE  /\ LoadUnroll \in Nat \ {0} /\ NThread \in Nat \ {0}
           /\ nchannel \in Nat \ {0} /\ MaxWidth \in Nat /\ nchannel <= MaxWidth
           /\ NWarps \in {1, 2} /\ NThread = WarpSize * NWarps
<1>1. \A v \in Widths : v <= MaxWidth /\ MaxWidth \in Widths
  BY WidestWidthAssumption DEF MaxWidth
<1>2. NWarps \in {1, 2}
  BY DEF NWarps, MaxWarps
<1>3. MaxWidth \in Nat /\ nchannel \in Nat \ {0} /\ nchannel <= MaxWidth
  BY <1>1, DataConstAssumption
<1>4. NThread \in Nat \ {0}
  BY <1>2, DataConstAssumption, SMT DEF NThread
<1>. QED BY <1>2, <1>3, <1>4, DataConstAssumption DEF NThread

\* The tail loop starts at the first chunk start whose chunk is not whole:
\* chunk kT of the thread, every earlier chunk being whole.
LEMMA TailStartIs ==
    ASSUME nchannel \in Widths, NEW tid \in 0 .. NThread - 1
    PROVE  \E kT \in 0 .. MaxWidth :
              /\ TailStart(tid) = Start(tid, kT)
              /\ ~Chunked(Start(tid, kT))
              /\ \A k \in 0 .. kT - 1 : Chunked(Start(tid, k))
<1>0. /\ LoadUnroll \in Nat \ {0} /\ NThread \in Nat \ {0}
      /\ nchannel \in Nat \ {0} /\ MaxWidth \in Nat /\ nchannel <= MaxWidth
  BY RowShape
<1>1. ChunkStarts(tid) = {Start(tid, k) : k \in 0 .. MaxWidth}
  BY DEF ChunkStarts, Start
<1>2. PICK k0 \in 0 .. nchannel :
         /\ ~Chunked(Start(tid, k0))
         /\ \A k \in 0 .. k0 - 1 : Chunked(Start(tid, k))
  BY <1>0, ChunkExit DEF Chunked, Start
<1>3. k0 \in 0 .. MaxWidth
  BY <1>0, <1>2
<1>4. \A j, k \in 0 .. MaxWidth : Start(tid, j) < Start(tid, k) => j < k
  BY <1>0, SMT DEF Start
<1>5. \E l \in ChunkStarts(tid) :
         ~Chunked(l) /\ \A m \in ChunkStarts(tid) : m < l => Chunked(m)
  <2>1. \A m \in ChunkStarts(tid) : m < Start(tid, k0) => Chunked(m)
    BY <1>1, <1>2, <1>3, <1>4
  <2>. QED BY <1>1, <1>2, <1>3, <2>1
<1>6. /\ TailStart(tid) \in ChunkStarts(tid) /\ ~Chunked(TailStart(tid))
      /\ \A m \in ChunkStarts(tid) : m < TailStart(tid) => Chunked(m)
  BY <1>5 DEF TailStart
<1>7. PICK kT \in 0 .. MaxWidth : TailStart(tid) = Start(tid, kT)
  BY <1>1, <1>6
<1>8. \A k \in 0 .. kT - 1 : k \in 0 .. MaxWidth /\ Start(tid, k) < Start(tid, kT)
  BY <1>0, SMT DEF Start
<1>. QED BY <1>1, <1>6, <1>7, <1>8

\* Lane tid sums exactly the channels of the row whose chunk index is tid
\* modulo nthread, whole chunks and tail alike.
LEMMA RowSumPartition ==
    ASSUME nchannel \in Widths, NEW tid \in 0 .. NThread - 1, NEW c \in Cells
    PROVE  RowSum(tid)[c] =
              IF c < nchannel /\ (c \div LoadUnroll) % NThread = tid THEN 1 ELSE 0
<1>0. /\ LoadUnroll \in Nat \ {0} /\ NThread \in Nat \ {0}
      /\ nchannel \in Nat \ {0} /\ MaxWidth \in Nat /\ nchannel <= MaxWidth
      /\ c \in Nat /\ tid \in Nat
  BY RowShape DEF Cells
<1>1. PICK kT \in 0 .. MaxWidth :
         /\ TailStart(tid) = Start(tid, kT)
         /\ ~Chunked(Start(tid, kT))
         /\ \A k \in 0 .. kT - 1 : Chunked(Start(tid, k))
  BY TailStartIs
<1>2. \A k \in Nat : c \in Start(tid, k) .. Start(tid, k) + LoadUnroll - 1
                       <=> c \div LoadUnroll = tid + NThread * k
  BY <1>0, ChunkIndex DEF Start
<1> DEFINE InChunk == \E l \in ChunkStarts(tid) : Chunked(l) /\ c \in l .. l + LoadUnroll - 1
           InTail == TailStart(tid) <= c /\ c < nchannel
           Mine == c < nchannel /\ (c \div LoadUnroll) % NThread = tid
<1>3. RowSum(tid)[c] = IF InChunk \/ InTail THEN 1 ELSE 0
  BY DEF RowSum
<1>4. (c \div LoadUnroll) % NThread = tid
         <=> \E k \in Nat : c \div LoadUnroll = tid + NThread * k
  <2>1. c \div LoadUnroll \in Nat
    BY <1>0, SMT
  <2>. QED BY <1>0, <2>1, ResidueSplit
<1>5. InChunk => Mine
  <2> SUFFICES ASSUME NEW k \in 0 .. MaxWidth, Chunked(Start(tid, k)),
                      c \in Start(tid, k) .. Start(tid, k) + LoadUnroll - 1
               PROVE  Mine
    BY DEF ChunkStarts, Start
  <2>1. c \div LoadUnroll = tid + NThread * k
    BY <1>2
  <2>2. c < nchannel
    BY <1>0, SMT DEF Chunked, Start
  <2>. QED BY <1>4, <2>1, <2>2
<1>6. InTail => Mine
  <2> SUFFICES ASSUME InTail PROVE Mine
    OBVIOUS
  <2>1. c \in Start(tid, kT) .. Start(tid, kT) + LoadUnroll - 1
    BY <1>0, <1>1, SMT DEF Chunked, Start
  <2>. QED BY <1>2, <1>4, <2>1
<1>7. Mine => InChunk \/ InTail
  <2> SUFFICES ASSUME Mine PROVE InChunk \/ InTail
    OBVIOUS
  <2>1. PICK k \in Nat : c \div LoadUnroll = tid + NThread * k
    BY <1>4
  <2>2. c \in Start(tid, k) .. Start(tid, k) + LoadUnroll - 1
    BY <1>2, <2>1
  <2>3. k \in 0 .. MaxWidth
    BY <1>0, <2>1, SMT
  <2>4. CASE k < kT
    <3>1. Chunked(Start(tid, k))
      BY <1>1, <2>3, <2>4
    <3>. QED BY <2>2, <2>3, <3>1 DEF ChunkStarts, Start
  <2>5. CASE k = kT
    BY <1>1, <2>2, <2>5
  <2>6. CASE k > kT
    <3>1. Start(tid, k) >= Start(tid, kT) + LoadUnroll
      BY <1>0, <2>6, SMT DEF Start
    <3>. QED BY <1>0, <1>1, <2>2, <3>1, SMT DEF Chunked, Start
  <2>. QED BY <1>0, <2>3, <2>4, <2>5, <2>6
<1>. QED BY <1>3, <1>5, <1>6, <1>7

\* With one warp, the partial sums of the block's threads added up count
\* every channel of the row once and nothing else: the block total is the
\* row.
LEMMA NarrowBlockTotal ==
    ASSUME nchannel \in Widths, NWarps = 1
    PROVE  BlockTotal = FullRow
<1>0. /\ LoadUnroll \in Nat \ {0} /\ NThread \in Nat \ {0} /\ NThread = WarpSize
      /\ Warps = {0} /\ Lanes = 0 .. NThread - 1
  BY RowShape, DataConstAssumption DEF Warps, Lanes, NThread
<1> SUFFICES ASSUME NEW c \in Cells
             PROVE  Cap(Cardinality({th \in Warps \X Lanes : RowSum(DataTid(th[2], th[1]))[c] = 1}))
                       = IF c < nchannel THEN 1 ELSE 0
  BY DEF BlockTotal, FullRow
<1> DEFINE S == {th \in Warps \X Lanes : RowSum(DataTid(th[2], th[1]))[c] = 1}
           own == (c \div LoadUnroll) % NThread
<1>1. \A x \in Lanes : RowSum(x)[c] = 1 <=> c < nchannel /\ own = x
  BY <1>0, RowSumPartition
<1>2. own \in Lanes
  <2>1. c \in Nat
    BY DEF Cells
  <2>. QED BY <1>0, <2>1, SMT
<1>3. CASE c < nchannel
  <2>1. S = {<<0, own>>}
    BY <1>0, <1>1, <1>2, <1>3 DEF DataTid
  <2>2. Cardinality(S) = 1
    BY <2>1, FS_Singleton
  <2>. QED BY <1>3, <2>2 DEF Cap
<1>4. CASE ~(c < nchannel)
  <2>1. S = {}
    BY <1>0, <1>1, <1>4 DEF DataTid
  <2>2. Cardinality(S) = 0
    BY <2>1, FS_EmptySet
  <2>. QED BY <1>4, <2>2 DEF Cap
<1>. QED BY <1>3, <1>4

-----------------------------------------------------------------------------
(* Step 2 writes each element once.                                        *)

GradWritten == [n |-> 1, s0 |-> FullRow, s1 |-> FullRow]
GradUnwritten == [n |-> 0, s0 |-> Garbage, s1 |-> Garbage]

\* data_grad[i] of a single-warp row is written exactly when warp 0 has
\* finished, from the row.
GradInv ==
    /\ DOMAIN grad = 0 .. MaxWidth - 1
    /\ NWarps = 1 =>
          \A i \in DOMAIN grad :
             grad[i] = IF i < nchannel /\ pc[0] = "done" THEN GradWritten ELSE GradUnwritten

\* A loop "for (l = a; ...; l += N)" with 0 <= a < N visits the l >= a with
\* l % N = a.
LEMMA GradStride ==
    ASSUME NEW N \in Nat \ {0}, NEW a \in 0 .. N - 1, NEW i \in Nat
    PROVE  (i >= a /\ (i - a) % N = 0) <=> i % N = a
BY SMT

\* With one warp, the lanes whose step-2 loop visits element i: lane
\* i % nthread if i is in the row, none otherwise.
LEMMA NarrowWriters ==
    ASSUME nchannel \in Widths, NWarps = 1, NEW i \in Nat
    PROVE  {x \in Lanes : i \in GradChannels(DataTid(x, 0))}
              = IF i < nchannel THEN {i % NThread} ELSE {}
<1>0. /\ NThread \in Nat \ {0} /\ NThread = WarpSize /\ Lanes = 0 .. NThread - 1
      /\ nchannel \in Nat
  <2>1. NThread = WarpSize * NWarps /\ WarpSize \in Nat /\ nchannel \in Nat
    BY RowShape, DataConstAssumption
  <2>2. NThread = WarpSize
    BY <2>1, SMT
  <2>. QED BY <2>2, RowShape DEF Lanes
<1>1. \A x \in Lanes : i \in GradChannels(DataTid(x, 0)) <=> i < nchannel /\ i % NThread = x
  <2> SUFFICES ASSUME NEW x \in Lanes
               PROVE  i \in GradChannels(DataTid(x, 0)) <=> i < nchannel /\ i % NThread = x
    OBVIOUS
  <2>1. (i >= x /\ (i - x) % NThread = 0) <=> i % NThread = x
    BY <1>0, GradStride
  <2>2. x \in Nat /\ (i \in 0 .. nchannel - 1 <=> i < nchannel)
    BY <1>0, SMT
  <2>. QED BY <2>1, <2>2 DEF GradChannels, DataTid
<1>2. i % NThread \in Lanes
  BY <1>0, SMT
<1>. QED BY <1>1, <1>2

\* The warp steps before step 2 neither start from nor reach "done".
LEMMA InnerNotDone ==
    ASSUME ControlOK, NEW y \in Warps,
           Accumulate(y) \/ ShflXor(y) \/ WriteUpper(y) \/ MergeLower(y)
           \/ BcastWrite(y) \/ BcastRead(y)
    PROVE  pc[y] # "done" /\ pc'[y] # "done" /\ UNCHANGED <<nchannel, grad>>
<1>1. CASE Accumulate(y) \/ ShflXor(y) \/ WriteUpper(y)
  BY <1>1 DEF ControlOK, Accumulate, ShflXor, WriteUpper
<1>2. CASE MergeLower(y) \/ BcastWrite(y) \/ BcastRead(y)
  BY <1>2 DEF ControlOK, MergeLower, BcastWrite, BcastRead
<1>. QED BY <1>1, <1>2

\* The kernel starts with no data_grad element written.
LEMMA InitGradInv == Init => GradInv
<1> SUFFICES ASSUME Init PROVE GradInv
  OBVIOUS
<1>1. pc[0] # "done"
  <2>1. 0 \in Warps
    BY DEF Warps, NWarps, MaxWarps
  <2>. QED BY <2>1 DEF Init
<1>. QED BY <1>1 DEF Init, GradInv, GradUnwritten

\* Step 2 of a single-warp block writes each element of the row once, from
\* the block total, which is the row; a wider block keeps data_grad's shape.
LEMMA WriteGradStep ==
    ASSUME IInv, GradInv, ReducedSums, NEW y \in Warps, WriteGrad(y)
    PROVE  GradInv'
<1>0. /\ nchannel \in Widths /\ pc \in [Warps -> PC]
      /\ nchannel' = nchannel /\ pc[y] = "grad" /\ pc' = [pc EXCEPT ![y] = "done"]
      /\ DOMAIN grad' = DOMAIN grad /\ DOMAIN grad = 0 .. MaxWidth - 1
  BY DEF IInv, ControlOK, WriteGrad, GradInv
<1>1. /\ NWarps' = NWarps /\ FullRow' = FullRow
      /\ GradWritten' = GradWritten /\ GradUnwritten' = GradUnwritten
  BY <1>0 DEF NWarps, FullRow, GradWritten, GradUnwritten
<1>2. CASE NWarps = 1
  <2>1. y = 0 /\ Warps = {0}
    BY <1>2 DEF Warps
  <2>2. pc[0] # "done" /\ pc'[0] = "done"
    BY <1>0, <2>1
  <2>3. \A x \in Lanes : t[0][x] = Sums(FullRow)
    BY <1>0, <1>2, <2>1, NarrowBlockTotal DEF ReducedSums
  <2>4. ASSUME NEW i \in DOMAIN grad
        PROVE  grad'[i] = IF i < nchannel THEN GradWritten ELSE GradUnwritten
    <3> DEFINE W == {x \in Lanes : i \in GradChannels(DataTid(x, y))}
    <3>1. i \in Nat /\ grad[i] = IF i < nchannel /\ pc[0] = "done" THEN GradWritten ELSE GradUnwritten
      BY <1>0, <1>2 DEF GradInv
    <3>2. W = IF i < nchannel THEN {i % NThread} ELSE {}
      BY <1>0, <1>2, <2>1, <3>1, NarrowWriters
    <3>3. grad'[i] = IF W = {} THEN grad[i]
                     ELSE LET x == CHOOSE x \in W : TRUE
                          IN [n |-> grad[i].n + Cardinality(W),
                              s0 |-> t[y][x].s0, s1 |-> t[y][x].s1]
      BY <2>4 DEF WriteGrad
    <3>4. CASE i < nchannel
      <4> DEFINE a == i % NThread
      <4>1. W = {a} /\ a \in Lanes
        BY <3>2, <3>4
      <4>2. Cardinality(W) = 1
        BY <4>1, FS_Singleton
      <4>3. (CHOOSE x \in W : TRUE) = a
        BY <4>1, Zenon
      <4>4. t[y][a].s0 = FullRow /\ t[y][a].s1 = FullRow /\ grad[i].n = 0
        BY <2>1, <2>2, <2>3, <3>1, <3>4, <4>1 DEF GradUnwritten, Sums
      <4>5. W # {}
        BY <4>1
      <4>6. grad'[i] = [n |-> grad[i].n + Cardinality(W), s0 |-> t[y][a].s0, s1 |-> t[y][a].s1]
        BY <3>3, <4>3, <4>5
      <4>7. grad'[i] = [n |-> 1, s0 |-> FullRow, s1 |-> FullRow]
        BY <4>2, <4>4, <4>6
      <4>. QED BY <3>4, <4>7 DEF GradWritten
    <3>5. CASE ~(i < nchannel)
      BY <2>2, <3>1, <3>2, <3>3, <3>5
    <3>. QED BY <3>4, <3>5
  <2>. QED BY <1>0, <1>1, <1>2, <2>2, <2>4 DEF GradInv
<1>3. CASE NWarps # 1
  BY <1>0, <1>1, <1>3 DEF GradInv
<1>. QED BY <1>2, <1>3

\* Every step of the block keeps the data_grad account, while the
\* all-reduces deliver the block total.
LEMMA NextGradInv ==
    ASSUME IInv, GradInv, ReducedSums, [Next]_vars
    PROVE  GradInv'
<1>1. CASE \E y \in Warps : WriteGrad(y)
  BY <1>1, WriteGradStep
<1>2. CASE \E y \in Warps :
             \/ Accumulate(y) \/ ShflXor(y) \/ WriteUpper(y) \/ MergeLower(y)
             \/ BcastWrite(y) \/ BcastRead(y)
  <2>1. PICK y \in Warps :
             \/ Accumulate(y) \/ ShflXor(y) \/ WriteUpper(y) \/ MergeLower(y)
             \/ BcastWrite(y) \/ BcastRead(y)
    BY <1>2
  <2>2. /\ pc[y] # "done" /\ pc'[y] # "done" /\ UNCHANGED <<nchannel, grad>>
        /\ pc' = [pc EXCEPT ![y] = pc'[y]] /\ pc \in [Warps -> PC]
    BY <2>1, InnerNotDone, WarpStepControl DEF IInv, ControlOK, Warp
  <2>3. 0 \in Warps /\ (pc'[0] = "done" <=> pc[0] = "done")
    <3>1. 0 \in Warps
      BY DEF Warps, NWarps, MaxWarps
    <3>. QED BY <2>2, <3>1
  <2>4. NWarps' = NWarps /\ FullRow' = FullRow
    BY <2>2 DEF NWarps, FullRow
  <2>. QED BY <2>2, <2>3, <2>4 DEF GradInv, GradWritten, GradUnwritten
<1>3. CASE Barrier
  <2>1. UNCHANGED <<nchannel, grad>> /\ 0 \in Warps
    BY <1>3 DEF Barrier, Warps, NWarps, MaxWarps
  <2>2. pc[0] # "done" /\ pc'[0] # "done"
    BY <1>3, <2>1 DEF Barrier, SyncPC
  <2>3. NWarps' = NWarps /\ FullRow' = FullRow
    BY <2>1 DEF NWarps, FullRow
  <2>. QED BY <2>1, <2>2, <2>3 DEF GradInv, GradWritten, GradUnwritten
<1>4. CASE Terminated \/ UNCHANGED vars
  BY <1>4 DEF Terminated, vars, GradInv, GradWritten, GradUnwritten, NWarps, FullRow
<1>. QED BY <1>1, <1>2, <1>3, <1>4 DEF Next, Warp

\* Once the single warp has returned, the account gives the whole row.
LEMMA GradInvComplete == IInv /\ GradInv => NarrowDataGradComplete
<1> SUFFICES ASSUME IInv, GradInv, NWarps = 1, AllDone PROVE
                 /\ \A i \in 0 .. nchannel - 1 :
                       grad[i] = [n |-> 1, s0 |-> FullRow, s1 |-> FullRow]
                 /\ \A i \in nchannel .. MaxWidth - 1 : grad[i].n = 0
  BY DEF NarrowDataGradComplete, DataGradComplete
<1>1. nchannel \in Nat /\ nchannel <= MaxWidth /\ MaxWidth \in Nat
  BY RowShape DEF IInv, ControlOK
<1>2. 0 \in Warps /\ pc[0] = "done"
  BY DEF AllDone, Warps, NWarps, MaxWarps
<1>3. \A i \in 0 .. nchannel - 1 : i \in 0 .. MaxWidth - 1 /\ i < nchannel
  BY <1>1, SMT
<1>4. \A i \in nchannel .. MaxWidth - 1 : i \in 0 .. MaxWidth - 1 /\ ~(i < nchannel)
  BY <1>1, SMT
<1>. QED BY <1>2, <1>3, <1>4 DEF GradInv, GradWritten, GradUnwritten

\* For a row that fits one warp (nchannel <= 32), when the block returns,
\* every data_grad element of the row has been written exactly once, from
\* sums over the whole row with each channel counted once, and none past
\* nchannel, whenever the two all-reduces deliver the block total:
\* LayerNormFusedBackwardKernel_Data's step 1 partitions the row among the
\* lanes and its step 2 gives each element one lane.
THEOREM NarrowGradComplete == Spec /\ []ReducedSums => []NarrowDataGradComplete
<1>1. Init => IInv /\ GradInv
  BY InitIInv, InitGradInv
<1>2. IInv /\ GradInv /\ ReducedSums /\ [Next]_vars => (IInv /\ GradInv)'
  BY NextIInv, NextGradInv
<1>3. IInv /\ GradInv => NarrowDataGradComplete
  BY GradInvComplete
<1>. QED BY <1>1, <1>2, <1>3, PTL DEF Spec
=============================================================================
