----------------- MODULE LayerNormBackwardGammaBetaProofs -----------------
(***************************************************************************)
(* The GammaBeta kernel's loops partition the row, for every warp size,    *)
(* block height, LOAD_UNROLL and set of widths.                            *)
(*                                                                         *)
(* Thread tid's chunk loop visits the chunks tid, tid + NThread, ... of    *)
(* LOAD_UNROLL channels while they are whole, and its tail loop the        *)
(* channels from its first chunk that is not whole to nchannel.  Channel   *)
(* c therefore has one owner: the thread ChunkOf(c) % NThread, reaching it *)
(* in iteration ChunkOf(c) \div NThread (ChunkCover, TailCover).  The      *)
(* inductive invariant PartInv counts the visits of every channel from    *)
(* its owner's loop counter and program counter (VisitsInv), records that *)
(* a warp leaves its chunk loop only past all its whole chunks (ExitInv), *)
(* and ties the kAddTo and kNullOp gradient elements to the visits        *)
(* (GradInv).  ChannelPartition and AddToGradComplete follow once every   *)
(* warp is done.  The kWriteTo and statistics properties are violated by  *)
(* the code and stay with TLC.                                             *)
(***************************************************************************)
EXTENDS LayerNormBackwardGammaBeta, TLAPS

\* The LOAD_UNROLL-wide chunk of channel c, the thread whose grid-stride
\* loop owns it, that thread's warp, and the loop iteration that reaches it.
ChunkOf(c) == c \div LoadUnroll
OwnerTid(c) == ChunkOf(c) % NThread
OwnerWarp(c) == OwnerTid(c) \div WarpSize
Iter(c) == ChunkOf(c) \div NThread
\* Channel c lies in a whole chunk, summed by the chunk loop.
InWhole(c) == Whole(LoadUnroll * ChunkOf(c))

\* How often each channel has been summed so far: once by its owner's
\* chunk loop when that loop has passed it, once by its owner's tail loop
\* when that warp has finished.
VisitsInv ==
    \A c \in 0 .. MaxWidth - 1 :
        visits[c] = (IF InWhole(c) /\ Iter(c) < k[OwnerWarp(c)] THEN 1 ELSE 0)
                  + (IF ~InWhole(c) /\ c < nchannel /\ pc[OwnerWarp(c)] = "done" THEN 1 ELSE 0)

\* A warp leaves its chunk loop only after all its whole chunks.
ExitInv ==
    \A c \in 0 .. MaxWidth - 1 :
        InWhole(c) /\ pc[OwnerWarp(c)] # "chunk" => Iter(c) < k[OwnerWarp(c)]

\* The gradient elements under the accumulating and the null requests.
GradInv ==
    \A c \in 0 .. MaxWidth - 1 :
        /\ greq = "null" => gg[c] = Old
        /\ greq = "addto" => gg[c].old = 1 /\ gg[c].n = visits[c]
        /\ breq = "null" => bg[c] = Old
        /\ breq = "addto" => bg[c].old = 1 /\ bg[c].n = visits[c]

PartInv == TypeOK /\ VisitsInv /\ ExitInv /\ GradInv

-----------------------------------------------------------------------------
(* Arithmetic of the chunked grid-stride loop.                             *)

\* The block shape and the widths the kernel is launched with.
LEMMA Shape ==
    /\ WarpSize \in Nat \ {0} /\ NWarps \in Nat \ {0} /\ LoadUnroll \in Nat \ {0}
    /\ NThread \in Nat \ {0}
    /\ MaxWidth \in Widths /\ \A v \in Widths : v <= MaxWidth
    /\ Widths \subseteq Nat \ {0}
<1>1. WarpSize \in Nat \ {0} /\ NWarps \in Nat \ {0} /\ LoadUnroll \in Nat \ {0}
      /\ Widths \subseteq Nat \ {0}
  BY GammaBetaConstAssumption
<1>2. NThread \in Nat \ {0}
  BY <1>1, SMT DEF NThread
<1>3. MaxWidth \in Widths /\ \A v \in Widths : v <= MaxWidth
  BY WidestWidthAssumption DEF MaxWidth
<1>. QED BY <1>1, <1>2, <1>3

\* Products keep the order of their factors.
LEMMA MulMono ==
    ASSUME NEW d \in Nat \ {0}, NEW a \in Nat, NEW b \in Nat, a < b
    PROVE  d * a <= d * b - d
BY SMT

\* Division with remainder.
LEMMA DivMod ==
    ASSUME NEW d \in Nat \ {0}, NEW c \in Nat
    PROVE  c = d * (c \div d) + (c % d) /\ c % d \in 0 .. d - 1 /\ c \div d \in Nat
BY SMT

\* A number d * q + r with r < d has quotient q and remainder r.
LEMMA DivUnique ==
    ASSUME NEW d \in Nat \ {0}, NEW q \in Nat, NEW c \in Nat, c - d * q \in 0 .. d - 1
    PROVE  c \div d = q /\ c % d = c - d * q
<1>1. c = d * (c \div d) + (c % d) /\ c % d \in 0 .. d - 1 /\ c \div d \in Nat
  BY SMT
<1>2. ~(c \div d < q)
  <2>. SUFFICES ASSUME c \div d < q PROVE FALSE
    OBVIOUS
  <2>1. d * (c \div d) <= d * q - d
    BY <1>1, MulMono
  <2>. QED BY <1>1, <2>1, SMT
<1>3. ~(q < c \div d)
  <2>. SUFFICES ASSUME q < c \div d PROVE FALSE
    OBVIOUS
  <2>1. d * q <= d * (c \div d) - d
    BY <1>1, MulMono
  <2>. QED BY <1>1, <2>1, SMT
<1>. QED BY <1>1, <1>2, <1>3, SMT

\* Thread tid's chunk of iteration j is chunk tid + NThread * j.
LEMMA ChunkIndex ==
    ASSUME NEW tid \in 0 .. NThread - 1, NEW j \in Nat
    PROVE  /\ ChunkStart(tid, j) = LoadUnroll * (tid + NThread * j)
           /\ (tid + NThread * j) % NThread = tid
           /\ (tid + NThread * j) \div NThread = j
<1>1. ChunkStart(tid, j) = LoadUnroll * (tid + NThread * j)
  BY Shape, SMT DEF ChunkStart
<1>2. /\ (tid + NThread * j) - NThread * j \in 0 .. NThread - 1
      /\ tid + NThread * j \in Nat
  BY Shape, SMT
<1>3. /\ (tid + NThread * j) \div NThread = j
      /\ (tid + NThread * j) % NThread = (tid + NThread * j) - NThread * j
  BY <1>2, Shape, DivUnique
<1>. QED BY <1>1, <1>3, Shape, SMT

\* Lane x of warp y is thread x + y * WarpSize, below NThread.
LEMMA TidRange ==
    ASSUME NEW y \in Warps, NEW x \in Lanes
    PROVE  /\ Tid(x, y) \in 0 .. NThread - 1
           /\ Tid(x, y) % WarpSize = x /\ Tid(x, y) \div WarpSize = y
<1>1. Tid(x, y) \in 0 .. NThread - 1
  BY Shape, SMT DEF Tid, Warps, Lanes, NThread
<1>2. /\ Tid(x, y) - WarpSize * y \in 0 .. WarpSize - 1
      /\ Tid(x, y) \in Nat /\ y \in Nat
  BY Shape, SMT DEF Tid, Lanes, Warps
<1>3. Tid(x, y) \div WarpSize = y /\ Tid(x, y) % WarpSize = Tid(x, y) - WarpSize * y
  BY <1>2, Shape, DivUnique
<1>. QED BY <1>1, <1>3, Shape, SMT DEF Tid, Lanes

\* Every channel has an owner thread in the block.
LEMMA OwnerRange ==
    ASSUME NEW c \in Nat
    PROVE  /\ ChunkOf(c) \in Nat /\ Iter(c) \in Nat
           /\ OwnerTid(c) \in 0 .. NThread - 1
           /\ OwnerWarp(c) \in Warps
           /\ OwnerTid(c) % WarpSize \in Lanes
           /\ Tid(OwnerTid(c) % WarpSize, OwnerWarp(c)) = OwnerTid(c)
           /\ ChunkOf(c) = OwnerTid(c) + NThread * Iter(c)
           /\ c - LoadUnroll * ChunkOf(c) \in 0 .. LoadUnroll - 1
<1>1. /\ ChunkOf(c) \in Nat /\ Iter(c) \in Nat
      /\ OwnerTid(c) \in 0 .. NThread - 1
      /\ ChunkOf(c) = OwnerTid(c) + NThread * Iter(c)
      /\ c - LoadUnroll * ChunkOf(c) \in 0 .. LoadUnroll - 1
  <2>1. c = LoadUnroll * ChunkOf(c) + (c % LoadUnroll) /\ c % LoadUnroll \in 0 .. LoadUnroll - 1
    BY Shape, SMT DEF ChunkOf
  <2>2. ChunkOf(c) \in Nat
    BY Shape, SMT DEF ChunkOf
  <2>3. /\ ChunkOf(c) = NThread * Iter(c) + (OwnerTid(c))
        /\ OwnerTid(c) \in 0 .. NThread - 1 /\ Iter(c) \in Nat
    BY <2>2, Shape, SMT DEF Iter, OwnerTid
  <2>. QED BY <2>1, <2>2, <2>3, Shape, SMT
<1>2. /\ OwnerWarp(c) \in 0 .. NWarps - 1
      /\ OwnerTid(c) % WarpSize \in 0 .. WarpSize - 1
      /\ OwnerTid(c) = (OwnerTid(c) % WarpSize) + OwnerWarp(c) * WarpSize
  <2>1. OwnerTid(c) = WarpSize * OwnerWarp(c) + (OwnerTid(c) % WarpSize)
        /\ OwnerTid(c) % WarpSize \in 0 .. WarpSize - 1 /\ OwnerWarp(c) \in Nat
    <3>1. OwnerTid(c) \in Nat /\ WarpSize \in Nat \ {0}
      BY <1>1, Shape
    <3>. QED BY <3>1, DivMod DEF OwnerWarp
  <2>2. OwnerWarp(c) < NWarps
    <3>1. WarpSize * OwnerWarp(c) < WarpSize * NWarps
      BY <1>1, <2>1, Shape, SMT DEF NThread
    <3>. QED BY <3>1, <2>1, Shape, SMT
  <2>. QED BY <2>1, <2>2, Shape, SMT
<1>. QED BY <1>1, <1>2 DEF Warps, Lanes, Tid

\* The chunk iteration of warp y sums exactly the whole-chunk channels that
\* warp y owns for its current iteration.
LEMMA ChunkCover ==
    ASSUME NEW y \in Warps, NEW kk \in Nat, NEW c \in 0 .. MaxWidth - 1
    PROVE  (\E x \in Lanes : Whole(ChunkStart(Tid(x, y), kk))
                             /\ c - ChunkStart(Tid(x, y), kk) \in 0 .. LoadUnroll - 1)
           <=> (InWhole(c) /\ OwnerWarp(c) = y /\ Iter(c) = kk)
<1>0. c \in Nat
  BY Shape, SMT
<1>1. ASSUME NEW x \in Lanes, Whole(ChunkStart(Tid(x, y), kk)),
             c - ChunkStart(Tid(x, y), kk) \in 0 .. LoadUnroll - 1
      PROVE  InWhole(c) /\ OwnerWarp(c) = y /\ Iter(c) = kk
  <2>. DEFINE tid == Tid(x, y)
              q == tid + NThread * kk
  <2>1. tid \in 0 .. NThread - 1 /\ tid \div WarpSize = y
    BY TidRange
  <2>2. ChunkStart(tid, kk) = LoadUnroll * q /\ q % NThread = tid /\ q \div NThread = kk
    BY <2>1, ChunkIndex
  <2>3. q \in Nat
    BY <2>1, Shape, SMT
  <2>4. ChunkOf(c) = q
    BY <1>0, <1>1, <2>2, <2>3, Shape, DivUnique DEF ChunkOf
  <2>. QED BY <1>1, <2>1, <2>2, <2>4 DEF InWhole, OwnerWarp, OwnerTid, Iter
<1>2. ASSUME InWhole(c), OwnerWarp(c) = y, Iter(c) = kk
      PROVE  \E x \in Lanes : Whole(ChunkStart(Tid(x, y), kk))
                              /\ c - ChunkStart(Tid(x, y), kk) \in 0 .. LoadUnroll - 1
  <2>1. /\ OwnerTid(c) \in 0 .. NThread - 1
        /\ OwnerTid(c) % WarpSize \in Lanes
        /\ Tid(OwnerTid(c) % WarpSize, y) = OwnerTid(c)
        /\ ChunkOf(c) = OwnerTid(c) + NThread * kk
        /\ c - LoadUnroll * ChunkOf(c) \in 0 .. LoadUnroll - 1
    BY <1>0, <1>2, OwnerRange
  <2>2. ChunkStart(OwnerTid(c), kk) = LoadUnroll * ChunkOf(c)
    BY <2>1, ChunkIndex
  <2>. QED BY <1>2, <2>1, <2>2 DEF InWhole
<1>. QED BY <1>1, <1>2

\* Multiples of d up to R are the multiples of d by at most R \div d.
LEMMA DivLe ==
    ASSUME NEW d \in Nat \ {0}, NEW r \in Nat, NEW i \in Nat
    PROVE  d * i <= r <=> i <= r \div d
<1>1. r = d * (r \div d) + (r % d) /\ r % d \in 0 .. d - 1 /\ r \div d \in Nat
  BY DivMod
<1>2. ASSUME i <= r \div d PROVE d * i <= r
  <2>1. d * i <= d * (r \div d)
    BY <1>1, <1>2, SMT
  <2>. QED BY <1>1, <2>1, SMT
<1>3. ASSUME r \div d < i PROVE ~(d * i <= r)
  <2>1. d * (r \div d) <= d * i - d
    BY <1>1, <1>3, MulMono
  <2>. QED BY <1>1, <2>1, SMT
<1>. QED BY <1>1, <1>2, <1>3, SMT

\* Chunk starts of one thread grow with the iteration.
LEMMA ChunkStartMono ==
    ASSUME NEW tid \in Nat, NEW i \in Nat, NEW j \in Nat, i <= j
    PROVE  ChunkStart(tid, i) <= ChunkStart(tid, j)
<1>1. LoadUnroll * NThread * i <= LoadUnroll * NThread * j
  <2>1. LoadUnroll * NThread \in Nat \ {0}
    BY Shape, SMT
  <2>. QED BY <2>1, SMT
<1>. QED BY <1>1, Shape, SMT DEF ChunkStart

\* The iteration at which a thread leaves its chunk loop: its first chunk
\* that is not whole, found within 0 .. MaxWidth.
ExitIter(tid) ==
    CHOOSE j \in 0 .. MaxWidth :
        ~Whole(ChunkStart(tid, j)) /\ \A i \in 0 .. j - 1 : Whole(ChunkStart(tid, i))

\* Every thread leaves its chunk loop within MaxWidth iterations, at its
\* first chunk that is not whole.
LEMMA ExitIterSpec ==
    ASSUME NEW tid \in 0 .. NThread - 1, nchannel \in Widths
    PROVE  /\ ExitIter(tid) \in 0 .. MaxWidth
           /\ ~Whole(ChunkStart(tid, ExitIter(tid)))
           /\ \A i \in 0 .. ExitIter(tid) - 1 : Whole(ChunkStart(tid, i))
           /\ ExitStart(tid) = ChunkStart(tid, ExitIter(tid))
<1>0. nchannel \in Nat \ {0} /\ nchannel <= MaxWidth /\ MaxWidth \in Nat
  BY Shape
<1>1. \E j \in 0 .. MaxWidth :
        ~Whole(ChunkStart(tid, j)) /\ \A i \in 0 .. j - 1 : Whole(ChunkStart(tid, i))
  <2>1. CASE ~Whole(ChunkStart(tid, 0))
    BY <2>1, <1>0, SMT
  <2>2. CASE Whole(ChunkStart(tid, 0))
    <3>. DEFINE D == LoadUnroll * NThread
                R == nchannel - LoadUnroll - LoadUnroll * tid
                J == R \div D + 1
    <3>1. D \in Nat \ {0} /\ R \in Nat
      BY <2>2, <1>0, Shape, SMT DEF ChunkStart, Whole
    <3>2. \A i \in Nat : Whole(ChunkStart(tid, i)) <=> D * i <= R
      BY <1>0, Shape, SMT DEF ChunkStart, Whole
    <3>3. \A i \in Nat : D * i <= R <=> i <= R \div D
      BY <3>1, DivLe
    <3>4. R \div D <= R /\ R \div D \in Nat
      BY <3>1, SMT
    <3>5. J \in 0 .. MaxWidth
      BY <3>4, <1>0, Shape, SMT
    <3>6. ~Whole(ChunkStart(tid, J)) /\ \A i \in 0 .. J - 1 : Whole(ChunkStart(tid, i))
      BY <3>2, <3>3, <3>4, SMT
    <3>. QED BY <3>5, <3>6
  <2>. QED BY <2>1, <2>2
<1>. QED BY <1>1 DEF ExitIter, ExitStart

\* The tail loops of warp y sum exactly the channels of the row that lie
\* in no whole chunk and that warp y owns.
LEMMA TailCover ==
    ASSUME NEW y \in Warps, nchannel \in Widths, NEW c \in 0 .. MaxWidth - 1
    PROVE  (\E x \in Lanes : ExitStart(Tid(x, y)) <= c /\ c < nchannel)
           <=> (~InWhole(c) /\ c < nchannel /\ OwnerWarp(c) = y)
<1>0. c \in Nat /\ nchannel \in Nat
  BY Shape, SMT
<1>1. ASSUME NEW x \in Lanes, ExitStart(Tid(x, y)) <= c, c < nchannel
      PROVE  ~InWhole(c) /\ OwnerWarp(c) = y
  <2>. DEFINE tid == Tid(x, y)
              J == ExitIter(tid)
              q == tid + NThread * J
  <2>1. tid \in 0 .. NThread - 1 /\ tid \div WarpSize = y
    BY TidRange
  <2>2. J \in 0 .. MaxWidth /\ ~Whole(ChunkStart(tid, J)) /\ ExitStart(tid) = ChunkStart(tid, J)
    BY <2>1, ExitIterSpec
  <2>3. ChunkStart(tid, J) = LoadUnroll * q /\ q % NThread = tid /\ q \div NThread = J
    BY <2>1, <2>2, ChunkIndex
  <2>4. q \in Nat /\ c - LoadUnroll * q \in 0 .. LoadUnroll - 1
    BY <1>0, <1>1, <2>1, <2>2, <2>3, Shape, SMT DEF Whole
  <2>5. ChunkOf(c) = q
    BY <1>0, <2>4, Shape, DivUnique DEF ChunkOf
  <2>. QED BY <2>1, <2>2, <2>3, <2>5 DEF InWhole, OwnerWarp, OwnerTid
<1>2. ASSUME ~InWhole(c), c < nchannel, OwnerWarp(c) = y
      PROVE  \E x \in Lanes : ExitStart(Tid(x, y)) <= c
  <2>. DEFINE tid == OwnerTid(c)
              x == tid % WarpSize
  <2>1. /\ tid \in 0 .. NThread - 1 /\ x \in Lanes /\ Tid(x, y) = tid
        /\ ChunkOf(c) = tid + NThread * Iter(c) /\ Iter(c) \in Nat
        /\ c - LoadUnroll * ChunkOf(c) \in 0 .. LoadUnroll - 1
    BY <1>0, <1>2, OwnerRange
  <2>2. ChunkStart(tid, Iter(c)) = LoadUnroll * ChunkOf(c)
    BY <2>1, ChunkIndex
  <2>3. /\ ExitIter(tid) \in 0 .. MaxWidth
        /\ \A i \in 0 .. ExitIter(tid) - 1 : Whole(ChunkStart(tid, i))
        /\ ExitStart(tid) = ChunkStart(tid, ExitIter(tid))
    BY <2>1, ExitIterSpec
  <2>4. ExitIter(tid) <= Iter(c)
    BY <1>2, <2>1, <2>2, <2>3, SMT DEF InWhole
  <2>5. ChunkStart(tid, ExitIter(tid)) <= ChunkStart(tid, Iter(c))
    BY <2>1, <2>3, <2>4, ChunkStartMono
  <2>6. ExitStart(tid) <= c
    <3>1. LoadUnroll * ChunkOf(c) <= c /\ ChunkOf(c) \in Nat
      BY <1>0, <2>1, Shape, SMT
    <3>. QED BY <2>1, <2>2, <2>3, <2>5, <3>1, Shape, SMT DEF ChunkStart
  <2>7. ExitStart(Tid(x, y)) <= c
    BY <2>1, <2>6
  <2>. QED BY <2>1, <2>7
<1>. QED BY <1>1, <1>2

-----------------------------------------------------------------------------
(* The type invariant.                                                     *)

StatT == [0 .. nbatch - 1 -> Nat \cup {Garbage}]

\* The batch sums the kernel writes are statistics vectors.
LEMMA SumType ==
    ASSUME NEW c \in Nat
    PROVE  GammaSum(c) \in StatT /\ BetaSum \in StatT
BY DEF GammaSum, BetaSum, StatRow, StatT

\* Every write of the kernel keeps an element a gradient element.
LEMMA WriteType ==
    ASSUME NEW e \in GradElem, NEW req, NEW s \in StatT
    PROVE  ChunkWrite(e, req, s) \in GradElem /\ TailWrite(e, req, s) \in GradElem
BY DEF ChunkWrite, TailWrite, AddTo, Assign, GradElem, StatT

\* A warp iterates its chunk loop at most MaxIter times.
LEMMA IterBound ==
    ASSUME nchannel \in Widths, NEW y \in Warps, NEW kk \in Nat,
           NEW x \in Lanes, Whole(ChunkStart(Tid(x, y), kk))
    PROVE  kk + 1 \in 0 .. MaxIter
<1>. DEFINE D == LoadUnroll * NThread
<1>1. D \in Nat \ {0} /\ MaxWidth \in Nat /\ nchannel <= MaxWidth
  BY Shape, SMT
<1>2. Tid(x, y) \in 0 .. NThread - 1
  BY TidRange
<1>3. D * kk <= MaxWidth
  BY <1>1, <1>2, Shape, SMT DEF Whole, ChunkStart
<1>4. kk <= MaxWidth \div D
  BY <1>1, <1>3, DivLe
<1>. QED BY <1>1, <1>4, SMT DEF MaxIter

\* The kernel starts well typed: untouched buffers, every warp at k = 0.
LEMMA InitTypeOK == Init => TypeOK
<1> SUFFICES ASSUME Init PROVE TypeOK
  OBVIOUS
<1>1. Old \in GradElem
  BY DEF Old, GradElem
<1>2. k \in [Warps -> 0 .. MaxIter]
  BY Shape, SMT DEF Init, MaxIter
<1>. QED BY <1>1, <1>2 DEF Init, TypeOK

\* Every loop step of every warp keeps the model well typed.
LEMMA NextTypeOK == TypeOK /\ [Next]_vars => TypeOK'
<1> SUFFICES ASSUME TypeOK, [Next]_vars PROVE TypeOK'
  OBVIOUS
<1>0. /\ nchannel \in Widths /\ nbatch \in Batches
      /\ gg \in [0 .. MaxWidth - 1 -> GradElem] /\ bg \in [0 .. MaxWidth - 1 -> GradElem]
      /\ visits \in [0 .. MaxWidth - 1 -> Nat]
      /\ k \in [Warps -> 0 .. MaxIter]
      /\ \A c \in 0 .. MaxWidth - 1 : GammaSum(c) \in StatT /\ BetaSum \in StatT
  BY SumType DEF TypeOK
<1>1. ASSUME NEW y \in Warps, ChunkIteration(y) PROVE TypeOK'
  <2>1. k'[y] \in 0 .. MaxIter
    BY <1>0, <1>1, IterBound DEF ChunkIteration, InChunkLoop
  <2>2. gg' \in [0 .. MaxWidth - 1 -> GradElem] /\ bg' \in [0 .. MaxWidth - 1 -> GradElem]
    BY <1>0, <1>1, WriteType DEF ChunkIteration
  <2>3. visits' \in [0 .. MaxWidth - 1 -> Nat]
    BY <1>0, <1>1 DEF ChunkIteration
  <2>4. GradElem' = GradElem
    BY <1>1 DEF ChunkIteration, GradElem
  <2>. QED BY <1>1, <2>1, <2>2, <2>3, <2>4 DEF ChunkIteration, TypeOK
<1>2. ASSUME NEW y \in Warps, ChunkExit(y) PROVE TypeOK'
  BY <1>2 DEF ChunkExit, TypeOK, GradElem
<1>3. ASSUME NEW y \in Warps, Tail(y) PROVE TypeOK'
  <2>1. gg' \in [0 .. MaxWidth - 1 -> GradElem] /\ bg' \in [0 .. MaxWidth - 1 -> GradElem]
    BY <1>0, <1>3, WriteType DEF Tail
  <2>2. visits' \in [0 .. MaxWidth - 1 -> Nat]
    BY <1>0, <1>3 DEF Tail
  <2>3. GradElem' = GradElem
    BY <1>3 DEF Tail, GradElem
  <2>. QED BY <1>3, <2>1, <2>2, <2>3 DEF Tail, TypeOK
<1>4. CASE Terminated \/ UNCHANGED vars
  BY <1>4 DEF Terminated, vars, TypeOK, GradElem
<1>. QED BY <1>1, <1>2, <1>3, <1>4 DEF Next

\* The type invariant holds in every reachable state, for every block
\* shape, load width, set of widths and batch sizes.
THEOREM GammaBetaTypeCorrect == Spec => []TypeOK
BY InitTypeOK, NextTypeOK, PTL DEF Spec

-----------------------------------------------------------------------------
(* The partition of the row among the loops of all threads.               *)

\* Before the loops nothing has been summed and every warp is in its chunk
\* loop.
LEMMA InitPart == Init => PartInv
<1> SUFFICES ASSUME Init PROVE PartInv
  OBVIOUS
<1>1. TypeOK
  BY InitTypeOK
<1>2. VisitsInv
  <2>1. \A c \in 0 .. MaxWidth - 1 : Iter(c) \in Nat /\ OwnerWarp(c) \in Warps
    BY Shape, OwnerRange
  <2>. QED BY <2>1, SMT DEF Init, VisitsInv
<1>3. ExitInv
  BY Shape, OwnerRange DEF Init, ExitInv
<1>4. GradInv
  BY DEF Init, GradInv, Old
<1>. QED BY <1>1, <1>2, <1>3, <1>4 DEF PartInv

\* Whether a channel lies in a whole chunk depends on the width alone.
LEMMA InWholeStable ==
    ASSUME nchannel' = nchannel
    PROVE  \A c : InWhole(c)' = InWhole(c)
BY DEF InWhole, Whole

\* Every buffer channel has an owner warp and an iteration, and a step that
\* keeps the width keeps which channels lie in whole chunks.
LEMMA ChannelStable ==
    ASSUME nchannel' = nchannel
    PROVE  \A c \in 0 .. MaxWidth - 1 :
              /\ Iter(c) \in Nat /\ OwnerWarp(c) \in Warps
              /\ InWhole(c)' = InWhole(c)
<1> SUFFICES ASSUME NEW c \in 0 .. MaxWidth - 1
             PROVE  Iter(c) \in Nat /\ OwnerWarp(c) \in Warps /\ InWhole(c)' = InWhole(c)
  OBVIOUS
<1>1. c \in Nat
  BY Shape, SMT
<1>2. Iter(c) \in Nat /\ OwnerWarp(c) \in Warps
  BY <1>1, OwnerRange
<1>3. InWhole(c)' = InWhole(c)
  BY InWholeStable
<1>. QED BY <1>2, <1>3

\* A chunk iteration of warp y keeps the invariant.
LEMMA ChunkIterationPart ==
    ASSUME PartInv, TypeOK', NEW y \in Warps, ChunkIteration(y)
    PROVE  PartInv'
<1>0. /\ k \in [Warps -> 0 .. MaxIter] /\ pc[y] = "chunk"
      /\ nchannel \in Widths /\ nchannel' = nchannel /\ pc' = pc
      /\ greq' = greq /\ breq' = breq
      /\ k' = [k EXCEPT ![y] = k[y] + 1] /\ MaxIter \in Nat
  BY Shape, SMT DEF PartInv, TypeOK, ChunkIteration, MaxIter
<1>1. \A c \in 0 .. MaxWidth - 1 :
         c \in ChunkChannels(y) <=> (InWhole(c) /\ OwnerWarp(c) = y /\ Iter(c) = k[y])
  BY <1>0, ChunkCover DEF ChunkChannels, InChunkLoop
<1>2. \A c \in 0 .. MaxWidth - 1 :
         /\ Iter(c) \in Nat /\ OwnerWarp(c) \in Warps
         /\ InWhole(c)' = InWhole(c)
  BY <1>0, ChannelStable
<1>3. VisitsInv'
  <2> SUFFICES ASSUME NEW c \in 0 .. MaxWidth - 1
               PROVE  visits'[c] =
                        (IF InWhole(c) /\ Iter(c) < k'[OwnerWarp(c)] THEN 1 ELSE 0)
                      + (IF ~InWhole(c) /\ c < nchannel /\ pc[OwnerWarp(c)] = "done" THEN 1 ELSE 0)
    BY <1>0, <1>2 DEF VisitsInv
  <2>1. visits'[c] = IF c \in ChunkChannels(y) THEN visits[c] + 1 ELSE visits[c]
    BY DEF ChunkIteration, PartInv, TypeOK
  <2>. QED BY <1>0, <1>1, <1>2, <2>1 DEF PartInv, VisitsInv
<1>4. ExitInv'
  <2>1. \A c \in 0 .. MaxWidth - 1 : pc[OwnerWarp(c)] # "chunk" => OwnerWarp(c) # y
    BY <1>0
  <2>. QED BY <1>0, <1>2, <2>1 DEF PartInv, ExitInv
<1>5. GradInv'
  <2> SUFFICES ASSUME NEW c \in 0 .. MaxWidth - 1
               PROVE  GradInv!(c)'
    BY DEF GradInv
  <2>1. /\ gg'[c] = IF c \in ChunkChannels(y) /\ greq # "null"
                    THEN ChunkWrite(gg[c], greq, GammaSum(c)) ELSE gg[c]
        /\ bg'[c] = IF c \in ChunkChannels(y) /\ breq # "null"
                    THEN ChunkWrite(bg[c], breq, BetaSum) ELSE bg[c]
        /\ visits'[c] = IF c \in ChunkChannels(y) THEN visits[c] + 1 ELSE visits[c]
    BY DEF ChunkIteration, PartInv, TypeOK
  <2>. QED BY <1>0, <2>1 DEF PartInv, GradInv, ChunkWrite, AddTo
<1>. QED BY <1>3, <1>4, <1>5 DEF PartInv


\* A warp leaves its chunk loop only when no lane of it has a whole chunk
\* left, so every whole chunk it owns was summed.
LEMMA ChunkExitPart ==
    ASSUME PartInv, TypeOK', NEW y \in Warps, ChunkExit(y)
    PROVE  PartInv'
<1>0. /\ k \in [Warps -> 0 .. MaxIter] /\ pc \in [Warps -> {"chunk", "tail", "done"}]
      /\ pc[y] = "chunk" /\ nchannel \in Widths /\ nchannel' = nchannel
      /\ pc' = [pc EXCEPT ![y] = "tail"]
      /\ UNCHANGED <<greq, breq, k, gg, bg, visits>>
  BY DEF PartInv, TypeOK, ChunkExit
<1>1. \A c \in 0 .. MaxWidth - 1 :
         /\ Iter(c) \in Nat /\ OwnerWarp(c) \in Warps
         /\ InWhole(c)' = InWhole(c)
  BY <1>0, ChannelStable
<1>2. \A w \in Warps : (pc'[w] = "done") = (pc[w] = "done")
  BY <1>0
<1>3. VisitsInv'
  BY <1>0, <1>1, <1>2 DEF PartInv, VisitsInv
<1>4. ASSUME NEW c \in 0 .. MaxWidth - 1, InWhole(c), OwnerWarp(c) = y
      PROVE  Iter(c) < k[y]
  <2>. DEFINE tid == OwnerTid(c)
              x == tid % WarpSize
  <2>1. /\ tid \in 0 .. NThread - 1 /\ x \in Lanes /\ Tid(x, y) = tid
        /\ ChunkOf(c) = tid + NThread * Iter(c) /\ Iter(c) \in Nat
    BY <1>4, Shape, SMT, OwnerRange
  <2>2. ChunkStart(tid, Iter(c)) = LoadUnroll * ChunkOf(c)
    BY <2>1, ChunkIndex
  <2>3. ~Whole(ChunkStart(tid, k[y]))
    BY <1>0, <2>1 DEF ChunkExit, InChunkLoop
  <2>4. SUFFICES ASSUME k[y] <= Iter(c) PROVE FALSE
    BY <1>0, <2>1, SMT
  <2>5. ChunkStart(tid, k[y]) <= ChunkStart(tid, Iter(c))
    BY <1>0, <2>1, <2>4, ChunkStartMono
  <2>6. ChunkStart(tid, k[y]) \in Nat /\ ChunkStart(tid, Iter(c)) \in Nat
    BY <1>0, <2>1, Shape, SMT DEF ChunkStart
  <2>7. nchannel \in Nat
    BY <1>0, Shape
  <2>. QED BY <1>4, <2>2, <2>3, <2>5, <2>6, <2>7, Shape, SMT DEF InWhole, Whole
<1>5. ExitInv'
  <2> SUFFICES ASSUME NEW c \in 0 .. MaxWidth - 1, InWhole(c), pc'[OwnerWarp(c)] # "chunk"
               PROVE  Iter(c) < k[OwnerWarp(c)]
    BY <1>0, <1>1 DEF ExitInv
  <2>1. CASE OwnerWarp(c) = y
    BY <2>1, <1>4
  <2>2. CASE OwnerWarp(c) # y
    BY <2>2, <1>0, <1>1 DEF PartInv, ExitInv
  <2>. QED BY <2>1, <2>2
<1>6. GradInv'
  BY <1>0 DEF PartInv, GradInv
<1>. QED BY <1>3, <1>5, <1>6 DEF PartInv

\* The tail loops of warp y sum the channels it owns outside whole chunks,
\* and the warp is done.
LEMMA TailPart ==
    ASSUME PartInv, TypeOK', NEW y \in Warps, Tail(y)
    PROVE  PartInv'
<1>0. /\ pc \in [Warps -> {"chunk", "tail", "done"}]
      /\ pc[y] = "tail" /\ nchannel \in Widths /\ nchannel' = nchannel
      /\ pc' = [pc EXCEPT ![y] = "done"]
      /\ UNCHANGED <<greq, breq, k>>
  BY DEF PartInv, TypeOK, Tail
<1>1. \A c \in 0 .. MaxWidth - 1 :
         c \in TailChannels(y) <=> (~InWhole(c) /\ c < nchannel /\ OwnerWarp(c) = y)
  BY <1>0, TailCover DEF TailChannels
<1>2. \A c \in 0 .. MaxWidth - 1 :
         /\ Iter(c) \in Nat /\ OwnerWarp(c) \in Warps
         /\ InWhole(c)' = InWhole(c)
  BY <1>0, ChannelStable
<1>3. VisitsInv'
  <2> SUFFICES ASSUME NEW c \in 0 .. MaxWidth - 1
               PROVE  visits'[c] =
                        (IF InWhole(c) /\ Iter(c) < k[OwnerWarp(c)] THEN 1 ELSE 0)
                      + (IF ~InWhole(c) /\ c < nchannel /\ pc'[OwnerWarp(c)] = "done" THEN 1 ELSE 0)
    BY <1>0, <1>2 DEF VisitsInv
  <2>1. visits'[c] = IF c \in TailChannels(y) THEN visits[c] + 1 ELSE visits[c]
    BY DEF Tail, PartInv, TypeOK
  <2>. QED BY <1>0, <1>1, <1>2, <2>1 DEF PartInv, VisitsInv
<1>4. ExitInv'
  <2>1. \A w \in Warps : pc'[w] # "chunk" => pc[w] # "chunk"
    BY <1>0
  <2>. QED BY <1>0, <1>2, <2>1 DEF PartInv, ExitInv
<1>5. GradInv'
  <2> SUFFICES ASSUME NEW c \in 0 .. MaxWidth - 1
               PROVE  GradInv!(c)'
    BY DEF GradInv
  <2>1. /\ gg'[c] = IF c \in TailChannels(y) /\ greq # "null"
                    THEN TailWrite(gg[c], greq, GammaSum(c)) ELSE gg[c]
        /\ bg'[c] = IF c \in TailChannels(y) /\ breq # "null"
                    THEN TailWrite(bg[c], breq, BetaSum) ELSE bg[c]
        /\ visits'[c] = IF c \in TailChannels(y) THEN visits[c] + 1 ELSE visits[c]
    BY DEF Tail, PartInv, TypeOK
  <2>. QED BY <1>0, <2>1 DEF PartInv, GradInv, TailWrite, AddTo
<1>. QED BY <1>3, <1>4, <1>5 DEF PartInv

\* Every step of the kernel keeps the invariant.
LEMMA NextPart == PartInv /\ [Next]_vars => PartInv'
<1> SUFFICES ASSUME PartInv, [Next]_vars PROVE PartInv'
  OBVIOUS
<1>1. TypeOK'
  BY NextTypeOK DEF PartInv
<1>2. CASE \E y \in Warps : ChunkIteration(y)
  BY <1>1, <1>2, ChunkIterationPart
<1>3. CASE \E y \in Warps : ChunkExit(y)
  BY <1>1, <1>3, ChunkExitPart
<1>4. CASE \E y \in Warps : Tail(y)
  BY <1>1, <1>4, TailPart
<1>5. CASE UNCHANGED vars
  BY <1>5 DEF vars, PartInv, TypeOK, VisitsInv, ExitInv, GradInv, InWhole, Whole,
              GradElem, MaxIter
<1>. QED BY <1>2, <1>3, <1>4, <1>5 DEF Next, Terminated

\* A channel in a whole chunk lies inside the row.
LEMMA WholeInRow ==
    ASSUME nchannel \in Widths, NEW c \in 0 .. MaxWidth - 1, InWhole(c)
    PROVE  c < nchannel
<1>1. c - LoadUnroll * ChunkOf(c) \in 0 .. LoadUnroll - 1 /\ ChunkOf(c) \in Nat
  BY Shape, SMT, OwnerRange
<1>. QED BY <1>1, Shape, SMT DEF InWhole, Whole

\* When the kernel returns every channel of the row has been summed by
\* exactly one thread, and no channel past nchannel by any.
LEMMA PartitionFromInv == PartInv => ChannelPartition
<1> SUFFICES ASSUME PartInv, AllDone, NEW c \in 0 .. MaxWidth - 1
             PROVE  visits[c] = IF c < nchannel THEN 1 ELSE 0
  BY DEF ChannelPartition
<1>0. c \in Nat
  BY Shape, SMT
<1>1. OwnerWarp(c) \in Warps /\ Iter(c) \in Nat /\ nchannel \in Widths
  BY <1>0, OwnerRange DEF PartInv, TypeOK
<1>2. pc[OwnerWarp(c)] = "done"
  BY <1>1 DEF AllDone
<1>3. InWhole(c) => Iter(c) < k[OwnerWarp(c)] /\ c < nchannel
  BY <1>1, <1>2, WholeInRow DEF PartInv, ExitInv
<1>. QED BY <1>1, <1>2, <1>3 DEF PartInv, VisitsInv

\* ChannelPartition: the chunk loops and the tail loops of the GammaBeta
\* kernel sum every channel of the row exactly once and touch nothing past
\* nchannel, for every warp size, block height, LOAD_UNROLL and width.
THEOREM Partition == Spec => []ChannelPartition
<1>1. PartInv => ChannelPartition
  BY PartitionFromInv
<1>. QED BY InitPart, NextPart, <1>1, PTL DEF Spec

\* AddToGradComplete: under kAddTo the kernel adds exactly one batch sum to
\* every element of gamma_grad and beta_grad in the row, and under kNullOp
\* it leaves them alone ("+=" in both loops, no write under kNullOp).
THEOREM AddToComplete == Spec => []AddToGradComplete
<1>1. PartInv => AddToGradComplete
  <2> SUFFICES ASSUME PartInv, AllDone, NEW c \in 0 .. nchannel - 1
               PROVE  /\ greq # "write" => RequestHonoured(gg[c], greq)
                      /\ breq # "write" => RequestHonoured(bg[c], breq)
    BY DEF AddToGradComplete
  <2>1. nchannel \in Widths /\ greq \in {"null", "write", "addto"}
        /\ breq \in {"null", "write", "addto"}
    BY GammaBetaConstAssumption DEF PartInv, TypeOK
  <2>2. c \in 0 .. MaxWidth - 1 /\ c < nchannel
    BY <2>1, Shape, SMT
  <2>3. visits[c] = 1
    BY <2>2, PartitionFromInv DEF ChannelPartition
  <2>. QED BY <2>1, <2>2, <2>3 DEF PartInv, GradInv, RequestHonoured
<1>. QED BY InitPart, NextPart, <1>1, PTL DEF Spec
=============================================================================
