---------------------- MODULE LayerNormForwardRowProofs ----------------------
(***************************************************************************)
(* The forward block implements the row contract LayerNormRow, for every  *)
(* warp size and every set of row widths, given that every thread leaving *)
(* the reduction holds the row's statistics (BroadcastStats, checked by    *)
(* TLC: it needs induction over the reduction loops).                      *)
(*                                                                         *)
(* The argument is the output loop's arithmetic: element i of the row is   *)
(* visited by exactly one thread of the block, the thread whose id is      *)
(* i % nthread, in warp Owner(i).  So out_data[i] is unwritten until that  *)
(* warp runs WriteOutput and written once, from the row's statistics,     *)
(* afterwards; the statistics are written by warp 0 alone.                *)
(***************************************************************************)
EXTENDS LayerNormForwardProofs

\* The warp and lane of the thread whose output loop visits element i.
Owner(i) == (i % NThread) \div WarpSize
LaneOf(i) == (i % NThread) % WarpSize

OutWritten == [n |-> 1, mean |-> FullRow, var |-> FullRow]
OutUnwritten == [n |-> 0, mean |-> Garbage, var |-> Garbage]
StatWritten == [n |-> 1, mean |-> FullRow, std |-> FullRow]
StatUnwritten == [n |-> 0, mean |-> Garbage, std |-> Garbage]

\* out_data[i] is written exactly when its owner warp has finished, and the
\* statistics exactly when warp 0 has.
OutInv ==
    /\ DOMAIN out = 0 .. MaxWidth - 1
    /\ \A i \in DOMAIN out :
          out[i] = IF i < nchannel /\ pc[Owner(i)] = "done" THEN OutWritten ELSE OutUnwritten
    /\ stat = IF pc[0] = "done" THEN StatWritten ELSE StatUnwritten

-----------------------------------------------------------------------------
(* The arithmetic of the grid-stride output loop.                          *)

\* A loop "for (i = a; ...; i += N)" with 0 <= a < N visits the i >= a with
\* i % N = a.
LEMMA StrideResidue ==
    ASSUME NEW N \in Nat \ {0}, NEW a \in 0 .. N - 1, NEW i \in Nat
    PROVE  (i >= a /\ (i - a) % N = 0) <=> i % N = a
BY SMT

\* A thread id below 2 * WarpSize splits uniquely into a lane and a warp.
LEMMA TidSplit ==
    ASSUME NEW W \in Nat \ {0}, NEW c \in 0 .. 2 * W - 1,
           NEW x \in 0 .. W - 1, NEW y \in 0 .. 1
    PROVE  /\ c \div W \in 0 .. 1 /\ c % W \in 0 .. W - 1
           /\ (c = x + y * W) <=> (x = c % W /\ y = c \div W)
BY SMT

\* The geometry of the block: NWarps warps of WarpSize lanes.
LEMMA BlockShape ==
    /\ NWarps \in {1, 2}
    /\ Warps = 0 .. NWarps - 1
    /\ NThread = WarpSize * NWarps
    /\ NThread \in Nat \ {0}
    /\ NThread <= 2 * WarpSize
<1>1. NWarps \in {1, 2}
  BY DEF NWarps, MaxWarps
<1>. QED BY <1>1, WarpSizeAssumption DEF Warps, NThread

\* The thread of lane x of warp y visits element i exactly when i is in the
\* row and (y, x) is its owner.
LEMMA OutOwner ==
    ASSUME NEW i \in Nat, NEW y \in Warps, NEW x \in Lanes, nchannel \in Nat
    PROVE  /\ Owner(i) \in Warps /\ LaneOf(i) \in Lanes
           /\ i \in OutChannels(Tid(x, y)) <=>
                 (i < nchannel /\ y = Owner(i) /\ x = LaneOf(i))
<1>1. /\ NWarps \in {1, 2} /\ Warps = 0 .. NWarps - 1
      /\ NThread = WarpSize * NWarps /\ NThread \in Nat \ {0} /\ NThread <= 2 * WarpSize
  BY BlockShape
<1>2. WarpSize \in Nat \ {0} /\ Lanes = 0 .. WarpSize - 1
  BY WarpSizeAssumption DEF Lanes
<1>3. Tid(x, y) \in 0 .. NThread - 1
  BY <1>1, <1>2 DEF Tid
<1>4. i \in OutChannels(Tid(x, y)) <=> (i < nchannel /\ i % NThread = Tid(x, y))
  <2>1. (i >= Tid(x, y) /\ (i - Tid(x, y)) % NThread = 0) <=> i % NThread = Tid(x, y)
    BY <1>1, <1>3, StrideResidue
  <2>. QED BY <2>1 DEF OutChannels
<1>5. i % NThread \in 0 .. NThread - 1
  BY <1>1
<1>6. /\ Owner(i) \in 0 .. 1 /\ LaneOf(i) \in 0 .. WarpSize - 1
      /\ (i % NThread = x + y * WarpSize) <=> (x = LaneOf(i) /\ y = Owner(i))
  <2>. DEFINE c == i % NThread
  <2>1. y \in 0 .. 1 /\ x \in 0 .. WarpSize - 1 /\ c \in 0 .. 2 * WarpSize - 1
    BY <1>1, <1>2, <1>5
  <2>2. /\ c \div WarpSize \in 0 .. 1 /\ c % WarpSize \in 0 .. WarpSize - 1
        /\ (c = x + y * WarpSize) <=> (x = c % WarpSize /\ y = c \div WarpSize)
    <3>1. \A cc \in 0 .. 2 * WarpSize - 1, xx \in 0 .. WarpSize - 1, yy \in 0 .. 1 :
             /\ cc \div WarpSize \in 0 .. 1 /\ cc % WarpSize \in 0 .. WarpSize - 1
             /\ (cc = xx + yy * WarpSize) <=> (xx = cc % WarpSize /\ yy = cc \div WarpSize)
      BY <1>2, TidSplit
    <3>. QED BY <2>1, <3>1
  <2>3. Owner(i) = c \div WarpSize /\ LaneOf(i) = c % WarpSize
    BY DEF Owner, LaneOf
  <2>. QED BY <2>2, <2>3, Zenon
<1>7. Owner(i) \in Warps
  <2>1. CASE NWarps = 1
    <3>1. i % NThread \in 0 .. WarpSize - 1
      BY <1>1, <1>2, <1>5, <2>1
    <3>2. (i % NThread) \div WarpSize = 0
      BY <1>2, <3>1
    <3>. QED BY <1>1, <2>1, <3>2 DEF Owner
  <2>2. CASE NWarps = 2
    BY <1>1, <1>6, <2>2
  <2>. QED BY <1>1, <2>1, <2>2
<1>. QED BY <1>2, <1>4, <1>6, <1>7 DEF Tid

\* Every element has an owner thread in the block.
LEMMA OwnerInBlock ==
    ASSUME NEW i \in Nat, nchannel \in Nat
    PROVE  Owner(i) \in Warps /\ LaneOf(i) \in Lanes
<1>1. 0 \in Warps /\ 0 \in Lanes
  BY WarpSizeAssumption DEF Warps, Lanes, NWarps, MaxWarps
<1>. QED BY <1>1, OutOwner

\* The lanes of warp y that write element i: its owner's lane, or none.
LEMMA WriteSet ==
    ASSUME TypeOK, NEW y \in Warps, NEW i \in 0 .. MaxWidth - 1
    PROVE  {x \in Lanes : i \in OutChannels(Tid(x, y))}
             = IF i < nchannel /\ y = Owner(i) THEN {LaneOf(i)} ELSE {}
<1>1. nchannel \in Nat /\ i \in Nat /\ 0 \in Lanes
  BY WidthsAssumption, WarpSizeAssumption DEF TypeOK, Lanes
<1>2. \A x \in Lanes : i \in OutChannels(Tid(x, y)) <=> (i < nchannel /\ y = Owner(i) /\ x = LaneOf(i))
  BY <1>1, OutOwner
<1>3. LaneOf(i) \in Lanes
  BY <1>1, OutOwner
<1>. QED BY <1>2, <1>3

-----------------------------------------------------------------------------
(* The steps.                                                              *)

\* The kernel starts with no output written, as the row contract does.
LEMMA InitOut == Init => OutInv /\ Row!RowInit
<1> SUFFICES ASSUME Init PROVE OutInv /\ Row!RowInit
  OBVIOUS
<1>1. 0 \in Warps /\ \A z \in Warps : pc[z] # "done"
  BY DEF Init, Warps, NWarps, MaxWarps
<1>2. \A i \in 0 .. MaxWidth - 1 : Owner(i) \in Warps
  <2>1. nchannel \in Nat
    BY WidthsAssumption DEF Init
  <2>. QED BY <2>1, OwnerInBlock
<1>3. OutInv
  BY <1>1, <1>2 DEF Init, OutInv, OutUnwritten, StatUnwritten
<1>4. Row!RowInit
  BY DEF Init, Row!RowInit, Row!RowMaxWidth, Row!Unwritten, MaxWidth
<1>. QED BY <1>3, <1>4

\* The output loop of warp y writes the elements it owns, each once, from
\* the row's statistics; warp 0 writes the statistics.
LEMMA WriteOutputStep ==
    ASSUME TypeOK, OutInv, BroadcastStats, NEW y \in Warps, WriteOutput(y)
    PROVE  OutInv' /\ Row!RowWrite
<1>0. /\ pc[y] = "out" /\ pc' = [pc EXCEPT ![y] = "done"] /\ nchannel' = nchannel
      /\ pc \in [Warps -> PC] /\ nchannel \in Nat /\ 0 \in Warps
      /\ Warps' = Warps /\ DOMAIN out = 0 .. MaxWidth - 1
  BY WidthsAssumption DEF WriteOutput, TypeOK, OutInv, Warps, NWarps, MaxWarps
<1>1. \A x \in Lanes : t[y][x].mean = FullRow /\ t[y][x].sigma2 = FullRow
  BY <1>0 DEF BroadcastStats
<1>2. ASSUME NEW i \in DOMAIN out
      PROVE  out'[i] = IF i < nchannel /\ y = Owner(i) THEN OutWritten ELSE out[i]
  <2>. DEFINE W == {x \in Lanes : i \in OutChannels(Tid(x, y))}
  <2>1. W = IF i < nchannel /\ y = Owner(i) THEN {LaneOf(i)} ELSE {}
    BY <1>0, WriteSet
  <2>2. out'[i] = IF W = {} THEN out[i]
                  ELSE [n |-> out[i].n + Cardinality(W),
                        mean |-> t[y][CHOOSE x \in W : TRUE].mean,
                        var |-> t[y][CHOOSE x \in W : TRUE].sigma2]
    BY <1>2 DEF WriteOutput
  <2>3. CASE i < nchannel /\ y = Owner(i)
    <3>1. W = {LaneOf(i)} /\ LaneOf(i) \in Lanes
      BY <1>0, <2>1, <2>3, OutOwner
    <3>2. Cardinality(W) = 1 /\ (CHOOSE x \in W : TRUE) = LaneOf(i)
      BY <3>1, FS_Singleton
    <3>3. out[i] = OutUnwritten
      BY <1>0, <2>3 DEF OutInv
    <3>. QED BY <1>1, <2>2, <2>3, <3>1, <3>2, <3>3 DEF OutUnwritten, OutWritten
  <2>4. CASE ~(i < nchannel /\ y = Owner(i))
    BY <2>1, <2>2, <2>4
  <2>. QED BY <2>3, <2>4
<1>3. stat' = IF y = 0 THEN StatWritten ELSE stat
  <2>1. CASE y = 0
    <3>1. stat = StatUnwritten
      BY <1>0, <2>1 DEF OutInv
    <3>2. 0 \in Lanes
      BY WarpSizeAssumption DEF Lanes
    <3>. QED BY <1>1, <2>1, <3>1, <3>2 DEF WriteOutput, StatUnwritten, StatWritten
  <2>2. CASE y # 0
    BY <2>2 DEF WriteOutput
  <2>. QED BY <2>1, <2>2
<1>4. DOMAIN out' = DOMAIN out
  BY DEF WriteOutput
<1>5. OutInv'
  <2>1. ASSUME NEW i \in DOMAIN out
        PROVE  out'[i] = IF i < nchannel /\ pc'[Owner(i)] = "done" THEN OutWritten ELSE OutUnwritten
    <3>1. Owner(i) \in Warps
      BY <1>0, OwnerInBlock
    <3>2. CASE i < nchannel /\ y = Owner(i)
      BY <1>0, <1>2, <3>2
    <3>3. CASE ~(i < nchannel /\ y = Owner(i))
      <4>1. out'[i] = out[i]
        BY <1>2, <3>3
      <4>2. i < nchannel => pc'[Owner(i)] = pc[Owner(i)]
        BY <1>0, <3>1, <3>3
      <4>. QED BY <4>1, <4>2 DEF OutInv
    <3>. QED BY <3>2, <3>3
  <2>2. stat' = IF pc'[0] = "done" THEN StatWritten ELSE StatUnwritten
    <3>1. CASE y = 0
      BY <1>0, <1>3, <3>1
    <3>2. CASE y # 0
      BY <1>0, <1>3, <3>2 DEF OutInv
    <3>. QED BY <3>1, <3>2
  <2>3. \A i \in DOMAIN out : Owner(i)' = Owner(i)
    BY <1>0 DEF Owner, NThread, NWarps
  <2>4. /\ OutWritten' = OutWritten /\ StatWritten' = StatWritten
        /\ OutUnwritten' = OutUnwritten /\ StatUnwritten' = StatUnwritten
    BY <1>0 DEF OutWritten, StatWritten, OutUnwritten, StatUnwritten, FullRow
  <2>. QED BY <1>0, <1>4, <2>1, <2>2, <2>3, <2>4 DEF OutInv
<1>6. Row!RowWrite
  <2>1. Row!Written = OutWritten
    BY DEF Row!Written, Row!RowBag, OutWritten, FullRow
  <2>2. \A i \in DOMAIN out :
          \/ out'[i] = out[i]
          \/ i < nchannel /\ out[i].n = 0 /\ out'[i] = Row!Written
    <3> SUFFICES ASSUME NEW i \in DOMAIN out, i < nchannel, y = Owner(i)
                 PROVE  out[i].n = 0 /\ out'[i] = Row!Written
      BY <1>2
    <3>. QED BY <1>0, <1>2, <2>1 DEF OutInv, OutUnwritten
  <2>3. \/ stat' = stat
        \/ stat.n = 0 /\ stat' = [n |-> 1, mean |-> Row!RowBag, std |-> Row!RowBag]
    <3>1. y = 0 => stat = StatUnwritten
      BY <1>0 DEF OutInv
    <3>. QED BY <1>3, <3>1 DEF StatUnwritten, StatWritten, Row!RowBag, FullRow
  <2>. QED BY <1>0, <1>4, <2>2, <2>3 DEF Row!RowWrite
<1>. QED BY <1>5, <1>6

\* A step that writes nothing and finishes no warp keeps the invariant and
\* is a stuttering step of the row.
LEMMA QuietStep ==
    ASSUME TypeOK, OutInv, UNCHANGED <<nchannel, out, stat>>,
           \A z \in Warps : pc'[z] = "done" <=> pc[z] = "done"
    PROVE  OutInv' /\ UNCHANGED Row!rowVars
<1>1. nchannel \in Nat /\ 0 \in Warps
  BY WidthsAssumption DEF TypeOK, Warps, NWarps, MaxWarps
<1>2. \A i \in DOMAIN out : Owner(i) \in Warps /\ Owner(i)' = Owner(i)
  <2>1. DOMAIN out = 0 .. MaxWidth - 1
    BY DEF OutInv
  <2>. QED BY <1>1, <2>1, OwnerInBlock DEF Owner, NThread, NWarps
<1>3. /\ OutWritten' = OutWritten /\ StatWritten' = StatWritten
      /\ OutUnwritten' = OutUnwritten /\ StatUnwritten' = StatUnwritten
  BY DEF OutWritten, StatWritten, OutUnwritten, StatUnwritten, FullRow
<1>4. Warps' = Warps
  BY DEF Warps, NWarps
<1>5. OutInv'
  BY <1>1, <1>2, <1>3, <1>4 DEF OutInv
<1>. QED BY <1>5 DEF Row!rowVars

\* The warp steps before the output loop move a warp between statements
\* other than "done".
LEMMA InnerWarpStep ==
    ASSUME TypeOK, NEW y \in Warps,
           \/ Accumulate(y) \/ ShflRound(y) \/ WarpBroadcast(y) \/ WriteUpper(y)
           \/ MergeLower(y) \/ BcastWrite(y) \/ BcastRead(y)
    PROVE  /\ UNCHANGED <<nchannel, out, stat>>
           /\ \A z \in Warps : pc'[z] = "done" <=> pc[z] = "done"
BY DEF TypeOK, Accumulate, ShflRound, WarpBroadcast, WriteUpper, MergeLower,
       BcastWrite, BcastRead

\* A barrier moves every warp from a __syncthreads() to the statement after.
LEMMA BarrierQuiet ==
    ASSUME TypeOK, Barrier
    PROVE  /\ UNCHANGED <<nchannel, out, stat>>
           /\ \A z \in Warps : pc'[z] = "done" <=> pc[z] = "done"
BY DEF TypeOK, Barrier, SyncPC

-----------------------------------------------------------------------------
\* Every step of the block keeps the output account and is a step of the
\* row contract or leaves it alone, while the reduction delivers the row's
\* statistics.
LEMMA RowStep ==
    TypeOK /\ OutInv /\ BroadcastStats /\ [Next]_vars
        => OutInv' /\ [Row!RowWrite]_(Row!rowVars)
<1> SUFFICES ASSUME TypeOK, OutInv, BroadcastStats, [Next]_vars
             PROVE  OutInv' /\ [Row!RowWrite]_(Row!rowVars)
  OBVIOUS
<1>1. CASE \E y \in Warps : WriteOutput(y)
  BY <1>1, WriteOutputStep
<1>2. CASE \E y \in Warps :
             \/ Accumulate(y) \/ ShflRound(y) \/ WarpBroadcast(y) \/ WriteUpper(y)
             \/ MergeLower(y) \/ BcastWrite(y) \/ BcastRead(y)
  BY <1>2, InnerWarpStep, QuietStep
<1>3. CASE Barrier
  BY <1>3, BarrierQuiet, QuietStep
<1>4. CASE Terminated \/ UNCHANGED vars
  <2>1. UNCHANGED <<nchannel, out, stat>> /\ \A z \in Warps : pc'[z] = "done" <=> pc[z] = "done"
    BY <1>4 DEF Terminated, vars
  <2>. QED BY <2>1, QuietStep
<1>. QED BY <1>1, <1>2, <1>3, <1>4 DEF Next, Warp

\* The forward block implements the row contract LayerNormRow whenever the
\* reduction delivers the row's statistics: whatever the warp schedule,
\* each step of LayerNormFusedForwardKernelContig writes only out_data
\* elements of the row not written before, from the row's statistics, and
\* mean_data/std_data at most once (lines 215-241): the grid-stride output
\* loop gives every element exactly one thread.
THEOREM RowRefined == Spec /\ []BroadcastStats => RowRefinement
<1>1. Init => OutInv /\ Row!RowInit
  BY InitOut
<1>2. Spec => []TypeOK
  BY TypeCorrect
<1>. QED BY <1>1, <1>2, RowStep, PTL DEF Spec, RowRefinement, Row!RowSpec

\* Once every warp has returned, the output account gives the whole row.
LEMMA OutInvComplete == TypeOK /\ OutInv => OutputComplete
<1> SUFFICES ASSUME TypeOK, OutInv, AllDone PROVE
                 /\ \A i \in 0 .. nchannel - 1 :
                       out[i] = [n |-> 1, mean |-> FullRow, var |-> FullRow]
                 /\ \A i \in nchannel .. MaxWidth - 1 : out[i].n = 0
                 /\ stat = [n |-> 1, mean |-> FullRow, std |-> FullRow]
  BY DEF OutputComplete
<1>1. nchannel \in Nat /\ nchannel <= MaxWidth /\ MaxWidth \in Nat
  <2>1. nchannel \in Widths
    BY DEF TypeOK
  <2>2. \A v \in Widths : v <= MaxWidth /\ MaxWidth \in Widths
    BY WidestWidthAssumption DEF MaxWidth
  <2>. QED BY <2>1, <2>2, WidthsAssumption
<1>2. \A i \in 0 .. MaxWidth - 1 : pc[Owner(i)] = "done"
  BY <1>1, OwnerInBlock DEF AllDone
<1>3. \A i \in 0 .. nchannel - 1 : i \in 0 .. MaxWidth - 1 /\ i < nchannel
  BY <1>1, SMT
<1>4. \A i \in nchannel .. MaxWidth - 1 : i \in 0 .. MaxWidth - 1 /\ ~(i < nchannel)
  BY <1>1, SMT
<1>5. 0 \in Warps
  BY DEF Warps, NWarps, MaxWarps
<1>. QED BY <1>2, <1>3, <1>4, <1>5 DEF OutInv, OutWritten, OutUnwritten, StatWritten, AllDone

\* When the block returns, every out_data element of the row has been
\* written exactly once from the row's statistics, none past nchannel, and
\* mean_data/std_data once, whenever the reduction delivers the row's
\* statistics: the grid-stride output loop of
\* LayerNormFusedForwardKernelContig covers the row with one thread per
\* element, and only thread (0, 0) writes the statistics.
THEOREM OutputCompleteGiven == Spec /\ []BroadcastStats => []OutputComplete
<1>1. Init => OutInv
  BY InitOut
<1>2. Spec => []TypeOK
  BY TypeCorrect
<1>3. TypeOK /\ OutInv /\ BroadcastStats /\ [Next]_vars => OutInv'
  BY RowStep
<1>. QED BY <1>1, <1>2, <1>3, OutInvComplete, PTL DEF Spec

=============================================================================
