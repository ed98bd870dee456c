--------------------- MODULE LayerNormForwardRaceProofs ---------------------
(***************************************************************************)
(* Race freedom of the shared-memory reduction of the forward kernel, for *)
(* every warp size and every set of row widths.                           *)
(*                                                                         *)
(* With one warp the block allocates no shared memory.  With two, the     *)
(* barriers cut every run into four epochs, and warps never straddle a    *)
(* barrier:                                                                *)
(*   1. accumulate, shuffle, the upper warp stores (WriteUpper), sync1;    *)
(*   2. the lower warp merges (MergeLower), sync2;                         *)
(*   3. thread (0,0) publishes mean and sigma2 (BcastWrite), sync3;        *)
(*   4. every warp reads them (BcastRead), writes its outputs.             *)
(* In epoch 1 only warp 1 writes, in epoch 3 only warp 0, and reads occur *)
(* only in epochs 2 and 4; each barrier empties the access log.           *)
(***************************************************************************)
EXTENDS LayerNormForwardProofs

\* The epoch a warp at statement p is in (with two warps).
Epoch(p) ==
    IF p \in {"accum", "shfl", "write", "sync1"} THEN 1
    ELSE IF p \in {"merge", "sync2"} THEN 2
    ELSE IF p \in {"bwrite", "sync3"} THEN 3
    ELSE 4

\* Every warp of the block is in epoch e.
InEpoch(e) == \A z \in Warps : Epoch(pc[z]) = e

\* A logged access is one the epoch allows: writes by warp 1 in epoch 1 or
\* by warp 0 in epoch 3, reads in epochs 2 and 4.
AccOK(a) ==
    /\ a.kind = "w" => \/ a.warp = 1 /\ InEpoch(1)
                       \/ a.warp = 0 /\ InEpoch(3)
    /\ a.kind = "r" => InEpoch(2) \/ InEpoch(4)

\* With two warps, no warp is at the one-warp broadcast, the warps agree on
\* the epoch, and the halving offset is 1 before the second barrier, 0 after.
Agree ==
    NWarps = 2 =>
        /\ \A z \in Warps : pc[z] # "bcast1"
        /\ \A z, w \in Warps : Epoch(pc[z]) = Epoch(pc[w])
        /\ \A z \in Warps : off[z] = IF Epoch(pc[z]) \in {1, 2} THEN 1 ELSE 0

\* The strengthening of NoSharedRace.
RaceInv ==
    /\ Agree
    /\ \A s \in Slots : \A a \in acc[s] : AccOK(a)

IInv == TypeOK /\ RaceInv

-----------------------------------------------------------------------------
\* Adding one access to two or three slots of the log adds nothing else.
LEMMA ExceptGrow2 ==
    ASSUME NEW D, NEW T, NEW f \in [D -> SUBSET T], NEW x, NEW i, NEW j
    PROVE  \A s \in D : [f EXCEPT ![i] = @ \cup {x}, ![j] = @ \cup {x}][s]
                           \subseteq f[s] \cup {x}
OBVIOUS

\* Adding one access to three slots adds it and nothing else to each.
LEMMA ExceptGrow3 ==
    ASSUME NEW D, NEW T, NEW f \in [D -> SUBSET T], NEW x, NEW i, NEW j, NEW k
    PROVE  \A s \in D : [f EXCEPT ![i] = @ \cup {x}, ![j] = @ \cup {x}, ![k] = @ \cup {x}][s]
                           \subseteq f[s] \cup {x}
OBVIOUS

\* The geometry of a block: one warp and no shared memory, or two warps
\* {0, 1} with one slot per buffer.
LEMMA Geometry ==
    /\ NWarps \in {1, 2}
    /\ NWarps = 1 => Slots = {}
    /\ NWarps = 2 => Warps = {0, 1} /\ Half = 1
BY DEF NWarps, MaxWarps, Slots, Half, Warps

-----------------------------------------------------------------------------
\* The block starts in epoch 1 with no shared slot accessed.
LEMMA InitRace == Init => RaceInv
<1> SUFFICES ASSUME Init PROVE RaceInv
  OBVIOUS
<1>1. Agree
  <2>1. \A z \in Warps : pc[z] = "accum" /\ off[z] = Half
    BY DEF Init
  <2>. QED BY <2>1, Geometry DEF Agree, Epoch
<1>2. \A s \in Slots : acc[s] = {}
  BY DEF Init
<1>. QED BY <1>1, <1>2 DEF RaceInv

\* A warp step moves its own warp within its epoch and leaves the offsets alone.
LEMMA WarpStepAgree ==
    ASSUME TypeOK, Agree, NEW y \in Warps, Warp(y)
    PROVE  /\ off' = off
           /\ pc' = [pc EXCEPT ![y] = pc'[y]]
           /\ NWarps = 2 => Epoch(pc'[y]) = Epoch(pc[y]) /\ pc'[y] # "bcast1"
<1>1. off' = off /\ pc' = [pc EXCEPT ![y] = pc'[y]]
  BY DEF TypeOK, Warp, Accumulate, ShflRound, WarpBroadcast, WriteUpper,
         MergeLower, BcastWrite, BcastRead, WriteOutput
<1>2. ASSUME NWarps = 2 PROVE Epoch(pc'[y]) = Epoch(pc[y]) /\ pc'[y] # "bcast1"
  <2>1. pc[y] # "bcast1"
    BY <1>2 DEF Agree
  <2>2. CASE Accumulate(y)
    BY <1>2, <2>1, <2>2 DEF TypeOK, Accumulate, Epoch
  <2>3. CASE ShflRound(y)
    BY <1>2, <2>1, <2>3 DEF TypeOK, ShflRound, Epoch
  <2>4. CASE WarpBroadcast(y)
    BY <1>2, <2>1, <2>4 DEF TypeOK, WarpBroadcast, Epoch
  <2>5. CASE WriteUpper(y)
    BY <1>2, <2>1, <2>5 DEF TypeOK, WriteUpper, Epoch
  <2>6. CASE MergeLower(y)
    BY <1>2, <2>1, <2>6 DEF TypeOK, MergeLower, Epoch
  <2>7. CASE BcastWrite(y)
    BY <1>2, <2>1, <2>7 DEF TypeOK, BcastWrite, Epoch
  <2>8. CASE BcastRead(y)
    BY <1>2, <2>1, <2>8 DEF TypeOK, BcastRead, Epoch
  <2>9. CASE WriteOutput(y)
    BY <1>2, <2>1, <2>9 DEF TypeOK, WriteOutput, Epoch
  <2>. QED BY <2>2, <2>3, <2>4, <2>5, <2>6, <2>7, <2>8, <2>9 DEF Warp
<1>. QED BY <1>1, <1>2

\* A warp step keeps the block's geometry.
LEMMA WarpStepGeometry ==
    ASSUME NEW y \in Warps, Warp(y)
    PROVE  NWarps' = NWarps /\ Warps' = Warps /\ Slots' = Slots
<1>1. nchannel' = nchannel
  BY DEF Warp, Accumulate, ShflRound, WarpBroadcast, WriteUpper,
         MergeLower, BcastWrite, BcastRead, WriteOutput
<1>. QED BY <1>1 DEF NWarps, Warps, Slots, Half

\* No warp is in two epochs at once.
LEMMA EpochsDisjoint ==
    ASSUME NEW e \in 1 .. 4, NEW f \in 1 .. 4, e # f, InEpoch(e), InEpoch(f)
    PROVE  FALSE
<1>1. 0 \in Warps
  BY DEF Warps, NWarps, MaxWarps
<1>. QED BY <1>1 DEF InEpoch

\* A warp step of a two-warp block keeps AccOK of every access it logs.
LEMMA WarpStepAcc ==
    ASSUME TypeOK, RaceInv, NWarps = 2, NEW y \in Warps, Warp(y)
    PROVE  \A s \in Slots : \A a \in acc'[s] : a \in acc[s] \/ AccOK(a)
<1>. DEFINE AccT == [warp : Warps, kind : {"r", "w"}]
<1>0. /\ acc \in [Slots -> SUBSET AccT]
      /\ Warps = {0, 1} /\ pc \in [Warps -> PC] /\ off \in [Warps -> Nat]
      /\ \A z \in Warps : Epoch(pc[z]) = Epoch(pc[y])
      /\ off[y] = IF Epoch(pc[y]) \in {1, 2} THEN 1 ELSE 0
  BY Geometry DEF TypeOK, RaceInv, Agree
<1>1. CASE Accumulate(y) \/ ShflRound(y) \/ WarpBroadcast(y) \/ WriteOutput(y)
  BY <1>1 DEF Accumulate, ShflRound, WarpBroadcast, WriteOutput
<1>2. CASE WriteUpper(y)
  <2>1. CASE off[y] <= y /\ y < 2 * off[y]
    <3>1. y = 1 /\ InEpoch(1)
      BY <1>0, <1>2, <2>1 DEF WriteUpper, Epoch, InEpoch
    <3>2. \A s \in Slots : acc'[s] \subseteq acc[s] \cup {Access(y, "w")}
      BY <1>0, <1>2, <2>1, ExceptGrow3 DEF WriteUpper
    <3>. QED BY <3>1, <3>2 DEF AccOK, Access
  <2>2. CASE ~(off[y] <= y /\ y < 2 * off[y])
    BY <1>2, <2>2 DEF WriteUpper
  <2>. QED BY <2>1, <2>2
<1>3. CASE MergeLower(y)
  <2>1. InEpoch(2)
    BY <1>0, <1>3 DEF MergeLower, Epoch, InEpoch
  <2>2. \A s \in Slots : acc'[s] \subseteq acc[s] \cup {Access(y, "r")}
    BY <1>0, <1>3, ExceptGrow3 DEF MergeLower
  <2>. QED BY <2>1, <2>2 DEF AccOK, Access
<1>4. CASE BcastWrite(y)
  <2>1. InEpoch(3)
    BY <1>0, <1>4 DEF BcastWrite, Epoch, InEpoch
  <2>2. \A s \in Slots : acc'[s] \subseteq acc[s] \cup {Access(0, "w")}
    BY <1>0, <1>4, ExceptGrow2 DEF BcastWrite
  <2>. QED BY <2>1, <2>2 DEF AccOK, Access
<1>5. CASE BcastRead(y)
  <2>1. InEpoch(4)
    BY <1>0, <1>5 DEF BcastRead, Epoch, InEpoch
  <2>2. \A s \in Slots : acc'[s] \subseteq acc[s] \cup {Access(y, "r")}
    BY <1>0, <1>5, ExceptGrow2 DEF BcastRead
  <2>. QED BY <2>1, <2>2 DEF AccOK, Access
<1>. QED BY <1>1, <1>2, <1>3, <1>4, <1>5 DEF Warp

\* A warp step keeps the strengthening.
LEMMA WarpStepRace ==
    ASSUME TypeOK, RaceInv, NEW y \in Warps, Warp(y)
    PROVE  RaceInv'
<1>1. NWarps' = NWarps /\ Warps' = Warps /\ Slots' = Slots
  BY WarpStepGeometry
<1>2. /\ off' = off
      /\ pc' = [pc EXCEPT ![y] = pc'[y]]
      /\ NWarps = 2 => Epoch(pc'[y]) = Epoch(pc[y]) /\ pc'[y] # "bcast1"
  BY WarpStepAgree DEF RaceInv
<1>3. CASE NWarps = 1
  <2>1. Agree'
    BY <1>1, <1>3 DEF Agree
  <2>2. \A s \in Slots' : \A a \in acc'[s] : AccOK(a)'
    BY <1>1, <1>3, Geometry
  <2>. QED BY <2>1, <2>2 DEF RaceInv
<1>4. CASE NWarps = 2
  <2>1. \A z \in Warps : Epoch(pc'[z]) = Epoch(pc[z]) /\ pc'[z] # "bcast1"
    BY <1>2, <1>4 DEF TypeOK, RaceInv, Agree
  <2>2. Agree'
    BY <1>1, <1>2, <2>1 DEF RaceInv, Agree
  <2>3. \A a : AccOK(a)' = AccOK(a)
    BY <1>1, <2>1 DEF AccOK, InEpoch
  <2>4. \A s \in Slots : \A a \in acc'[s] : a \in acc[s] \/ AccOK(a)
    BY <1>4, WarpStepAcc
  <2>. QED BY <1>1, <2>2, <2>3, <2>4 DEF RaceInv
<1>. QED BY <1>3, <1>4, Geometry

\* A barrier empties the access log and moves every warp to the next epoch.
LEMMA BarrierRace ==
    ASSUME TypeOK, RaceInv, Barrier
    PROVE  RaceInv'
<1>1. NWarps' = NWarps /\ Warps' = Warps /\ Slots' = Slots
  BY DEF Barrier, NWarps, Warps, Slots, Half
<1>2. \A s \in Slots' : acc'[s] = {}
  BY <1>1 DEF Barrier
<1>3. Agree'
  <2> SUFFICES ASSUME NWarps = 2 PROVE Agree'
    BY <1>1 DEF Agree
  <2>0. /\ Warps = {0, 1}
        /\ \A z \in Warps : pc[z] \in SyncPC
        /\ \A z \in Warps : Epoch(pc[z]) = Epoch(pc[0])
        /\ \A z \in Warps : off[z] = IF Epoch(pc[z]) \in {1, 2} THEN 1 ELSE 0
    BY Geometry DEF Barrier, RaceInv, Agree
  <2>1. CASE pc[0] = "sync1"
    <3>1. \A z \in Warps : pc[z] = "sync1" /\ off[z] = 1
      BY <2>0, <2>1 DEF SyncPC, Epoch
    <3>2. \A z \in Warps : pc'[z] = "merge" /\ off'[z] = 1
      BY <3>1 DEF Barrier
    <3>. QED BY <1>1, <3>2 DEF Agree, Epoch
  <2>2. CASE pc[0] = "sync2"
    <3>1. \A z \in Warps : pc[z] = "sync2" /\ off[z] = 1
      BY <2>0, <2>2 DEF SyncPC, Epoch
    <3>2. NextOffset(1) = 0
      BY DEF NextOffset
    <3>3. \A z \in Warps : pc'[z] = "bwrite" /\ off'[z] = 0
      BY <3>1, <3>2 DEF Barrier
    <3>. QED BY <1>1, <3>3 DEF Agree, Epoch
  <2>3. CASE pc[0] = "sync3"
    <3>1. \A z \in Warps : pc[z] = "sync3" /\ off[z] = 0
      BY <2>0, <2>3 DEF SyncPC, Epoch
    <3>2. \A z \in Warps : pc'[z] = "bread" /\ off'[z] = 0
      BY <3>1 DEF Barrier
    <3>. QED BY <1>1, <3>2 DEF Agree, Epoch
  <2>. QED BY <2>0, <2>1, <2>2, <2>3 DEF SyncPC
<1>. QED BY <1>2, <1>3 DEF RaceInv

-----------------------------------------------------------------------------
\* Race freedom of the forward kernel's shared memory: in every run of one
\* block, for every warp size and row width, no slot of mean_buf, sigma2_buf
\* or count_buf is written by one warp and accessed by another between two
\* __syncthreads() (LayerNormFusedForwardKernelContig, lines 186-214).
THEOREM RaceFree == Spec => []NoSharedRace
<1>1. Init => RaceInv
  BY InitRace
<1>2. TypeOK /\ RaceInv /\ [Next]_vars => RaceInv'
  <2> SUFFICES ASSUME TypeOK, RaceInv, [Next]_vars PROVE RaceInv'
    OBVIOUS
  <2>1. CASE \E y \in Warps : Warp(y)
    BY <2>1, WarpStepRace
  <2>2. CASE Barrier
    BY <2>2, BarrierRace
  <2>3. CASE Terminated \/ UNCHANGED vars
    <3>1. /\ nchannel' = nchannel /\ pc' = pc /\ rnd' = rnd /\ off' = off /\ t' = t
          /\ shm' = shm /\ acc' = acc /\ out' = out /\ stat' = stat
      BY <2>3 DEF Terminated, vars
    <3>2. NWarps' = NWarps /\ Warps' = Warps /\ Slots' = Slots /\ Half' = Half
      BY <3>1 DEF NWarps, Warps, Slots, Half
    <3>3. Agree'
      BY <3>1, <3>2, Zenon DEF RaceInv, Agree
    <3>4. \A a : AccOK(a)' = AccOK(a)
      BY <3>1, <3>2, Zenon DEF AccOK, InEpoch
    <3>. QED BY <3>1, <3>2, <3>3, <3>4 DEF RaceInv
  <2>. QED BY <2>1, <2>2, <2>3 DEF Next
<1>3. TypeOK /\ RaceInv => NoSharedRace
  <2> SUFFICES ASSUME TypeOK, RaceInv, NEW s \in Slots, NEW a \in acc[s], NEW b \in acc[s],
                      a.warp # b.warp
               PROVE  a.kind = "r" /\ b.kind = "r"
    BY DEF NoSharedRace
  <2>1. a.kind \in {"r", "w"} /\ b.kind \in {"r", "w"} /\ AccOK(a) /\ AccOK(b)
    BY DEF TypeOK, RaceInv
  <2>2. CASE a.kind = "w"
    BY <2>1, <2>2, EpochsDisjoint DEF AccOK
  <2>3. CASE b.kind = "w"
    BY <2>1, <2>3, EpochsDisjoint DEF AccOK
  <2>. QED BY <2>1, <2>2, <2>3
<1>4. Spec => []TypeOK
  BY TypeCorrect
<1>. QED BY <1>1, <1>2, <1>3, <1>4, PTL DEF Spec

=============================================================================
