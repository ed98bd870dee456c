-------------------- MODULE LayerNormBackwardDataProofs --------------------
(***************************************************************************)
(* Race freedom of the inter-warp all-reduce of                            *)
(* LayerNormFusedBackwardKernel_Data, for every warp size, load width and  *)
(* set of row widths.                                                      *)
(*                                                                         *)
(* The argument is the one of LayerNormForwardRaceProofs.  A single-warp   *)
(* block (nchannel <= 32) has no shared memory.  In a two-warp block the   *)
(* barriers cut every run into four epochs:                                *)
(*   1. accumulate, shuffle, warp 1 stores its sums (WriteUpper), sync1;   *)
(*   2. warp 0 adds them (MergeLower), sync2;                              *)
(*   3. warp 0 publishes its sums (BcastWrite), sync3;                     *)
(*   4. warp 1 reads them (BcastRead), both write data_grad.               *)
(* Only warp 1 writes in epoch 1, only warp 0 in epoch 3, and reads occur  *)
(* only in epochs 2 and 4.                                                 *)
(*                                                                         *)
(* The invariant rests on the control part of TypeOK alone (ControlOK).    *)
(* The rest of TypeOK, msk \in Masks, says the mask is WarpSize \div 2^k;  *)
(* its closure under halving needs 2^(k+1) = 2 * 2^k, which the provers    *)
(* do not know, so TypeOK itself stays with TLC.                           *)
(***************************************************************************)
EXTENDS LayerNormBackwardData, TLAPS

AccT == [warp : Warps, kind : {"r", "w"}]

\* The part of TypeOK the barrier protocol is about.
ControlOK ==
    /\ nchannel \in Widths
    /\ pc \in [Warps -> PC]
    /\ off \in [Warps -> 0 .. Half]
    /\ acc \in [Slots -> SUBSET AccT]

\* The epoch a warp at statement p is in (with two warps).
Epoch(p) ==
    IF p \in {"accum", "shfl", "write", "sync1"} THEN 1
    ELSE IF p \in {"merge", "sync2"} THEN 2
    ELSE IF p \in {"bwrite", "sync3"} THEN 3
    ELSE 4

\* Every warp of the block is in epoch e.
InEpoch(e) == \A z \in Warps : Epoch(pc[z]) = e

\* A logged access is one its epoch allows.
AccOK(a) ==
    /\ a.kind = "w" => \/ a.warp = 1 /\ InEpoch(1)
                       \/ a.warp = 0 /\ InEpoch(3)
    /\ a.kind = "r" => InEpoch(2) \/ InEpoch(4)

\* With two warps, the warps agree on the epoch, and the halving offset is
\* 1 before the second barrier and 0 after it.
Agree ==
    NWarps = 2 =>
        /\ \A z, w \in Warps : Epoch(pc[z]) = Epoch(pc[w])
        /\ \A z \in Warps : off[z] = IF Epoch(pc[z]) \in {1, 2} THEN 1 ELSE 0

\* The strengthening of NoSharedRace.
RaceInv ==
    /\ Agree
    /\ \A s \in Slots : \A a \in acc[s] : AccOK(a)

IInv == ControlOK /\ RaceInv

-----------------------------------------------------------------------------
\* Logging one access to a set of slots adds only that access.
LEMMA LogGrow ==
    ASSUME NEW a, NEW ss, NEW y, NEW kind
    PROVE  \A s \in DOMAIN a : Log(a, ss, y, kind)[s] \subseteq a[s] \cup {Access(y, kind)}
BY DEF Log

\* Logging keeps the access log well typed.
LEMMA LogType ==
    ASSUME NEW a \in [Slots -> SUBSET AccT], NEW ss, NEW y \in Warps, NEW kind \in {"r", "w"}
    PROVE  Log(a, ss, y, kind) \in [Slots -> SUBSET AccT]
BY DEF Log, Access, AccT

\* The geometry of a block: one warp and no shared memory, or two warps
\* {0, 1} with one halving step.
LEMMA Geometry ==
    /\ NWarps \in {1, 2}
    /\ NWarps = 1 => Slots = {}
    /\ NWarps = 2 => Warps = {0, 1} /\ Half = 1
BY DataConstAssumption DEF NWarps, MaxWarps, Slots, Half, Warps

\* No block is in two epochs at once.
LEMMA EpochsDisjoint ==
    ASSUME NEW e \in 1 .. 4, NEW f \in 1 .. 4, e # f, InEpoch(e), InEpoch(f)
    PROVE  FALSE
<1>1. 0 \in Warps
  BY DEF Warps, NWarps, MaxWarps
<1>. QED BY <1>1 DEF InEpoch

\* The block starts in epoch 1 with no shared slot accessed.
LEMMA InitIInv == Init => IInv
<1> SUFFICES ASSUME Init PROVE IInv
  OBVIOUS
<1>1. ControlOK
  <2>1. Half \in 0 .. Half
    BY Geometry, SMT DEF Half
  <2>2. pc \in [Warps -> PC] /\ off \in [Warps -> 0 .. Half]
    BY <2>1 DEF Init, PC, SyncPC
  <2>3. acc \in [Slots -> SUBSET AccT]
    BY DEF Init
  <2>. QED BY <2>2, <2>3 DEF Init, ControlOK
<1>2. Agree
  BY Geometry DEF Init, Agree, Epoch
<1>3. \A s \in Slots : acc[s] = {}
  BY DEF Init
<1>. QED BY <1>1, <1>2, <1>3 DEF IInv, RaceInv

\* What a warp step does to the control state: it moves its own warp
\* within its epoch, leaves the offsets and the shape alone, and logs only
\* its own accesses.
LEMMA WarpStepControl ==
    ASSUME ControlOK, NEW y \in Warps, Warp(y)
    PROVE  /\ nchannel' = nchannel /\ off' = off
           /\ pc' = [pc EXCEPT ![y] = pc'[y]]
           /\ pc'[y] \in PC
           /\ acc' \in [Slots -> SUBSET AccT]
           /\ NWarps = 2 => Epoch(pc'[y]) = Epoch(pc[y])
<1>1. CASE Accumulate(y) \/ ShflXor(y) \/ WriteGrad(y)
  <2>1. /\ nchannel' = nchannel /\ off' = off /\ acc' = acc
        /\ pc' = [pc EXCEPT ![y] = pc'[y]] /\ pc'[y] \in PC
    BY <1>1 DEF ControlOK, Accumulate, ShflXor, WriteGrad, PC, SyncPC
  <2>2. NWarps = 2 => Epoch(pc'[y]) = Epoch(pc[y])
    <3>1. NWarps = 2 => NWarps > 1
      OBVIOUS
    <3>. QED BY <1>1, <3>1 DEF ControlOK, Accumulate, ShflXor, WriteGrad, Epoch
  <2>. QED BY <2>1, <2>2 DEF ControlOK
<1>2. CASE WriteUpper(y) \/ BcastWrite(y)
  <2>1. /\ nchannel' = nchannel /\ off' = off
        /\ pc' = [pc EXCEPT ![y] = pc'[y]] /\ pc'[y] \in PC
        /\ NWarps = 2 => Epoch(pc'[y]) = Epoch(pc[y])
    BY <1>2 DEF ControlOK, WriteUpper, BcastWrite, PC, SyncPC, Epoch
  <2>2. acc' \in [Slots -> SUBSET AccT]
    BY <1>2, LogType DEF ControlOK, WriteUpper, BcastWrite
  <2>. QED BY <2>1, <2>2
<1>3. CASE MergeLower(y) \/ BcastRead(y)
  <2>1. /\ nchannel' = nchannel /\ off' = off
        /\ pc' = [pc EXCEPT ![y] = pc'[y]] /\ pc'[y] \in PC
        /\ NWarps = 2 => Epoch(pc'[y]) = Epoch(pc[y])
    BY <1>3 DEF ControlOK, MergeLower, BcastRead, PC, SyncPC, Epoch
  <2>2. acc' \in [Slots -> SUBSET AccT]
    BY <1>3, LogType DEF ControlOK, MergeLower, BcastRead
  <2>. QED BY <2>1, <2>2
<1>. QED BY <1>1, <1>2, <1>3 DEF Warp

\* A warp step of a two-warp block logs only accesses its epoch allows.
LEMMA WarpStepAcc ==
    ASSUME ControlOK, RaceInv, NWarps = 2, NEW y \in Warps, Warp(y)
    PROVE  \A s \in Slots : \A a \in acc'[s] : a \in acc[s] \/ AccOK(a)
<1>0. /\ Warps = {0, 1} /\ Half = 1
      /\ \A z \in Warps : Epoch(pc[z]) = Epoch(pc[y])
      /\ off[y] = IF Epoch(pc[y]) \in {1, 2} THEN 1 ELSE 0
  BY Geometry DEF RaceInv, Agree
<1>1. DOMAIN acc = Slots
  BY DEF ControlOK
<1>2. CASE Accumulate(y) \/ ShflXor(y) \/ WriteGrad(y)
  BY <1>2 DEF Accumulate, ShflXor, WriteGrad
<1>3. CASE WriteUpper(y)
  <2>1. CASE IsUpper(y)
    <3>1. y = 1 /\ InEpoch(1)
      BY <1>0, <1>3, <2>1 DEF WriteUpper, IsUpper, Epoch, InEpoch
    <3>2. \A s \in Slots : acc'[s] \subseteq acc[s] \cup {Access(y, "w")}
      BY <1>1, <1>3, <2>1, LogGrow DEF WriteUpper
    <3>. QED BY <3>1, <3>2 DEF AccOK, Access
  <2>2. CASE ~IsUpper(y)
    BY <1>3, <2>2 DEF WriteUpper
  <2>. QED BY <2>1, <2>2
<1>4. CASE MergeLower(y)
  <2>1. InEpoch(2)
    BY <1>0, <1>4 DEF MergeLower, Epoch, InEpoch
  <2>2. \A s \in Slots : acc'[s] \subseteq acc[s] \cup {Access(y, "r")}
    BY <1>1, <1>4, LogGrow DEF MergeLower
  <2>. QED BY <2>1, <2>2 DEF AccOK, Access
<1>5. CASE BcastWrite(y)
  <2>1. InEpoch(3)
    BY <1>0, <1>5 DEF BcastWrite, Epoch, InEpoch
  <2>2. \A s \in Slots : acc'[s] \subseteq acc[s] \cup {Access(0, "w")}
    BY <1>1, <1>5, LogGrow DEF BcastWrite
  <2>. QED BY <2>1, <2>2 DEF AccOK, Access
<1>6. CASE BcastRead(y)
  <2>1. InEpoch(4)
    BY <1>0, <1>6 DEF BcastRead, Epoch, InEpoch
  <2>2. \A s \in Slots : acc'[s] \subseteq acc[s] \cup {Access(y, "r")}
    BY <1>1, <1>6, LogGrow DEF BcastRead
  <2>. QED BY <2>1, <2>2 DEF AccOK, Access
<1>. QED BY <1>2, <1>3, <1>4, <1>5, <1>6 DEF Warp

\* A warp step keeps the inductive invariant.
LEMMA WarpStepIInv ==
    ASSUME IInv, NEW y \in Warps, Warp(y)
    PROVE  IInv'
<1>1. /\ nchannel' = nchannel /\ off' = off
      /\ pc' = [pc EXCEPT ![y] = pc'[y]]
      /\ pc'[y] \in PC
      /\ acc' \in [Slots -> SUBSET AccT]
      /\ NWarps = 2 => Epoch(pc'[y]) = Epoch(pc[y])
  BY WarpStepControl DEF IInv
<1>2. NWarps' = NWarps /\ Warps' = Warps /\ Slots' = Slots /\ Half' = Half
  BY <1>1 DEF NWarps, Warps, Slots, Half
<1>3. ControlOK'
  <2>1. pc' \in [Warps -> PC]
    BY <1>1 DEF IInv, ControlOK
  <2>2. off' \in [Warps -> 0 .. Half] /\ nchannel' \in Widths
    BY <1>1 DEF IInv, ControlOK
  <2>3. AccT' = AccT
    BY <1>2 DEF AccT
  <2>. QED BY <1>1, <1>2, <2>1, <2>2, <2>3 DEF ControlOK
<1>4. CASE NWarps = 1
  <2>1. Agree'
    BY <1>2, <1>4 DEF Agree
  <2>2. \A s \in Slots' : \A a \in acc'[s] : AccOK(a)'
    BY <1>2, <1>4, Geometry
  <2>. QED BY <1>3, <2>1, <2>2 DEF IInv, RaceInv
<1>5. CASE NWarps = 2
  <2>1. \A z \in Warps : Epoch(pc'[z]) = Epoch(pc[z])
    BY <1>1, <1>5 DEF IInv, ControlOK
  <2>2. Agree'
    BY <1>1, <1>2, <2>1 DEF IInv, RaceInv, Agree
  <2>3. \A a : AccOK(a)' = AccOK(a)
    BY <1>2, <2>1 DEF AccOK, InEpoch
  <2>4. \A s \in Slots : \A a \in acc'[s] : a \in acc[s] \/ AccOK(a)
    BY <1>5, WarpStepAcc DEF IInv
  <2>. QED BY <1>2, <1>3, <2>2, <2>3, <2>4 DEF IInv, RaceInv
<1>. QED BY <1>4, <1>5, Geometry

\* A barrier empties the access log and moves every warp to the next epoch.
LEMMA BarrierIInv ==
    ASSUME IInv, Barrier
    PROVE  IInv'
<1>1. nchannel' = nchannel
  BY DEF Barrier
<1>2. NWarps' = NWarps /\ Warps' = Warps /\ Slots' = Slots /\ Half' = Half
  BY <1>1 DEF NWarps, Warps, Slots, Half
<1>3. \A s \in Slots : acc'[s] = {}
  BY DEF Barrier
<1>4. \A z \in Warps : pc[z] \in SyncPC
  BY DEF Barrier
<1>7. pc' \in [Warps -> PC]
  <2>1. \A z \in Warps : pc'[z] \in PC
    BY <1>4 DEF Barrier, PC, SyncPC
  <2>. QED BY <2>1, Zenon DEF Barrier
<1>5. CASE NWarps = 1
  <2>1. Warps = {0} /\ Half = 0 /\ Slots = {}
    BY <1>5, Geometry DEF Warps, Half
  <2>2. pc' \in [Warps -> PC] /\ off' \in [Warps -> 0 .. Half]
    <3>1. NextOffset(0) = 0
      BY DEF NextOffset
    <3>2. off[0] = 0
      BY <2>1 DEF IInv, ControlOK
    <3>3. off'[0] = 0
      BY <3>1, <3>2, <2>1 DEF Barrier
    <3>4. \A z \in Warps : off'[z] \in 0 .. Half
      BY <2>1, <3>3
    <3>5. off' \in [Warps -> 0 .. Half]
      BY <3>4, Zenon DEF Barrier
    <3>. QED BY <1>7, <3>5
  <2>3. ControlOK'
    BY <1>1, <1>2, <2>1, <2>2 DEF Barrier, IInv, ControlOK, AccT
  <2>. QED BY <1>2, <1>5, <2>1, <2>3 DEF IInv, RaceInv, Agree
<1>6. CASE NWarps = 2
  <2>0. /\ Warps = {0, 1} /\ Half = 1
        /\ \A z \in Warps : Epoch(pc[z]) = Epoch(pc[0])
        /\ \A z \in Warps : off[z] = IF Epoch(pc[z]) \in {1, 2} THEN 1 ELSE 0
    BY <1>6, Geometry DEF IInv, RaceInv, Agree
  <2>1. ASSUME pc[0] = "sync1"
        PROVE  \A z \in Warps : pc'[z] = "merge" /\ off'[z] = 1
    <3>1. \A z \in Warps : pc[z] = "sync1" /\ off[z] = 1
      BY <1>4, <2>0, <2>1 DEF SyncPC, Epoch
    <3>2. \A z \in Warps : pc'[z] = "merge" /\ off'[z] = 1
      BY <3>1 DEF Barrier
    <3>. QED BY <3>2
  <2>2. ASSUME pc[0] = "sync2"
        PROVE  \A z \in Warps : pc'[z] = "bwrite" /\ off'[z] = 0
    <3>1. \A z \in Warps : pc[z] = "sync2" /\ off[z] = 1
      BY <1>4, <2>0, <2>2 DEF SyncPC, Epoch
    <3>2. NextOffset(1) = 0
      BY DEF NextOffset
    <3>3. \A z \in Warps : pc'[z] = "bwrite" /\ off'[z] = 0
      BY <3>1, <3>2 DEF Barrier
    <3>. QED BY <3>3
  <2>3. ASSUME pc[0] = "sync3"
        PROVE  \A z \in Warps : pc'[z] = "bread" /\ off'[z] = 0
    <3>1. \A z \in Warps : pc[z] = "sync3" /\ off[z] = 0
      BY <1>4, <2>0, <2>3 DEF SyncPC, Epoch
    <3>2. \A z \in Warps : pc'[z] = "bread" /\ off'[z] = 0
      BY <3>1 DEF Barrier
    <3>. QED BY <3>2
  <2>4. /\ \A z \in Warps : pc'[z] \in {"merge", "bwrite", "bread"}
        /\ \A z \in Warps : Epoch(pc'[z]) = Epoch(pc'[0])
        /\ \A z \in Warps : off'[z] = IF Epoch(pc'[z]) \in {1, 2} THEN 1 ELSE 0
    BY <2>1, <2>2, <2>3, <2>0, <1>4 DEF SyncPC, Epoch
  <2>5. pc' \in [Warps -> PC] /\ off' \in [Warps -> 0 .. Half]
    <3>1. pc' \in [Warps -> PC]
      BY <1>7
    <3>2. \A z \in Warps : off'[z] \in {0, 1}
      BY <2>4
    <3>3. off' \in [Warps -> 0 .. Half]
      BY <2>0, <3>2 DEF Barrier
    <3>. QED BY <3>1, <3>3
  <2>6. ControlOK'
    BY <1>1, <1>2, <2>5 DEF Barrier, IInv, ControlOK, AccT
  <2>7. Agree'
    BY <1>2, <2>0, <2>4 DEF Agree
  <2>. QED BY <1>2, <1>3, <2>6, <2>7 DEF IInv, RaceInv
<1>. QED BY <1>5, <1>6, Geometry

\* Every step of the block keeps the inductive invariant.
LEMMA NextIInv == IInv /\ [Next]_vars => IInv'
<1> SUFFICES ASSUME IInv, [Next]_vars PROVE IInv'
  OBVIOUS
<1>1. CASE \E y \in Warps : Warp(y)
  BY <1>1, WarpStepIInv
<1>2. CASE Barrier
  BY <1>2, BarrierIInv
<1>3. CASE Terminated \/ UNCHANGED vars
  <2>1. /\ nchannel' = nchannel /\ pc' = pc /\ msk' = msk /\ off' = off
        /\ t' = t /\ shm' = shm /\ acc' = acc /\ grad' = grad
    BY <1>3 DEF Terminated, vars
  <2>2. NWarps' = NWarps /\ Warps' = Warps /\ Slots' = Slots /\ Half' = Half
    BY <2>1 DEF NWarps, Warps, Slots, Half
  <2>3. ControlOK'
    <3>1. AccT' = AccT
      BY <2>2 DEF AccT
    <3>. QED BY <2>1, <2>2, <3>1 DEF IInv, ControlOK
  <2>4. Agree'
    BY <2>1, <2>2, Zenon DEF IInv, RaceInv, Agree
  <2>5. \A a : AccOK(a)' = AccOK(a)
    BY <2>1, <2>2, Zenon DEF AccOK, InEpoch
  <2>. QED BY <2>1, <2>2, <2>3, <2>4, <2>5 DEF IInv, RaceInv
<1>. QED BY <1>1, <1>2, <1>3 DEF Next

-----------------------------------------------------------------------------
\* Race freedom of the backward data kernel's shared memory: in every run
\* of one block, for every warp size, load width and row width, no slot of
\* sum_val0_buf or sum_val1_buf is written by one warp and read or written
\* by another between two __syncthreads() (the inter-warp all-reduce of
\* LayerNormFusedBackwardKernel_Data, lines 458-490).
THEOREM DataRaceFree == Spec => []NoSharedRace
<1>1. Init => IInv
  BY InitIInv
<1>2. IInv /\ [Next]_vars => IInv'
  BY NextIInv
<1>3. IInv => NoSharedRace
  <2> SUFFICES ASSUME IInv, NEW s \in Slots, NEW a \in acc[s], NEW b \in acc[s],
                      a.warp # b.warp
               PROVE  a.kind = "r" /\ b.kind = "r"
    BY DEF NoSharedRace
  <2>1. a.kind \in {"r", "w"} /\ b.kind \in {"r", "w"} /\ AccOK(a) /\ AccOK(b)
    BY DEF IInv, ControlOK, AccT, RaceInv
  <2>2. CASE a.kind = "w"
    BY <2>1, <2>2, EpochsDisjoint DEF AccOK
  <2>3. CASE b.kind = "w"
    BY <2>1, <2>3, EpochsDisjoint DEF AccOK
  <2>. QED BY <2>1, <2>2, <2>3
<1>. QED BY <1>1, <1>2, <1>3, PTL DEF Spec

=============================================================================
