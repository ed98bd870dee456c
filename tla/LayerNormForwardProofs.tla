----------------------- MODULE LayerNormForwardProofs -----------------------
(***************************************************************************)
(* Proofs about LayerNormForward, for every warp size, round count and set *)
(* of row widths.                                                          *)
(***************************************************************************)
EXTENDS LayerNormForward, FiniteSetTheorems, TLAPS

\* The value of any lane's triple after Chan's merge is type-correct.
LEMMA ChanMergeType ==
    ASSUME NEW l \in [mean : Val, sigma2 : Val, count : Val],
           NEW r \in [mean : Val, sigma2 : Val, count : Val]
    PROVE  ChanMergePartition(l, r) \in [mean : Val, sigma2 : Val, count : Val]
<1>1. CASE Consistent(l) /\ Consistent(r)
  <2>1. l.count \in Bag /\ r.count \in Bag
    BY <1>1 DEF Consistent, Val
  <2>2. BagSum(l.count, r.count) \in Bag
    BY <2>1, SMT DEF BagSum, Bag, Mult
  <2>. QED BY <1>1, <2>2 DEF ChanMergePartition, Triple, Val
<1>2. CASE ~(Consistent(l) /\ Consistent(r))
  BY <1>2 DEF ChanMergePartition, GarbageTriple, Triple, Val
<1>. QED BY <1>1, <1>2

\* The cells a lane accumulates form a bag.
LEMMA AccumulateType ==
    ASSUME NEW tid
    PROVE  BlockWelfordOnlineSum(tid) \in [mean : Val, sigma2 : Val, count : Val]
<1>1. [c \in Cells |-> IF \/ \E l \in ChunkStarts(tid) : l + 3 < nchannel /\ c \in l .. l + 3
                          \/ TailStart(tid) <= c /\ c < nchannel
                       THEN 1 ELSE 0] \in Bag
  BY SMT DEF Bag, Mult
<1>. QED BY <1>1 DEF BlockWelfordOnlineSum, Triple, Val

\* Updating one point of a function keeps it in its function set, whether or
\* not the point is in the domain (an out-of-domain EXCEPT changes nothing).
LEMMA ExceptType ==
    ASSUME NEW S, NEW T, NEW f \in [S -> T], NEW a, NEW b \in T
    PROVE  [f EXCEPT ![a] = b] \in [S -> T]
OBVIOUS

\* The lanes of a warp are a finite set of thread indices.
LEMMA LanesFinite == IsFiniteSet(Lanes) /\ Lanes \subseteq Nat
BY WarpSizeAssumption, FS_Interval DEF Lanes

\* The type invariant.
THEOREM TypeCorrect == Spec => []TypeOK
<1>1. Init => TypeOK
  <2> SUFFICES ASSUME Init PROVE TypeOK
    OBVIOUS
  <2>1. t \in [Warps -> [Lanes -> [mean : Val, sigma2 : Val, count : Val]]]
    <3>1. Triple(EmptyBag) \in [mean : Val, sigma2 : Val, count : Val]
      BY DEF Triple, EmptyBag, Val, Bag, Mult
    <3>. QED BY <3>1 DEF Init
  <2>2. off \in [Warps -> 0 .. Half]
    <3>1. Half \in Nat
      BY SMT DEF Half, NWarps, MaxWarps
    <3>. QED BY <3>1 DEF Init
  <2>3. rnd \in [Warps -> 0 .. ShflRounds]
    BY ShflRoundsAssumption DEF Init
  <2>4. pc \in [Warps -> PC] /\ nchannel \in Widths
    BY DEF Init, PC, SyncPC
  <2>5. /\ shm \in [Slots -> [comp : {"none", "mean", "sigma2", "count"}, val : Val]]
        /\ acc \in [Slots -> SUBSET [warp : Warps, kind : {"r", "w"}]]
    BY DEF Init, Val
  <2>6. /\ out \in [0 .. MaxWidth - 1 -> [n : Nat, mean : Val, var : Val]]
        /\ stat \in [n : Nat, mean : Val, std : Val]
    BY DEF Init, Val
  <2>. QED BY <2>1, <2>2, <2>3, <2>4, <2>5, <2>6 DEF TypeOK
<1>2. TypeOK /\ [Next]_vars => TypeOK'
  <2> SUFFICES ASSUME TypeOK, [Next]_vars PROVE TypeOK'
    OBVIOUS
  <2>. DEFINE Rec == [mean : Val, sigma2 : Val, count : Val]
              ShmT == [comp : {"none", "mean", "sigma2", "count"}, val : Val]
              AccT == [warp : Warps, kind : {"r", "w"}]
  <2>a. /\ nchannel \in Widths
        /\ pc \in [Warps -> PC]
        /\ rnd \in [Warps -> 0 .. ShflRounds]
        /\ off \in [Warps -> 0 .. Half]
    BY DEF TypeOK
  <2>b. t \in [Warps -> [Lanes -> Rec]]
    BY DEF TypeOK
  <2>c. shm \in [Slots -> ShmT] /\ acc \in [Slots -> SUBSET AccT]
    BY DEF TypeOK
  <2>d. out \in [0 .. MaxWidth - 1 -> [n : Nat, mean : Val, var : Val]]
        /\ stat \in [n : Nat, mean : Val, std : Val]
    BY DEF TypeOK
  <2>0. Warps' = Warps /\ Slots' = Slots /\ Half' = Half
    <3>. nchannel' = nchannel
      BY DEF Next, vars, Warp, Accumulate, ShflRound, WarpBroadcast, WriteUpper,
             MergeLower, BcastWrite, BcastRead, WriteOutput, Barrier, Terminated
    <3>. QED BY DEF Warps, Slots, Half, NWarps
  <2>1. ASSUME NEW y \in Warps, Accumulate(y) PROVE TypeOK'
    <3>1. t' \in [Warps -> [Lanes -> Rec]]
      BY <2>1, <2>b, AccumulateType DEF Accumulate
    <3>2. pc' \in [Warps -> PC]
      BY <2>1, <2>a DEF Accumulate, PC, SyncPC
    <3>. QED BY <2>0, <2>1, <2>a, <2>c, <2>d, <3>1, <3>2 DEF Accumulate, TypeOK
  <2>2. ASSUME NEW y \in Warps, ShflRound(y) PROVE TypeOK'
    <3>1. \A x \in Lanes : SrcLane(x, rnd[y]) \in Lanes
      BY <2>a, WarpSizeAssumption, SMT DEF SrcLane, Lanes
    <3>2. t' \in [Warps -> [Lanes -> Rec]]
      BY <2>2, <2>b, <3>1, ChanMergeType DEF ShflRound
    <3>3. rnd' \in [Warps -> 0 .. ShflRounds]
      BY <2>2, <2>a, ShflRoundsAssumption DEF ShflRound
    <3>4. pc' \in [Warps -> PC]
      BY <2>2, <2>a DEF ShflRound, PC, SyncPC
    <3>. QED BY <2>0, <2>2, <2>a, <2>c, <2>d, <3>2, <3>3, <3>4 DEF ShflRound, TypeOK
  <2>3. ASSUME NEW y \in Warps, WarpBroadcast(y) PROVE TypeOK'
    <3>1. 0 \in Lanes
      BY WarpSizeAssumption DEF Lanes
    <3>2. t' \in [Warps -> [Lanes -> Rec]]
      BY <2>3, <2>b, <3>1 DEF WarpBroadcast
    <3>3. pc' \in [Warps -> PC]
      BY <2>3, <2>a DEF WarpBroadcast, PC, SyncPC
    <3>. QED BY <2>0, <2>3, <2>a, <2>c, <2>d, <3>2, <3>3 DEF WarpBroadcast, TypeOK
  <2>4. ASSUME NEW y \in Warps, WriteUpper(y) PROVE TypeOK'
    <3>1. pc' \in [Warps -> PC]
      BY <2>4, <2>a DEF WriteUpper, PC, SyncPC
    <3>2. Access(y, "w") \in AccT
      BY DEF Access
    <3>3. t[y][0] \in Rec
      BY <2>b, WarpSizeAssumption DEF Lanes
    <3>4. CASE off[y] <= y /\ y < 2 * off[y]
      <4>. DEFINE idx == y - off[y]
                  s1 == [shm EXCEPT ![MeanBuf(idx)] = [comp |-> "mean", val |-> t[y][0].mean]]
                  s2 == [s1 EXCEPT ![Sigma2Buf(idx)] = [comp |-> "sigma2", val |-> t[y][0].sigma2]]
                  a1 == [acc EXCEPT ![MeanBuf(idx)] = @ \cup {Access(y, "w")}]
                  a2 == [a1 EXCEPT ![Sigma2Buf(idx)] = @ \cup {Access(y, "w")}]
      <4>1. s1 \in [Slots -> ShmT]
        BY <2>c, <3>3, ExceptType
      <4>2. s2 \in [Slots -> ShmT]
        BY <4>1, <3>3, ExceptType
      <4>3. [s2 EXCEPT ![CountBuf(idx)] = [comp |-> "count", val |-> t[y][0].count]]
              \in [Slots -> ShmT]
        BY <4>2, <3>3, ExceptType
      <4>4. a1 \in [Slots -> SUBSET AccT]
        BY <2>c, <3>2, Zenon
      <4>5. a2 \in [Slots -> SUBSET AccT]
        BY <4>4, <3>2, Zenon
      <4>6. [a2 EXCEPT ![CountBuf(idx)] = @ \cup {Access(y, "w")}] \in [Slots -> SUBSET AccT]
        BY <4>5, <3>2, Zenon
      <4>7. shm' \in [Slots -> ShmT] /\ acc' \in [Slots -> SUBSET AccT]
        BY <2>4, <3>4, <4>3, <4>6 DEF WriteUpper
      <4>. QED BY <2>0, <2>4, <2>a, <2>b, <2>d, <3>1, <4>7 DEF WriteUpper, TypeOK
    <3>5. CASE ~(off[y] <= y /\ y < 2 * off[y])
      BY <2>0, <2>4, <2>a, <2>b, <2>c, <2>d, <3>1, <3>5 DEF WriteUpper, TypeOK
    <3>. QED BY <3>4, <3>5
  <2>5. ASSUME NEW y \in Warps, MergeLower(y) PROVE TypeOK'
    <3>1. pc' \in [Warps -> PC]
      BY <2>5, <2>a DEF MergeLower, PC, SyncPC
    <3>2. Access(y, "r") \in AccT
      BY DEF Access
    <3>3. CASE y < off[y]
      <4>. DEFINE lhs == [mean |-> Read(MeanBuf(y), "mean"),
                          sigma2 |-> Read(Sigma2Buf(y), "sigma2"),
                          count |-> Read(CountBuf(y), "count")]
                  a1 == [acc EXCEPT ![MeanBuf(y)] = @ \cup {Access(y, "r")}]
                  a2 == [a1 EXCEPT ![Sigma2Buf(y)] = @ \cup {Access(y, "r")}]
      <4>1. lhs \in Rec
        BY <2>c DEF Read, Val
      <4>2. t[y][0] \in Rec
        BY <2>b, WarpSizeAssumption DEF Lanes
      <4>3. ChanMergePartition(lhs, t[y][0]) \in Rec
        BY <4>1, <4>2, ChanMergeType
      <4>4. t' \in [Warps -> [Lanes -> Rec]]
        <5>1. [t[y] EXCEPT ![0] = ChanMergePartition(lhs, t[y][0])] \in [Lanes -> Rec]
          BY <2>b, <4>3, ExceptType
        <5>2. [t EXCEPT ![y] = [t[y] EXCEPT ![0] = ChanMergePartition(lhs, t[y][0])]]
                \in [Warps -> [Lanes -> Rec]]
          BY <2>b, <5>1, ExceptType
        <5>3. t' = [t EXCEPT ![y] = [t[y] EXCEPT ![0] = ChanMergePartition(lhs, t[y][0])]]
          BY <2>5, <3>3 DEF MergeLower
        <5>. QED BY <5>2, <5>3
      <4>5. a1 \in [Slots -> SUBSET AccT]
        BY <2>c, <3>2, Zenon
      <4>6. a2 \in [Slots -> SUBSET AccT]
        BY <4>5, <3>2, Zenon
      <4>7. [a2 EXCEPT ![CountBuf(y)] = @ \cup {Access(y, "r")}] \in [Slots -> SUBSET AccT]
        BY <4>6, <3>2, Zenon
      <4>8. acc' \in [Slots -> SUBSET AccT]
        BY <2>5, <3>3, <4>7 DEF MergeLower
      <4>. QED BY <2>0, <2>5, <2>a, <2>c, <2>d, <3>1, <4>4, <4>8 DEF MergeLower, TypeOK
    <3>4. CASE ~(y < off[y])
      BY <2>0, <2>5, <2>a, <2>b, <2>c, <2>d, <3>1, <3>4 DEF MergeLower, TypeOK
    <3>. QED BY <3>3, <3>4
  <2>6. ASSUME NEW y \in Warps, BcastWrite(y) PROVE TypeOK'
    <3>1. pc' \in [Warps -> PC]
      BY <2>6, <2>a DEF BcastWrite, PC, SyncPC
    <3>2. Access(y, "w") \in AccT
      BY DEF Access
    <3>3. CASE y = 0
      <4>. DEFINE s1 == [shm EXCEPT ![MeanBuf(0)] = [comp |-> "mean", val |-> t[0][0].mean]]
                  a1 == [acc EXCEPT ![MeanBuf(0)] = @ \cup {Access(y, "w")}]
      <4>1. t[0][0] \in Rec
        BY <2>b, <3>3, WarpSizeAssumption DEF Lanes
      <4>2. s1 \in [Slots -> ShmT]
        BY <2>c, <4>1, ExceptType
      <4>3. [s1 EXCEPT ![Sigma2Buf(0)] = [comp |-> "sigma2", val |-> t[0][0].sigma2]]
              \in [Slots -> ShmT]
        BY <4>2, <4>1, ExceptType
      <4>4. a1 \in [Slots -> SUBSET AccT]
        BY <2>c, <3>2, Zenon
      <4>5. [a1 EXCEPT ![Sigma2Buf(0)] = @ \cup {Access(y, "w")}] \in [Slots -> SUBSET AccT]
        BY <4>4, <3>2, Zenon
      <4>6. shm' \in [Slots -> ShmT] /\ acc' \in [Slots -> SUBSET AccT]
        BY <2>6, <3>3, <4>3, <4>5 DEF BcastWrite
      <4>. QED BY <2>0, <2>6, <2>a, <2>b, <2>d, <3>1, <4>6 DEF BcastWrite, TypeOK
    <3>4. CASE y # 0
      BY <2>0, <2>6, <2>a, <2>b, <2>c, <2>d, <3>1, <3>4 DEF BcastWrite, TypeOK
    <3>. QED BY <3>3, <3>4
  <2>7. ASSUME NEW y \in Warps, BcastRead(y) PROVE TypeOK'
    <3>. DEFINE Lane(x) == [mean |-> Read(MeanBuf(0), "mean"),
                            sigma2 |-> Read(Sigma2Buf(0), "sigma2"),
                            count |-> t[y][x].count]
                a1 == [acc EXCEPT ![MeanBuf(0)] = @ \cup {Access(y, "r")}]
    <3>1. pc' \in [Warps -> PC]
      BY <2>7, <2>a DEF BcastRead, PC, SyncPC
    <3>2. \A x \in Lanes : Lane(x) \in Rec
      BY <2>b, <2>c DEF Read, Val
    <3>3. t' \in [Warps -> [Lanes -> Rec]]
      BY <2>7, <2>b, <3>2 DEF BcastRead
    <3>4. Access(y, "r") \in AccT
      BY DEF Access
    <3>5. a1 \in [Slots -> SUBSET AccT]
      BY <2>c, <3>4, Zenon
    <3>6. [a1 EXCEPT ![Sigma2Buf(0)] = @ \cup {Access(y, "r")}] \in [Slots -> SUBSET AccT]
      BY <3>5, <3>4, Zenon
    <3>7. acc' \in [Slots -> SUBSET AccT]
      BY <2>7, <3>6 DEF BcastRead
    <3>. QED BY <2>0, <2>7, <2>a, <2>c, <2>d, <3>1, <3>3, <3>7 DEF BcastRead, TypeOK
  <2>8. ASSUME NEW y \in Warps, WriteOutput(y) PROVE TypeOK'
    <3>. DEFINE W(i) == {x \in Lanes : i \in OutChannels(Tid(x, y))}
    <3>1. pc' \in [Warps -> PC]
      BY <2>8, <2>a DEF WriteOutput, PC, SyncPC
    <3>2. \A i \in DOMAIN out : Cardinality(W(i)) \in Nat
      <4>1. \A i \in DOMAIN out : IsFiniteSet(W(i))
        BY LanesFinite, FS_Subset
      <4>. QED BY <4>1, FS_CardinalityType
    <3>3. \A i \in DOMAIN out : W(i) # {} =>
             [n |-> out[i].n + Cardinality(W(i)),
              mean |-> t[y][CHOOSE x \in W(i) : TRUE].mean,
              var |-> t[y][CHOOSE x \in W(i) : TRUE].sigma2] \in [n : Nat, mean : Val, var : Val]
      <4>1. SUFFICES ASSUME NEW i \in DOMAIN out, W(i) # {}
                     PROVE  [n |-> out[i].n + Cardinality(W(i)),
                             mean |-> t[y][CHOOSE x \in W(i) : TRUE].mean,
                             var |-> t[y][CHOOSE x \in W(i) : TRUE].sigma2]
                            \in [n : Nat, mean : Val, var : Val]
        OBVIOUS
      <4>2. (CHOOSE x \in W(i) : TRUE) \in Lanes
        BY <4>1
      <4>3. t[y][CHOOSE x \in W(i) : TRUE] \in Rec
        BY <2>b, <4>2
      <4>4. out[i].n + Cardinality(W(i)) \in Nat
        BY <2>d, <3>2
      <4>. QED BY <4>3, <4>4
    <3>4. out' \in [0 .. MaxWidth - 1 -> [n : Nat, mean : Val, var : Val]]
      BY <2>8, <2>d, <3>3 DEF WriteOutput
    <3>5. stat' \in [n : Nat, mean : Val, std : Val]
      <4>1. y = 0 => t[0][0] \in Rec
        BY <2>b, WarpSizeAssumption DEF Lanes
      <4>. QED BY <2>8, <2>d, <4>1 DEF WriteOutput
    <3>. QED BY <2>0, <2>8, <2>a, <2>b, <2>c, <3>1, <3>4, <3>5 DEF WriteOutput, TypeOK
  <2>9. CASE Barrier
    <3>1. off' \in [Warps -> 0 .. Half]
      BY <2>9, <2>a, SMT DEF Barrier, NextOffset, Half, NWarps, MaxWarps
    <3>2. pc' \in [Warps -> PC]
      BY <2>9 DEF Barrier, PC, SyncPC
    <3>3. acc' \in [Slots -> SUBSET AccT]
      BY <2>9 DEF Barrier
    <3>. QED BY <2>0, <2>9, <2>a, <2>b, <2>c, <2>d, <3>1, <3>2, <3>3 DEF Barrier, TypeOK
  <2>10. CASE UNCHANGED vars
    BY <2>0, <2>10, <2>a, <2>b, <2>c, <2>d DEF vars, TypeOK
  <2>. QED BY <2>1, <2>2, <2>3, <2>4, <2>5, <2>6, <2>7, <2>8, <2>9, <2>10
           DEF Next, Warp, Terminated
<1>. QED BY <1>1, <1>2, PTL DEF Spec

=============================================================================
