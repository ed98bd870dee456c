# Verification of the fused layer-norm CUDA kernels

This directory holds TLA+ models of `src/src/operator/nn/layer_norm.cu` (the
fused GPU layer normalisation: the forward kernel, the two backward kernels and
their host-side dispatch), the TLC configurations that check them, and TLAPS
proofs of their main invariants.

## 1. The system

| part | code | state | operations |
|---|---|---|---|
| Online accumulator | `StepWelfordOnlineSum` (72-81), `BlockWelfordOnlineSum` (113-134) | per-lane (mean, sigma2, count) registers | one step per channel, chunks of 4 then a tail |
| Partition merger | `ChanMergePartition` (90-110) | two triples | merge lhs into rhs, 0 on an empty union |
| Lane reduction | forward 175-185 (rotate shuffle), data kernel 455-459 (XOR all-reduce) | registers of the 32 lanes of a warp | one round per shift distance, lock step |
| Group reduction | forward 186-214, data kernel 460-487 | dynamic shared memory `buf[]` | halving loop (upper half stores, barrier, lower half merges, barrier), then broadcast through slot 0 and a third barrier |
| Forward kernel | `LayerNormFusedForwardKernelContig` (148-243) | one block per row | accumulate, reduce, write `out_data`, thread (0,0) writes `mean_data`/`std_data` |
| Parameter-gradient kernel | `LayerNormFusedBackwardKernel_GammaBeta` (320-415) | one block of 128 threads | each thread sums the batch for its 4-wide chunks, then for its tail channels, and writes `gamma_grad`/`beta_grad` |
| Data-gradient kernel | `LayerNormFusedBackwardKernel_Data` (417-506) | one block per row | two row sums, all-reduced over the block, then `data_grad` |
| Dispatch | `LayerNormGPUContig`, `LayerNormCompute<gpu>` (245-315), `LayerNormGradGPUContig`, `LayerNormGradCompute<gpu>` (508-611) | requests, `param.axis`, buffers, the CUDA stream | request checks, axis normalisation and CHECK, hand-off to the general fallback, contiguity CHECKs, kernel launches |

How they interact: the host enqueues the forward kernel, then the gamma/beta
kernel and the data kernel, on one stream. The device runs them in FIFO order,
concurrently with the host. The backward kernels read the `mean_data`/`std_data`
the forward kernel saved. Inside a kernel, lanes of a warp run in lock step;
warps interleave and meet only at `__syncthreads()`.

The general fallback (`LayerNormComputeGeneral`, used for any axis but the
last) is not in this repository. The dispatch model represents it by its
effect, as the spec describes it (marked `spec_modelled` in the map): kernels
on the same stream that write every element of each requested buffer once.

Not in scope: `Executor.scala` (the Scala resource wrapper: `dispose`,
`reshape`, binding; native calls, outside the numerical core);
`src/unnamed/part_000` (registration of argmax/argmin/pick: declarative, no
state); the general fallback `LayerNormComputeGeneral` and shape inference
(not under `src/`).

### What is hard to test here

- shared-memory races between warps in the halving loops, which occur only when a barrier is missing or misplaced and only under some warp schedules;
- index arithmetic of the chunk and tail loops at every width (widths below 4, exact multiples, a second grid-stride pass);
- whether every reduction counts each lane's partition exactly once;
- barriers under loops and branches: a block hangs if warps disagree on the number of barriers;
- ordering of kernels on the stream against the host's calls, CHECKs after launches, early returns on kNullOp;
- Welford/Chan arithmetic on empty partitions.

## 2. Modules

| module | models | how |
|---|---|---|
| `LayerNormRow` | the row contract of the forward kernel | abstract: `RowWrite` writes any out_data elements of the row not yet written, each from the row's statistics, and mean/std at most once. No threads, no shared memory. |
| `LayerNormForward` | forward kernel, one block, with its block shape | a warp is one actor; one action per statement group (`Accumulate`, `ShflRound`, `WarpBroadcast`, `WriteUpper`, `MergeLower`, `BcastWrite`, `BcastRead`, `WriteOutput`); `Barrier` is a joint action enabled when every warp is at a `__syncthreads()`. A triple is abstracted to the bag of row cells it summarises (multiplicity capped at 2), a merge to the bag sum; reading a shared slot holding another component, or never written, gives `Garbage`. `acc` logs the slots each warp read or wrote since the last barrier. |
| `LayerNormBackwardData` | data-gradient kernel, one block | same structure; `sum_val0`/`sum_val1` are bags of channels; `DataTid(x, y) == x` is the code's `tid = threadIdx.x`. |
| `LayerNormBackwardGammaBeta` | gamma/beta kernel, one block | one action per chunk iteration of a warp (its lanes share nothing), then the tail; a gradient element records how many sums were written into it, whether the old value survives, and the statistics row each batch term used. |
| `LayerNormDispatch` | host calls and the stream | host program counter `hpc` through forward and backward calls, modelled as ordered IF chains of the code's early returns and CHECKs: the request checks, then the axis (`NormAxis`, `AxisInRange`, `LastAxis`; another axis hands over to the fallback, `GeneralForward`/`EnqueueGeneral`), then the contiguity CHECKs; `stream` a FIFO of kernel records; `DeviceRun` executes the head, concurrently with the host. A kernel is modelled by its effect on the buffers it writes (`Execute`, one operator per kernel). An element holds copies of its old value and correctly computed gradients (`El`), and a buffer is the set of its elements' contents, so that a partly written buffer is visible. `nchannel` is chosen at the start from `Widths`. `GammaBetaWrite` (338-412) stores into the whole LOAD_UNROLL chunks only under addto and into the tail with "=" or "+=". `DataWrite` (426-505) writes every element once with one warp; with two warps it leaves some elements old and writes the others from wrong sums. `GeneralEffect`, the fallback's kernels, writes every element once. |
| `WelfordChan` | `StepWelfordOnlineSum`, `ChanMergePartition` | exact rationals; two lanes fold partitions and merge, compared with the two-pass definition (a fold from `SequencesExt`). TLC only. |
| `LayerNormForwardProofs`, `LayerNormForwardRaceProofs`, `LayerNormForwardRowProofs`, `LayerNormDispatchProofs`, `LayerNormBackwardDataProofs`, `LayerNormBackwardDataGradProofs`, `LayerNormBackwardGammaBetaProofs` | proofs | see section 4. |

Each `MC*` module fixes the constants for TLC. PROJECT.json's `map` names the
source lines of every definition.

Compile errors of the source are read with their evident intent:
- `no_gamma`/`no_beta` (396, 405) are undeclared; they are taken as false;
- `beta.dptr` (547) names an undeclared `beta`; the model takes `beta_grad`;
- assigning `dimBlock.y` (574-576) to a `const dim3`; the model uses the intended 1 or 2 warps;
- the launches `<<<..., dimBlock, stream>>>` pass the stream as the shared-memory size. A `cudaStream_t` does not convert to `size_t`, so this is a compile error and not a runtime hazard. The model assumes the size the kernel indexes.

## 3. Runs

WarpSize is 4 instead of 32 (2 rounds instead of 5), so a block with more than
one warp appears at small widths. "nchannel <= 32" becomes "nchannel <=
WarpSize", keeping the one-warp/two-warp switch. The widths cover each loop
shape: tails of length 0 to 3, rows narrower than one load, rows needing a
second grid-stride pass (35, 38), a second whole chunk for a lane (38).
The dispatch runs use rows of 3, 8 and 42 channels. 3 has only a tail, 8 only
whole chunks, and 42 both and two warps for the Data kernel. These are the
three cases in which the fused kernels' coverage differs.

| run | checks | result |
|---|---|---|
| forward_block | TypeOK, NoSharedRace, BroadcastStats, OutputComplete, Termination | pass |
| backward_data_block | TypeOK, NoSharedRace, ReducedSums, NarrowDataGradComplete, Termination | pass |
| backward_data_wide | DataGradComplete on two-warp rows | violation: `tid = threadIdx.x` (430) |
| gammabeta_pass | TypeOK, ChannelPartition, AddToGradComplete (2 warps x 2 lanes, LOAD_UNROLL 2, all request pairs) | pass |
| gammabeta_writeto | GradWrittenAsRequested under kWriteTo | violation: chunk loop writes only under addto (367-378) |
| gammabeta_stats | GammaGradStats | violation: `mean_data[l + i]` (343) |
| dispatch_pass | TypeOK, SupportedRequestsHonoured, StatsBeforeBackward, FailBeforeLaunch; `param.axis` in {-1, 0, 2} of a 2-d input (last axis, fallback, out of range), widths {3, 8, 42} | pass |
| dispatch_data_modes | RequestsHonoured, data_grad kNullOp or kAddTo | violation: return on `req[0] == kNullOp` (599), `CHECK_NE(req[0], kAddTo)` (600) |
| dispatch_gamma_param | ParamsReadOnly | violation: `gamma_grad_ptr = gamma.dptr` (546) |
| dispatch_late_check | FailBeforeLaunch | violation: data_grad CHECK after the launch (569) |
| dispatch_fwd_null | StatsBeforeBackward | violation: forward returns on kNullOp without mean/std (303) |
| welford_chan | WelfordExact, MergeExact over values {-1, 0, 3}, partitions of up to 2 | pass |

The deep properties are these:
- `NoSharedRace`: no slot is accessed by two warps between two barriers, unless both accesses are reads.
- `BroadcastStats` / `ReducedSums`: every thread leaving the reduction holds the whole row, each cell counted once. This relates the results of all warps across three protocols.
- `OutputComplete` / `DataGradComplete`: every output element is written exactly once.
- `ChannelPartition`: the threads' chunks and tails partition the channels.
- `StatsBeforeBackward`: an ordering property across host, stream and device.
- `FailBeforeLaunch`: no partial effect of a rejected call.
- `SupportedRequestsHonoured`: for each supported combination of the three requests, the buffers hold what each request asks once the stream drains. This composes the host's early returns and CHECKs, the launches, and the fused kernels' element coverage. `SupportedReqs` names the combinations: data_grad not kAddTo, gamma_grad and beta_grad only with data_grad, and on the fused path no gamma_grad, beta_grad kWriteTo only for rows with no whole LOAD_UNROLL chunk, data_grad only for rows of at most 32 channels. Outside it the findings apply.

The dispatch runs other than `dispatch_pass` fix `param.axis` to the last axis, so that each isolates a disagreement on the fused path.

Each property of a passing run is broken by a mutant of the code it is about
(PROJECT.json `mutants`). The mutants are a missing barrier, an off-by-one loop
bound, a buffer offset without stride, an extra shuffle round, a rounded-up
halving, launch branches without their `else`, and kernels out of stream order.

Fairness: `FairSpec` assumes weak fairness for each resident warp and for the
barrier. A launched block's warps keep being scheduled by the hardware; no warp
waits on anything but `__syncthreads()`. The dispatch model has no liveness
property. Deadlock is checked in every run: the final states are explicit
stuttering steps (`Terminated`).

## 4. Proofs

- `LayerNormForwardProofs.TypeCorrect`: `Spec => []TypeOK` for the forward model,
  for every WarpSize = 2^ShflRounds and every finite set of widths. TypeOK is
  inductive as it stands. The proof has one step per action. It rests on lemmas
  about the merge (`ChanMergeType`), the accumulate result, and EXCEPT on nested
  functions (`ExceptType`), and on the finiteness of the lanes.
- `LayerNormDispatchProofs.StatsOrdered`: `Spec => [](fr # "null" =>
  StatsBeforeBackward)` for all sets of requests and non-contiguous buffers.
  Host backward steps may also hand two fallback kernels to the stream
  (`ConcatHead`). `StatsBeforeBackward` is not inductive. The strengthening
  `IInv` adds:
  - the stream is empty while the host is in the forward call;
  - `ForwardFirst`: while the statistics are unset, either nothing is queued and the host has not passed the forward call, or the forward kernel is at the head of the stream.

  Host backward steps only append behind the head (lemmas `AppendHead` and
  `BackwardHostStep`). A device step that runs a non-forward kernel with unset
  statistics would contradict `ForwardFirst`. The hypothesis `fr # "null"` is
  necessary: the run `dispatch_fwd_null` shows that the property fails
  without it.

- `LayerNormForwardRaceProofs.RaceFree`: `Spec => []NoSharedRace` for every
  warp size and set of widths. `NoSharedRace` is not inductive. With two
  warps, the three barriers cut a run into four epochs, and the strengthening
  `RaceInv` says:
  - `Agree`: the warps agree on the epoch, no warp is at the one-warp broadcast, and the halving offset is 1 before the second barrier and 0 after it;
  - `AccOK`: each logged access is one its epoch allows (writes by warp 1 in epoch 1 or by warp 0 in epoch 3, reads only in epochs 2 and 4).

  With one warp the block allocates no slots. Each barrier empties the log
  (`BarrierRace`). A warp step stays in its epoch (`WarpStepAgree`), and a
  logged access is allowed (`WarpStepAcc`). Two accesses by different warps
  would need two epochs at once (`EpochsDisjoint`). The proof reuses
  `TypeCorrect`.
- `LayerNormForwardRowProofs.RowRefined`: `Spec /\ []BroadcastStats =>
  RowRefinement` for every warp size and set of widths: the block implements
  the abstract row contract `LayerNormRow` (`Row == INSTANCE LayerNormRow
  WITH ...`, mapping `nchannel`, `out` and `stat` by name). No run checks
  `RowRefinement`: on TLC's instances `OutputComplete` and `Termination`
  already say what it says. The proof is the route to `OutputCompleteGiven`.
  - The invariant `OutInv`: out_data[i] is written exactly when warp `Owner(i) = (i % nthread) \div 32` has finished, and mean/std exactly when warp 0 has.
  - Its core is the arithmetic of the grid-stride loop: `StrideResidue`, `TidSplit`, `OutOwner`. Thread `tid` visits i exactly when `i % nthread = tid`, so `WriteOutput` writes each element once, and only its owner does.
  - Every other step is a stuttering step of the row.
  - `BroadcastStats` (the statistics every thread holds) is a hypothesis: TLC checks it.
- `LayerNormForwardRowProofs.OutputCompleteGiven`: `Spec /\ []BroadcastStats =>
  []OutputComplete`, from the same `OutInv` (lemma `RowStep`). Once every warp
  is done, the owner of each element has written it. The argument also needs
  `nchannel <= MaxWidth`, so that the row fits the buffer. This comes from the
  assumption `WidestWidthAssumption` of LayerNormForward, for the reason given
  under the GammaBeta proofs below.
- `BroadcastStats` itself is not proved. The intra-warp merge reads lane
  `(x + 2^l) % 32` in round `l`. The argument that after round `l` a lane
  holds exactly the `2^(l+1)` lanes after it needs `2^(l+1) = 2 * 2^l` for a
  symbolic `l`, a fact no installed prover derives.
- `LayerNormDispatchProofs.NoPartialLaunch`: `Spec => [](nc # "data_grad" =>
  FailBeforeLaunch)` for all request sets, axes and non-contiguous buffers.
  The invariant `LaunchInv` states two facts:
  - nothing is launched before the GammaBeta launch;
  - a rejected call launched nothing unless data_grad is the non-contiguous buffer.

  The data_grad CHECK (569) is the one rejection that comes after a launch:
  this is the run `dispatch_late_check`.
- `LayerNormDispatchProofs.DispatchTypeCorrect`, `SupportedHonoured` and
  `GammaWrittenOnlyFused` hold for all request sets, axes, widths and
  non-contiguous buffers. They state three things:
  - `Spec => []TypeOK`;
  - `Spec => []SupportedRequestsHonoured`;
  - `Spec => []((gr = "null" \/ ~LastAxis \/ dr = "null" \/ (gr = "write" /\
    nchannel % LoadUnroll = 0)) => ParamsReadOnly)`.

  All three rest on the inductive invariant `ReqInv`, which TLC also checked
  on every request, axis, width and buffer choice before it was proved. It
  has three parts besides the types:
  - `HostInv` gives the host's progress: what has been launched at each
    program counter, and why a failed call failed.
  - `Launchable` is the set of kernels the stream can hold: the fused ones
    on the last axis, the fallback's on any other. So a kernel's kind tells
    which effect it has.
  - `BufOK` gives one account per buffer (data_grad, beta_grad, gamma_grad
    and the gamma parameter). The buffer's one writer kernel is pending at
    most once, and only once the host has enqueued it (`DataEnq`, `BetaEnq`,
    ...). The buffer holds its old value until that kernel runs, and that
    kernel's effect after (`DataFinal`, `BetaFinal`, `GammaGradFinal`,
    `ParamFinal`, which depend on the path and on `nchannel`).

  The FIFO stream makes this work. A host step appends kernels, and
  `BufEnqueue`/`BufConcatNone` show which accounts change. A device step
  removes the head, and `BufTail` shows that only the buffers of the head's
  kind take their final value. `FusedWrites` says when the fused kernels'
  effect is a write of every element:
  - GammaBeta under addto or below LOAD_UNROLL channels;
  - Data with one warp.

  Under kWriteTo, a row of whole chunks keeps its old contents.
  `SupportedHonoured` follows from `ReqInv` and `FusedWrites`. The runs show
  the requests outside `SupportedReqs` failing:
  - data_grad kNullOp or kAddTo (`dispatch_data_modes`);
  - gamma_grad on the fused path (`dispatch_gamma_param`);
  - kWriteTo and two-warp rows in the kernels (`gammabeta_writeto`,
    `backward_data_wide`).

  `GammaWrittenOnlyFused` says that the fused launch with gamma_grad
  requested is the only way the parameter changes. Under kWriteTo it changes
  only when the row has a tail.
- `LayerNormBackwardDataProofs.DataRaceFree`: `Spec => []NoSharedRace` for the
  data-gradient kernel's inter-warp all-reduce (lines 458-490), for every warp
  size, load width and set of widths. The argument is the forward one. The
  strengthening `IInv` pairs `ControlOK` (the control variables' ranges) with
  `RaceInv`: `Agree` (both warps in the same epoch, the offset 1 in epochs 1-2
  and 0 after) and `AccOK` (writes by warp 1 in epoch 1 and by warp 0 in
  epoch 3, reads only in epochs 2 and 4). Each barrier empties the log
  (`BarrierIInv`); a warp step stays in its epoch and logs only allowed
  accesses (`WarpStepIInv`). The full `TypeOK` is not used: its bags of
  channels are capped with `2^k` masks, which the provers cannot reason about.
- `LayerNormBackwardDataGradProofs.NarrowGradComplete`: `Spec /\ []ReducedSums
  => []NarrowDataGradComplete` for every warp size, load width and set of
  widths. For a row that fits one warp, when the block returns, every
  data_grad element of the row has been written once from sums over the
  whole row, and none past nchannel.
  - Step 1 partitions the row among the lanes (`RowSumPartition`). Lane
    `tid` sums channel c exactly when `(c \div LOAD_UNROLL) % nthread =
    tid`: the whole chunks start at `Start(tid, k)`, and the tail begins at
    the first chunk start that does not fit (`ChunkExit`, with the witness
    `(N - LU - LU*tid) \div (LU*nthread) + 1`). So the lanes' cells add up
    to the row (`NarrowBlockTotal`).
  - In step 2, element i has the one writer lane `i % nthread`
    (`NarrowWriters`).
  - The invariant `GradInv` says that data_grad[i] is written exactly when
    warp 0 is done and `i < nchannel`. It is paired with `IInv` from
    `DataRaceFree` (`NextIInv`). Only `WriteGrad` changes it
    (`WriteGradStep`); the other warp steps and the barriers leave warp 0
    short of "done" (`InnerNotDone`).
  - `ReducedSums` is a hypothesis, for the reason given for
    `BroadcastStats` above. So is the new assumption
    `WidestWidthAssumption` of LayerNormBackwardData, which gives
    `nchannel <= MaxWidth`.
  - With two warps the element is written by a warp whose sums come from
    the inter-warp reduction; that case stays with TLC.
- `LayerNormBackwardGammaBetaProofs.GammaBetaTypeCorrect`: `Spec => []TypeOK`
  for the GammaBeta kernel. The lemma `IterBound` shows that a warp runs at
  most `MaxIter` chunk iterations.
- `LayerNormBackwardGammaBetaProofs.Partition` and `AddToComplete`:
  `Spec => []ChannelPartition` and `Spec => []AddToGradComplete` for every
  warp size, block height, LOAD_UNROLL and set of widths.
  - Channel c belongs to chunk `ChunkOf(c) = c \div LOAD_UNROLL`, owned by
    thread `ChunkOf(c) % NThread` in iteration `ChunkOf(c) \div NThread`.
  - `ChunkCover`: a chunk iteration of warp y sums exactly the channels in
    whole chunks that y owns at its current iteration.
  - `TailCover`: the tail loops of y sum exactly the channels outside whole
    chunks, below nchannel, that y owns. `ExitIterSpec` locates each thread's
    exit from the chunk loop; its existence needs the explicit witness
    `R \div D + 1`.
  - The inductive invariant `PartInv` has three parts. `VisitsInv` counts
    each channel's visits from its owner warp's `k` and `pc`. `ExitInv` says
    a warp leaves its chunk loop only past all its whole chunks; this
    follows from the exit guard and the monotonicity of chunk starts.
    `GradInv` ties the kAddTo and kNullOp elements to the visit counts.
  - When every warp is done, a whole-chunk channel lies inside the row
    (`WholeInRow`), which gives both properties.
  - The constant assumption `WidestWidthAssumption` says that the finite
    set of widths has a widest member, the one `MaxWidth` sizes the buffers
    for. It holds for every finite non-empty set of naturals, but the
    library proves that only by induction with an operator parameter, which
    the provers cannot instantiate. TLC evaluates it on every GammaBeta run.
  - `GradWrittenAsRequested` and `GammaGradStats` are violated by the code
    (runs `gammabeta_writeto` and `gammabeta_stats`), so they have no
    theorem.

Only model-checked:
- the liveness property `Termination`, since TLAPS does not handle liveness under fairness or ENABLED;
- the reduction properties, which quantify over the cells every lane sums (a set comprehension over loop iterations) and need induction over the loops;
- WelfordChan's exactness, which is a statement about folds over sequences, i.e. induction over data.
- the type invariant of the data-gradient kernel, whose `2^k` masks are beyond the provers;
- RequestsHonoured and ParamsReadOnly for the unsupported requests, where the code violates them (the runs `dispatch_data_modes` and `dispatch_gamma_param`). The dispatch model takes the kernels' element coverage from the kernel source; the kernel models (`LayerNormBackwardGammaBeta`, `LayerNormBackwardData`) check that coverage thread by thread.

## 5. Not modelled

Floating-point rounding: WelfordChan is exact over rationals. The `int`
element offsets `b * nchannel + l` are not modelled either: the models index
one row per block and never form the flat offset of a row in the batch, so
they hold only for tensors of fewer than 2^31 elements (hazard at 356). The grid of
blocks: rows are independent, so one block stands for each. The `bid < nbatch`
guard is assumed true. The four affine specialisations of the forward output
loop differ only in arithmetic, so one action covers them. The general
fallback itself is not modelled; it is represented only by its effect on the
buffers. Neither are
`Executor.scala` and the operator registrations.
