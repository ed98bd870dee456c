------------------------- MODULE LayerNormDispatch -------------------------
(***************************************************************************)
(* The host side of the layer-norm operator in src/src/operator/nn/        *)
(* layer_norm.cu: LayerNormCompute<gpu> and LayerNormGPUContig for the     *)
(* forward call, LayerNormGradCompute<gpu> and LayerNormGradGPUContig for  *)
(* the backward call, issued one after the other by the host thread, and   *)
(* the device executing the kernels they enqueue on the (FIFO) stream.     *)
(*                                                                         *)
(* Each kernel is abstracted to what it does to the buffers it is given.  *)
(* An element holds some copies of the value it held before the call      *)
(* (old) plus some correctly computed gradients (grad), and a buffer is    *)
(* the set of the contents its elements hold.  Which elements a fused     *)
(* kernel writes depends on the channel count nchannel: the whole          *)
(* LOAD_UNROLL chunks and the tail of the GammaBeta kernel, one or two     *)
(* warps for the Data kernel.  How the kernels work inside is the subject  *)
(* of LayerNormForward, LayerNormBackwardData and                          *)
(* LayerNormBackwardGammaBeta.  The general fallback for any other axis   *)
(* is not in this repository: it is represented by the kernels it          *)
(* enqueues, which write every element of their outputs once.             *)
(***************************************************************************)
EXTENDS Integers, Sequences

CONSTANTS
    FwdReqs,     \* the req[kOut] values of the forward call to consider
    GradReqs,    \* the <<data, gamma, beta>> requests of the backward call
    NonContigs,  \* the buffer that fails CheckContiguous(), or "none"
    NDim,        \* inputs[0].ndim()
    Axes,        \* the values of param.axis to consider
    Widths       \* the values of nchannel to consider

Req == {"null", "write", "inplace", "addto"}
Buffers == {"none", "in_data", "out_grad", "gamma_grad", "beta_grad", "data_grad"}

ASSUME DispatchConstAssumption ==
    /\ FwdReqs \subseteq Req
    /\ GradReqs \subseteq Req \X Req \X Req
    /\ NonContigs \subseteq Buffers
    /\ NDim \in Nat \ {0}
    /\ Axes \subseteq Int
    /\ Widths \subseteq Nat \ {0}

\* The contents of an element, and of a buffer: the set of its elements'.
El == [old : 0 .. 1, grad : 0 .. 1]
Cont == SUBSET El
Old == {[old |-> 1, grad |-> 0]}
\* "=" and "+=" of the correct result into every element of a buffer.
Assign(b) == {[old |-> 0, grad |-> 1]}
Accumulate(b) == {[old |-> e.old, grad |-> e.grad + 1] : e \in b}
Write(b, add) == IF add THEN Accumulate(b) ELSE Assign(b)

\* The fused kernels ("gb", "data") and the fallback's ("ggb", "gdata").
Kernel == [kind : {"fwd", "gb", "data", "ggb", "gdata"}, gt : {"none", "gamma", "gamma_grad"},
           bt : {"none", "beta_grad"}, gadd : BOOLEAN, badd : BOOLEAN, dadd : BOOLEAN]

VARIABLES
    fr, dr, gr, br,  \* req[kOut] of the forward call; req of the backward call
    nc,              \* the non-contiguous buffer
    axis,            \* param.axis, shared by the forward and backward calls
    hpc,             \* the host thread: "fwd", "bwd", "bwd2", "end" or "failed"
    stream,          \* kernels enqueued and not yet executed, in order
    launched,        \* kernels enqueued by the backward call
    outd, stats,     \* out_data; mean_data and std_data ("unset" or "set")
    gammaP,          \* the gamma parameter: "param" or "overwritten"
    gg, bg, dg,      \* gamma_grad, beta_grad, data_grad
    nchannel,        \* in_data.shape_[axis], the row width
    staleRead        \* a backward kernel has read unset statistics

vars == <<fr, dr, gr, br, nc, axis, nchannel, hpc, stream, launched, outd, stats, gammaP, gg, bg, dg, staleRead>>

\* Enqueue a kernel of the backward call on the stream.
Enqueue(k) == stream' = Append(stream, k) /\ launched' = launched + 1
FwdKernel == [kind |-> "fwd", gt |-> "none", bt |-> "none", gadd |-> FALSE, badd |-> FALSE, dadd |-> FALSE]

(* The GammaBeta launch: gamma_grad_ptr = gamma.dptr (the parameter) when   *)
(* gamma_req != kNullOp; beta_grad_ptr the beta_grad buffer (the source     *)
(* names an undeclared "beta") when beta_req != kNullOp; the four branches  *)
(* choose <gamma_addto, beta_addto> from the two requests.                  *)
\* Mutation: the second branch instantiated <LOAD_UNROLL, true, false>.
GammaBetaKernelCopyPaste(g, b) ==
    [kind |-> "gb", gt |-> IF g # "null" THEN "gamma" ELSE "none",
     bt |-> IF b # "null" THEN "beta_grad" ELSE "none",
     gadd |-> g = "addto" \/ (g # "addto" /\ b = "addto"),
     badd |-> g = "addto" /\ b = "addto", dadd |-> FALSE]
GammaBetaKernel(g, b) ==
    [kind |-> "gb", gt |-> IF g # "null" THEN "gamma" ELSE "none",
     bt |-> IF b # "null" THEN "beta_grad" ELSE "none",
     gadd |-> g = "addto", badd |-> b = "addto", dadd |-> FALSE]
DataKernel(d) ==
    [kind |-> "data", gt |-> "none", bt |-> "none", gadd |-> FALSE, badd |-> FALSE, dadd |-> d = "addto"]

\* The channel axis: a negative param.axis counts from the last axis; the
\* CHECK that it names an axis; the fused kernels only for the last one.
NormAxis == IF axis < 0 THEN axis + NDim ELSE axis
AxisInRange == NormAxis >= 0 /\ NormAxis < NDim
LastAxis == NormAxis = NDim - 1

(* LayerNormComputeGeneral / LayerNormGradComputeGeneral, the fallback for *)
(* any other axis (not in this repository): it needs no contiguous buffer *)
(* and produces out_data and the statistics, resp. gamma_grad, beta_grad   *)
(* and data_grad as requested, with kernels on the same stream.            *)
GeneralForward == FwdKernel
GeneralBackward(d, g, b) ==
    LET gb == [kind |-> "ggb", gt |-> IF g # "null" THEN "gamma_grad" ELSE "none",
               bt |-> IF b # "null" THEN "beta_grad" ELSE "none",
               gadd |-> g = "addto", badd |-> b = "addto", dadd |-> FALSE]
        data == [kind |-> "gdata", gt |-> "none", bt |-> "none", gadd |-> FALSE,
                 badd |-> FALSE, dadd |-> d = "addto"]
    IN IF g = "null" /\ b = "null" THEN <<data>> ELSE <<gb, data>>

\* Hand the rest of the backward call to the fallback.
EnqueueGeneral ==
    /\ stream' = stream \o GeneralBackward(dr, gr, br)
    /\ launched' = launched + Len(GeneralBackward(dr, gr, br))
    /\ hpc' = "end"

-----------------------------------------------------------------------------
Init ==
    /\ fr \in FwdReqs
    /\ \E r \in GradReqs : dr = r[1] /\ gr = r[2] /\ br = r[3]
    /\ nc \in NonContigs
    /\ axis \in Axes
    /\ nchannel \in Widths
    /\ hpc = "fwd"
    /\ stream = <<>>
    /\ launched = 0
    /\ outd = Old /\ stats = "unset" /\ gammaP = Old
    /\ gg = Old /\ bg = Old /\ dg = Old
    /\ staleRead = FALSE

Fail == hpc' = "failed" /\ UNCHANGED <<stream, launched>>

\* LayerNormCompute<gpu>: return on kNullOp, CHECK_NE(req[0], kAddTo), the
\* axis CHECK, the fallback unless the axis is the last; then
\* LayerNormGPUContig: the contiguity CHECKs, then the launch.
HostForward ==
    /\ hpc = "fwd"
    /\ IF fr = "null" THEN hpc' = "bwd" /\ UNCHANGED <<stream, launched>>
       ELSE IF fr = "addto" THEN Fail
       ELSE IF ~AxisInRange THEN Fail
       ELSE IF ~LastAxis THEN stream' = Append(stream, GeneralForward) /\ hpc' = "bwd" /\ UNCHANGED launched
       ELSE IF nc = "in_data" THEN Fail
       ELSE stream' = Append(stream, FwdKernel) /\ hpc' = "bwd" /\ UNCHANGED launched
    /\ UNCHANGED <<fr, dr, gr, br, nc, axis, nchannel, outd, stats, gammaP, gg, bg, dg, staleRead>>

\* Mutation: the last "else" of the four launch branches dropped, so that an
\* accumulating request launches its kernel and then the <false, false> one.
HostBackwardGammaBetaNoElse ==
    /\ hpc = "bwd"
    /\ IF dr = "null" THEN hpc' = "end" /\ UNCHANGED <<stream, launched>>
       ELSE IF dr = "addto" THEN Fail
       ELSE IF ~AxisInRange THEN Fail
       ELSE IF ~LastAxis THEN EnqueueGeneral
       ELSE IF nc \in {"out_grad", "in_data"} THEN Fail
       ELSE IF "inplace" \in {dr, gr, br} THEN Fail
       ELSE IF nc \in {"gamma_grad", "beta_grad"} THEN Fail
       ELSE IF gr = "addto" \/ br = "addto"
            THEN /\ stream' = stream \o <<GammaBetaKernel(gr, br),
                                         [GammaBetaKernel(gr, br) EXCEPT !.gadd = FALSE, !.badd = FALSE]>>
                 /\ launched' = launched + 2
                 /\ hpc' = "bwd2"
       ELSE IF gr # "null" \/ br # "null" THEN Enqueue(GammaBetaKernel(gr, br)) /\ hpc' = "bwd2"
       ELSE hpc' = "bwd2" /\ UNCHANGED <<stream, launched>>
    /\ UNCHANGED <<fr, dr, gr, br, nc, axis, nchannel, outd, stats, gammaP, gg, bg, dg, staleRead>>

\* Mutation: the gamma_grad / beta_grad contiguity CHECKs after the launch.
HostBackwardGammaBetaLateCheck ==
    /\ hpc = "bwd"
    /\ IF dr = "null" THEN hpc' = "end" /\ UNCHANGED <<stream, launched>>
       ELSE IF dr = "addto" THEN Fail
       ELSE IF ~AxisInRange THEN Fail
       ELSE IF ~LastAxis THEN EnqueueGeneral
       ELSE IF nc \in {"out_grad", "in_data"} THEN Fail
       ELSE IF "inplace" \in {dr, gr, br} THEN Fail
       ELSE IF gr # "null" \/ br # "null"
            THEN /\ Enqueue(GammaBetaKernel(gr, br))
                 /\ hpc' = IF nc \in {"gamma_grad", "beta_grad"} THEN "failed" ELSE "bwd2"
       ELSE IF nc \in {"gamma_grad", "beta_grad"} THEN Fail
       ELSE hpc' = "bwd2" /\ UNCHANGED <<stream, launched>>
    /\ UNCHANGED <<fr, dr, gr, br, nc, axis, nchannel, outd, stats, gammaP, gg, bg, dg, staleRead>>

\* LayerNormGradCompute<gpu> up to the GammaBeta launch of
\* LayerNormGradGPUContig, its early returns and CHECKs in program order:
\* return on req[0] == kNullOp, CHECK_NE(req[0], kAddTo), the axis CHECK,
\* the fallback unless the axis is the last, the input CHECKs,
\* the kWriteInplace CHECKs, the gamma_grad and beta_grad contiguity
\* CHECKs, then the launch if either is requested.
HostBackwardGammaBeta ==
    /\ hpc = "bwd"
    /\ IF dr = "null" THEN hpc' = "end" /\ UNCHANGED <<stream, launched>>
       ELSE IF dr = "addto" THEN Fail
       ELSE IF ~AxisInRange THEN Fail
       ELSE IF ~LastAxis THEN EnqueueGeneral
       ELSE IF nc \in {"out_grad", "in_data"} THEN Fail
       ELSE IF "inplace" \in {dr, gr, br} THEN Fail
       ELSE IF nc \in {"gamma_grad", "beta_grad"} THEN Fail
       ELSE IF gr # "null" \/ br # "null" THEN Enqueue(GammaBetaKernel(gr, br)) /\ hpc' = "bwd2"
       ELSE hpc' = "bwd2" /\ UNCHANGED <<stream, launched>>
    /\ UNCHANGED <<fr, dr, gr, br, nc, axis, nchannel, outd, stats, gammaP, gg, bg, dg, staleRead>>

\* The rest of LayerNormGradGPUContig: CHECK_EQ(data_grad.CheckContiguous())
\* and the Data launch.
HostBackwardData ==
    /\ hpc = "bwd2"
    /\ IF nc = "data_grad" THEN Fail
       ELSE IF dr # "null" THEN Enqueue(DataKernel(dr)) /\ hpc' = "end"
       ELSE hpc' = "end" /\ UNCHANGED <<stream, launched>>
    /\ UNCHANGED <<fr, dr, gr, br, nc, axis, nchannel, outd, stats, gammaP, gg, bg, dg, staleRead>>

\* A backward kernel reads mean_data and std_data.
ReadStats == staleRead' = (staleRead \/ stats = "unset")

\* LayerNormFusedForwardKernelContig (and the fallback's forward kernel):
\* every out_data element, and mean_data/std_data of every row.
ForwardEffect ==
    /\ outd' = Assign(outd) /\ stats' = "set"
    /\ UNCHANGED <<gammaP, gg, bg, dg, staleRead>>

LoadUnroll == 4
(* LayerNormFusedBackwardKernel_GammaBeta on one of its outputs: the chunk *)
(* loop covers the channels of the whole LOAD_UNROLL chunks and stores     *)
(* into them only under addto ("+="); the tail loop covers the            *)
(* nchannel % LOAD_UNROLL channels after them with "+=" or "=".           *)
GammaBetaWrite(b, add) ==
    (IF nchannel >= LoadUnroll THEN (IF add THEN Accumulate(b) ELSE b) ELSE {})
    \cup (IF nchannel % LoadUnroll # 0 THEN Write(b, add) ELSE {})
GammaBetaEffect(k) ==
    /\ gammaP' = IF k.gt = "gamma" THEN GammaBetaWrite(gammaP, k.gadd) ELSE gammaP
    /\ bg' = IF k.bt = "beta_grad" THEN GammaBetaWrite(bg, k.badd) ELSE bg
    /\ ReadStats
    /\ UNCHANGED <<outd, stats, gg, dg>>

(* LayerNormFusedBackwardKernel_Data: with one warp (nchannel <= 32) every *)
(* element is written once from the row's sums.  With two warps tid =      *)
(* threadIdx.x is shared by both: step 1 sums each channel it covers twice *)
(* and skips the channels of every second 128-channel stride, and step 2   *)
(* writes channels l with l % 64 < 32 from these wrong sums and never      *)
(* those from 32 to 63.                                                    *)
DataWrite(b, add) ==
    IF nchannel <= 32 THEN Write(b, add)
    ELSE b \cup {[old |-> IF add THEN e.old ELSE 0, grad |-> 0] : e \in b}
DataEffect(k) ==
    /\ dg' = DataWrite(dg, k.dadd)
    /\ ReadStats
    /\ UNCHANGED <<outd, stats, gammaP, gg, bg>>

\* The fallback's kernels write every element of their outputs once.
GeneralEffect(k) ==
    /\ gg' = IF k.gt = "gamma_grad" THEN Write(gg, k.gadd) ELSE gg
    /\ bg' = IF k.bt = "beta_grad" THEN Write(bg, k.badd) ELSE bg
    /\ dg' = IF k.kind = "gdata" THEN Write(dg, k.dadd) ELSE dg
    /\ ReadStats
    /\ UNCHANGED <<outd, stats, gammaP>>

\* What one kernel does to the buffers it writes.
Execute(k) ==
    \/ k.kind = "fwd" /\ ForwardEffect
    \/ k.kind = "gb" /\ GammaBetaEffect(k)
    \/ k.kind = "data" /\ DataEffect(k)
    \/ k.kind \in {"ggb", "gdata"} /\ GeneralEffect(k)

\* Mutation: the kernels run on more than one stream, in any order.
DeviceRunAnyOrder ==
    /\ \E i \in 1 .. Len(stream) :
          /\ Execute(stream[i])
          /\ stream' = [j \in 1 .. Len(stream) - 1 |-> IF j < i THEN stream[j] ELSE stream[j + 1]]
    /\ UNCHANGED <<fr, dr, gr, br, nc, axis, nchannel, hpc, launched>>

\* The device runs the kernel at the head of the stream to completion.
DeviceRun ==
    /\ stream # <<>>
    /\ Execute(Head(stream))
    /\ stream' = Tail(stream)
    /\ UNCHANGED <<fr, dr, gr, br, nc, axis, nchannel, hpc, launched>>

Finished == hpc \in {"end", "failed"} /\ stream = <<>>
Terminated == Finished /\ UNCHANGED vars

Next ==
    \/ HostForward \/ HostBackwardGammaBeta \/ HostBackwardData
    \/ DeviceRun \/ Terminated

Spec == Init /\ [][Next]_vars

-----------------------------------------------------------------------------
(* Properties.                                                             *)

TypeOK ==
    /\ fr \in FwdReqs /\ <<dr, gr, br>> \in GradReqs /\ nc \in NonContigs /\ axis \in Axes
    /\ nchannel \in Widths
    /\ hpc \in {"fwd", "bwd", "bwd2", "end", "failed"}
    /\ stream \in Seq(Kernel) /\ Len(stream) <= 3
    /\ launched \in 0 .. 2
    /\ outd \in Cont /\ stats \in {"unset", "set"} /\ gammaP \in Cont
    /\ gg \in Cont /\ bg \in Cont /\ dg \in Cont
    /\ staleRead \in BOOLEAN

\* What a request asks of an output buffer once the call has completed.
Honoured(b, req) ==
    CASE req = "null"  -> b = Old
      [] req = "write" -> b = {[old |-> 0, grad |-> 1]}
      [] req = "addto" -> b = {[old |-> 1, grad |-> 1]}

\* The backward contract: with a valid axis, all buffers contiguous, a
\* forward call that wrote its outputs, and no in-place request, the
\* backward call succeeds
\* and, once the stream has drained, data_grad, gamma_grad and beta_grad
\* each hold what its own request asks for (kWriteTo, kAddTo or kNullOp,
\* "each mode independently selectable").
RequestsHonoured ==
    (Finished /\ AxisInRange /\ nc = "none" /\ fr = "write" /\ "inplace" \notin {dr, gr, br}) =>
        /\ hpc = "end"
        /\ Honoured(dg, dr) /\ Honoured(gg, gr) /\ Honoured(bg, br)

\* The requests the backward call serves: data_grad not accumulated, no
\* gamma_grad or beta_grad without data_grad, and on the fused path
\* (the last axis) no gamma_grad, beta_grad overwritten only when the
\* GammaBeta kernel has no whole LOAD_UNROLL chunk, data_grad only when the
\* Data kernel runs one warp.
SupportedReqs ==
    /\ dr # "addto"
    /\ dr = "null" => gr = "null" /\ br = "null"
    /\ LastAxis => /\ gr = "null"
                   /\ br = "write" => nchannel < LoadUnroll
                   /\ dr # "null" => nchannel <= 32

\* The backward contract restricted to the supported requests: the
\* early returns, CHECKs and launches of LayerNormGradCompute<gpu> and
\* LayerNormGradGPUContig, and the kernels in stream order, give each
\* buffer what its request asks, in every combination of the three modes.
SupportedRequestsHonoured == SupportedReqs => RequestsHonoured

\* The affine parameter gamma is read-only for the whole backward call.
ParamsReadOnly == gammaP = Old

\* Every backward kernel reads mean_data and std_data after the forward
\* kernel has written them (the saved statistics are written once by the
\* forward pass and consumed by the backward pass on the same stream).
StatsBeforeBackward == ~staleRead

\* A configuration error of the backward call (a non-contiguous buffer, an
\* in-place or unsupported request) is reported before any kernel of the
\* call is launched: a failed call has no partial effect.
FailBeforeLaunch == hpc = "failed" => launched = 0

=============================================================================
