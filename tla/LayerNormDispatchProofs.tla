---------------------- MODULE LayerNormDispatchProofs ----------------------
(***************************************************************************)
(* Proofs about LayerNormDispatch, for every set of requests and of        *)
(* non-contiguous buffers.                                                 *)
(*                                                                         *)
(* The stream is FIFO and the forward kernel is enqueued before the host   *)
(* thread can reach the backward call, so while the statistics are unset   *)
(* the forward kernel is at the head of the stream: every backward kernel  *)
(* queued behind it runs after it.                                         *)
(*                                                                         *)
(* Each output buffer has one writer kernel.  That kernel is pending on    *)
(* the stream at most once, and only after the host has enqueued it.      *)
(* The buffer holds its old value until the kernel runs and its one        *)
(* result after (BufOK).  From this follow the dispatch's type invariant,  *)
(* the request contract for the supported requests, and the one way the    *)
(* gamma parameter can be overwritten.                                     *)
(***************************************************************************)
EXTENDS LayerNormDispatch, TLAPS

HPC == {"fwd", "bwd", "bwd2", "end", "failed"}

\* While mean_data/std_data are unset, no kernel but the forward one can be
\* next on the stream.
ForwardFirst ==
    stats = "unset" =>
        \/ hpc \in {"fwd", "failed"} /\ stream = <<>>
        \/ stream # <<>> /\ Head(stream).kind = "fwd"

\* The inductive invariant: the types StatsBeforeBackward's argument needs,
\* the stream empty before the forward call, and, once the forward call
\* launches its kernel, no stale read and the forward kernel first.
IInv ==
    /\ fr \in Req /\ dr \in Req /\ gr \in Req /\ br \in Req
    /\ stream \in Seq(Kernel)
    /\ hpc \in HPC
    /\ stats \in {"unset", "set"}
    /\ staleRead \in BOOLEAN
    /\ hpc = "fwd" => stream = <<>>
    /\ fr # "null" => ~staleRead /\ ForwardFirst

\* The three launches of layer_norm.cu enqueue well-formed kernels.
LEMMA KernelsTyped ==
    /\ FwdKernel \in Kernel
    /\ \A g, b \in Req : GammaBetaKernel(g, b) \in Kernel
    /\ \A d \in Req : DataKernel(d) \in Kernel
    /\ GeneralForward \in Kernel
    /\ \A d, g, b \in Req : GeneralBackward(d, g, b) \in Seq(Kernel)
<1>1. FwdKernel \in Kernel /\ GeneralForward \in Kernel
  BY DEF FwdKernel, GeneralForward, Kernel
<1>2. \A g, b \in Req : GammaBetaKernel(g, b) \in Kernel
  BY DEF GammaBetaKernel, Kernel
<1>3. \A d \in Req : DataKernel(d) \in Kernel
  BY DEF DataKernel, Kernel
<1>4. ASSUME NEW d \in Req, NEW g \in Req, NEW b \in Req
      PROVE  GeneralBackward(d, g, b) \in Seq(Kernel)
  <2>. DEFINE gb == [kind |-> "ggb", gt |-> IF g # "null" THEN "gamma_grad" ELSE "none",
                     bt |-> IF b # "null" THEN "beta_grad" ELSE "none",
                     gadd |-> g = "addto", badd |-> b = "addto", dadd |-> FALSE]
              data == [kind |-> "gdata", gt |-> "none", bt |-> "none", gadd |-> FALSE,
                       badd |-> FALSE, dadd |-> d = "addto"]
  <2>1. gb \in Kernel /\ data \in Kernel
    BY DEF Kernel
  <2>2. <<data>> \in Seq(Kernel) /\ <<gb, data>> \in Seq(Kernel)
    BY <2>1
  <2>. QED BY <2>2 DEF GeneralBackward
<1>. QED BY <1>1, <1>2, <1>3, <1>4

\* Appending behind a non-empty queue leaves its head where it is.
LEMMA AppendHead ==
    ASSUME NEW S, NEW s \in Seq(S), NEW e \in S, s # <<>>
    PROVE  Append(s, e) \in Seq(S) /\ Append(s, e) # <<>> /\ Head(Append(s, e)) = Head(s)
BY SMT

\* Concatenating behind a non-empty queue leaves its head where it is.
LEMMA ConcatHead ==
    ASSUME NEW S, NEW s \in Seq(S), NEW u \in Seq(S), s # <<>>
    PROVE  s \o u \in Seq(S) /\ s \o u # <<>> /\ Head(s \o u) = Head(s)
BY SMT

\* The host starts in the forward call with nothing on the stream.
LEMMA InitIInv == Init => IInv
<1> SUFFICES ASSUME Init PROVE IInv
  OBVIOUS
<1>1. dr \in Req /\ gr \in Req /\ br \in Req
  BY DispatchConstAssumption DEF Init
<1>2. fr \in Req
  BY DispatchConstAssumption DEF Init
<1>3. stream \in Seq(Kernel) /\ stream = <<>>
  BY DEF Init
<1>4. hpc \in HPC /\ stats \in {"unset", "set"} /\ staleRead \in BOOLEAN /\ hpc = "fwd"
  BY DEF Init, HPC
<1>5. ForwardFirst
  BY <1>3, <1>4 DEF ForwardFirst
<1>. QED BY <1>1, <1>2, <1>3, <1>4, <1>5 DEF Init, IInv

\* A step of the host thread in the backward call: it may enqueue kernels
\* and does not touch the statistics.
LEMMA BackwardHostStep ==
    ASSUME IInv, hpc \in {"bwd", "bwd2"}, hpc' \in HPC \ {"fwd"},
           UNCHANGED <<fr, dr, gr, br, stats, staleRead>>,
           \/ stream' = stream
           \/ \E k \in Kernel : stream' = Append(stream, k)
           \/ \E u \in Seq(Kernel) : stream' = stream \o u
    PROVE  IInv'
<1>1. stream' \in Seq(Kernel)
  <2>1. stream \in Seq(Kernel)
    BY DEF IInv
  <2>2. CASE \E k \in Kernel : stream' = Append(stream, k)
    BY <2>1, <2>2, SMT
  <2>3. CASE \E u \in Seq(Kernel) : stream' = stream \o u
    BY <2>1, <2>3, SMT
  <2>. QED BY <2>1, <2>2, <2>3
<1>2. fr # "null" /\ stats = "unset" => stream # <<>> /\ Head(stream).kind = "fwd"
  BY DEF IInv, ForwardFirst
<1>3. fr # "null" /\ stats = "unset" => stream' # <<>> /\ Head(stream').kind = "fwd"
  BY <1>2, AppendHead, ConcatHead DEF IInv
<1>. QED BY <1>1, <1>3 DEF IInv, ForwardFirst

\* Every host step and every kernel run preserves the invariant.
LEMMA NextIInv == IInv /\ [Next]_vars => IInv'
<1> SUFFICES ASSUME IInv, [Next]_vars PROVE IInv'
  OBVIOUS
<1>1. CASE HostForward
  <2>1. CASE fr = "null"
    <3>1. hpc' = "bwd" /\ UNCHANGED <<fr, dr, gr, br, stream, stats, staleRead>>
      BY <1>1, <2>1 DEF HostForward
    <3>. QED BY <3>1, <2>1 DEF IInv, HPC
  <2>2. CASE fr # "null" /\ (fr = "addto" \/ ~AxisInRange \/ (LastAxis /\ nc = "in_data"))
    BY <1>1, <2>2 DEF HostForward, Fail, IInv, ForwardFirst, HPC
  <2>3. CASE fr # "null" /\ fr # "addto" /\ AxisInRange /\ (~LastAxis \/ nc # "in_data")
    <3>1. stream' = <<FwdKernel>> /\ hpc' = "bwd"
      BY <1>1, <2>3 DEF HostForward, IInv, GeneralForward
    <3>2. Head(<<FwdKernel>>).kind = "fwd" /\ <<FwdKernel>> \in Seq(Kernel)
      BY KernelsTyped DEF FwdKernel
    <3>. QED BY <1>1, <3>1, <3>2 DEF HostForward, IInv, ForwardFirst, HPC
  <2>4. AxisInRange \in BOOLEAN /\ LastAxis \in BOOLEAN
    BY DEF AxisInRange, LastAxis
  <2>. QED BY <2>1, <2>2, <2>3, <2>4
<1>2. CASE HostBackwardGammaBeta
  <2>1. GammaBetaKernel(gr, br) \in Kernel /\ GeneralBackward(dr, gr, br) \in Seq(Kernel)
    BY KernelsTyped DEF IInv
  <2>2. \/ stream' = stream
        \/ \E k \in Kernel : stream' = Append(stream, k)
        \/ \E u \in Seq(Kernel) : stream' = stream \o u
    BY <1>2, <2>1 DEF HostBackwardGammaBeta, Fail, Enqueue, EnqueueGeneral
  <2>3. hpc' \in HPC \ {"fwd"}
    BY <1>2 DEF HostBackwardGammaBeta, Fail, Enqueue, EnqueueGeneral, HPC
  <2>. QED BY <1>2, <2>2, <2>3, BackwardHostStep DEF HostBackwardGammaBeta
<1>3. CASE HostBackwardData
  <2>1. DataKernel(dr) \in Kernel
    BY KernelsTyped DEF IInv
  <2>2. \/ stream' = stream
        \/ \E k \in Kernel : stream' = Append(stream, k)
    BY <1>3, <2>1 DEF HostBackwardData, Fail, Enqueue
  <2>3. hpc' \in HPC \ {"fwd"}
    BY <1>3 DEF HostBackwardData, Fail, Enqueue, HPC
  <2>. QED BY <1>3, <2>2, <2>3, BackwardHostStep DEF HostBackwardData
<1>4. CASE DeviceRun
  <2>1. stream # <<>> /\ stream' = Tail(stream) /\ Head(stream) \in Kernel
    BY <1>4, SMT DEF DeviceRun, IInv
  <2>2. stream' \in Seq(Kernel)
    BY <2>1, SMT DEF IInv
  <2>3. stats' = IF Head(stream).kind = "fwd" THEN "set" ELSE stats
    BY <1>4 DEF DeviceRun, Execute, ForwardEffect, GammaBetaEffect, DataEffect, GeneralEffect
  <2>4. staleRead' = (staleRead \/ (Head(stream).kind # "fwd" /\ stats = "unset"))
    BY <1>4 DEF DeviceRun, Execute, ForwardEffect, GammaBetaEffect, DataEffect, GeneralEffect,
                ReadStats, IInv
  <2>5. hpc # "fwd" /\ UNCHANGED <<fr, dr, gr, br, hpc>>
    BY <1>4, <2>1 DEF DeviceRun, IInv
  <2>6. fr # "null" => ~staleRead'
    BY <2>1, <2>4 DEF IInv, ForwardFirst
  <2>8. fr # "null" => ForwardFirst'
    <3> SUFFICES ASSUME fr # "null", stats' = "unset" PROVE FALSE
      BY <2>5 DEF ForwardFirst
    <3>1. stats = "unset" /\ Head(stream).kind # "fwd"
      BY <2>3
    <3>2. Head(stream).kind = "fwd"
      BY <3>1, <2>1, <2>5 DEF IInv, ForwardFirst
    <3>. QED BY <3>1, <3>2
  <2>. QED BY <2>2, <2>3, <2>4, <2>5, <2>6, <2>8 DEF IInv
<1>5. CASE Terminated \/ UNCHANGED vars
  BY <1>5 DEF Terminated, vars, IInv, ForwardFirst
<1>. QED BY <1>1, <1>2, <1>3, <1>4, <1>5 DEF Next

\* Every backward kernel reads mean_data and std_data after the forward
\* kernel has written them, whenever the forward call launches it: the
\* FIFO order of the stream behind the host's forward-then-backward calls.
THEOREM StatsOrdered == Spec => [](fr # "null" => StatsBeforeBackward)
<1>1. IInv => (fr # "null" => StatsBeforeBackward)
  BY DEF IInv, StatsBeforeBackward
<1>. QED BY InitIInv, NextIInv, <1>1, PTL DEF Spec

-----------------------------------------------------------------------------
(* No partial effect of a rejected backward call.                          *)

\* Nothing of the backward call is launched before the host reaches the
\* GammaBeta launch, and a call rejected with data_grad contiguous launched
\* nothing.
LaunchInv ==
    /\ hpc \in {"fwd", "bwd"} => launched = 0
    /\ hpc = "failed" /\ nc # "data_grad" => launched = 0

\* The host starts with no kernel launched.
LEMMA InitLaunchInv == Init => LaunchInv
BY DEF Init, LaunchInv

\* No host step launches a kernel before its checks pass, data_grad aside.
LEMMA NextLaunchInv == LaunchInv /\ [Next]_vars => LaunchInv'
<1> SUFFICES ASSUME LaunchInv, [Next]_vars PROVE LaunchInv'
  OBVIOUS
<1>1. CASE HostForward
  BY <1>1 DEF HostForward, Fail, LaunchInv
<1>2. CASE HostBackwardGammaBeta
  \* Every rejection of this step precedes the launch.
  BY <1>2 DEF HostBackwardGammaBeta, Fail, Enqueue, EnqueueGeneral, LaunchInv
<1>3. CASE HostBackwardData
  \* The only rejection after the GammaBeta launch is data_grad's CHECK.
  BY <1>3 DEF HostBackwardData, Fail, Enqueue, LaunchInv
<1>4. CASE DeviceRun
  BY <1>4 DEF DeviceRun, LaunchInv
<1>5. CASE Terminated \/ UNCHANGED vars
  BY <1>5 DEF Terminated, vars, LaunchInv
<1>. QED BY <1>1, <1>2, <1>3, <1>4, <1>5 DEF Next

\* A backward call that fails a CHECK has launched no kernel, whenever
\* data_grad is contiguous: every request and contiguity CHECK of
\* LayerNormGradCompute<gpu> and LayerNormGradGPUContig except data_grad's
\* (line 569, after the GammaBeta launch) precedes every launch.
THEOREM NoPartialLaunch == Spec => [](nc # "data_grad" => FailBeforeLaunch)
<1>1. LaunchInv => (nc # "data_grad" => FailBeforeLaunch)
  BY DEF LaunchInv, FailBeforeLaunch
<1>. QED BY InitLaunchInv, NextLaunchInv, <1>1, PTL DEF Spec

-----------------------------------------------------------------------------
(* What the stream holds and what the kernels have written.                *)

\* The gamma/beta and data kernels of LayerNormGradComputeGeneral.
GeneralGB ==
    [kind |-> "ggb", gt |-> IF gr # "null" THEN "gamma_grad" ELSE "none",
     bt |-> IF br # "null" THEN "beta_grad" ELSE "none",
     gadd |-> gr = "addto", badd |-> br = "addto", dadd |-> FALSE]
GeneralData ==
    [kind |-> "gdata", gt |-> "none", bt |-> "none", gadd |-> FALSE, badd |-> FALSE,
     dadd |-> dr = "addto"]

\* The kernels the two calls can enqueue: the fused ones on the last axis,
\* the fallback's on any other.
Launchable ==
    {FwdKernel} \cup IF LastAxis THEN {GammaBetaKernel(gr, br), DataKernel(dr)}
                                 ELSE {GeneralGB, GeneralData}

\* Some kernel of S is pending on stream s; at most one is.
InQ(s, S) == \E i \in 1 .. Len(s) : s[i] \in S
AtMostOnce(s, S) == \A i, j \in 1 .. Len(s) : s[i] \in S /\ s[j] \in S => i = j

\* A buffer written by the one kernel of S that the calls enqueue when e
\* holds: the kernel is pending at most once and only if enqueued, and the
\* buffer holds f once it has run and o before.
BufOK(s, x, S, e, o, f) ==
    /\ InQ(s, S) => e
    /\ AtMostOnce(s, S)
    /\ x = IF e /\ ~InQ(s, S) THEN f ELSE o

DataK == {k \in Kernel : k.kind \in {"data", "gdata"}}
BetaK == {k \in Kernel : k.bt = "beta_grad"}
GammaGradK == {k \in Kernel : k.gt = "gamma_grad"}
GammaParamK == {k \in Kernel : k.gt = "gamma"}

\* What each buffer holds once its writer has run: the fused kernels'
\* effects on the last axis, the fallback's on any other.
DataFinal == IF LastAxis THEN DataWrite(Old, dr = "addto") ELSE Write(Old, dr = "addto")
BetaFinal == IF LastAxis THEN GammaBetaWrite(Old, br = "addto") ELSE Write(Old, br = "addto")
GammaGradFinal == Write(Old, gr = "addto")
ParamFinal == GammaBetaWrite(Old, gr = "addto")

\* Whether the host has enqueued the kernel that writes each buffer:
\* data_grad's once the call has ended with data_grad requested; the
\* gamma/beta kernel once past its launch, on the fused path (LastAxis) or
\* the fallback.
DataEnq == hpc = "end" /\ dr # "null"
PastGB == hpc \in {"bwd2", "end"} \/ (hpc = "failed" /\ launched > 0)
BetaEnq == br # "null" /\ dr # "null" /\ PastGB
GammaGradEnq == gr # "null" /\ dr # "null" /\ hpc = "end" /\ ~LastAxis
GammaParamEnq == gr # "null" /\ dr # "null" /\ LastAxis /\ PastGB

\* The host's progress: what it launched at each program counter, and why
\* it failed when it did.
HostInv ==
    /\ hpc \in {"fwd", "bwd"} => launched = 0
    /\ hpc = "bwd2" => /\ AxisInRange /\ LastAxis /\ dr \notin {"null", "addto"}
                       /\ launched = IF gr # "null" \/ br # "null" THEN 1 ELSE 0
    /\ hpc = "failed" /\ launched > 0 => AxisInRange /\ LastAxis /\ dr # "null"
    /\ launched \in 0 .. 2
    /\ Len(stream) <= (IF hpc = "fwd" THEN 0 ELSE 1) + launched
    /\ hpc = "failed" =>
          \/ fr = "addto" \/ ~AxisInRange \/ nc # "none" \/ dr = "addto"
          \/ "inplace" \in {dr, gr, br}

\* The inductive invariant of the request contract.
ReqInv ==
    /\ IInv
    /\ HostInv
    /\ fr \in FwdReqs /\ <<dr, gr, br>> \in GradReqs /\ nc \in NonContigs /\ axis \in Axes
    /\ nchannel \in Widths /\ outd \in Cont
    /\ \A i \in 1 .. Len(stream) : stream[i] \in Launchable
    /\ BufOK(stream, dg, DataK, DataEnq, Old, DataFinal)
    /\ BufOK(stream, bg, BetaK, BetaEnq, Old, BetaFinal)
    /\ BufOK(stream, gg, GammaGradK, GammaGradEnq, Old, GammaGradFinal)
    /\ BufOK(stream, gammaP, GammaParamK, GammaParamEnq, Old, ParamFinal)

\* Running the kernel at the head of the stream: a buffer it writes takes
\* its final value and its writer is no longer pending.
LEMMA BufTail ==
    ASSUME NEW T, NEW s \in Seq(T), s # <<>>, NEW x, NEW S, NEW e, NEW o, NEW f,
           BufOK(s, x, S, e, o, f), NEW x2, x2 = IF Head(s) \in S THEN f ELSE x
    PROVE  BufOK(Tail(s), x2, S, e, o, f)
<1>1. /\ Len(Tail(s)) = Len(s) - 1 /\ Len(s) \in Nat \ {0}
      /\ \A i \in 1 .. Len(Tail(s)) : Tail(s)[i] = s[i + 1] /\ i + 1 \in 1 .. Len(s)
      /\ Head(s) = s[1] /\ 1 \in 1 .. Len(s)
  BY SMT
<1>2. InQ(Tail(s), S) => InQ(s, S)
  BY <1>1 DEF InQ
<1>3. AtMostOnce(Tail(s), S)
  <2> SUFFICES ASSUME NEW i \in 1 .. Len(Tail(s)), NEW j \in 1 .. Len(Tail(s)),
                      Tail(s)[i] \in S, Tail(s)[j] \in S
               PROVE  i = j
    BY DEF AtMostOnce
  <2>1. i + 1 = j + 1
    BY <1>1 DEF BufOK, AtMostOnce
  <2>. QED BY <2>1, SMT
<1>4. CASE Head(s) \in S
  <2>1. ~InQ(Tail(s), S)
    <3> SUFFICES ASSUME NEW i \in 1 .. Len(Tail(s)), Tail(s)[i] \in S PROVE FALSE
      BY DEF InQ
    <3>1. i + 1 = 1
      BY <1>1, <1>4 DEF BufOK, AtMostOnce
    <3>. QED BY <3>1, SMT
  <2>2. e
    BY <1>1, <1>4 DEF BufOK, InQ
  <2>. QED BY <1>2, <1>3, <1>4, <2>1, <2>2 DEF BufOK
<1>5. CASE Head(s) \notin S
  <2>1. InQ(s, S) => InQ(Tail(s), S)
    <3> SUFFICES ASSUME NEW i \in 1 .. Len(s), s[i] \in S PROVE InQ(Tail(s), S)
      BY DEF InQ
    <3>1. i # 1
      BY <1>1, <1>5
    <3>2. i - 1 \in 1 .. Len(Tail(s)) /\ Tail(s)[i - 1] = s[i]
      BY <1>1, <3>1, SMT
    <3>. QED BY <3>2 DEF InQ
  <2>. QED BY <1>2, <1>3, <1>5, <2>1 DEF BufOK
<1>. QED BY <1>4, <1>5

\* The host enqueueing kernels none of which writes the buffer, without
\* changing whether its writer is enqueued.
LEMMA BufConcatNone ==
    ASSUME NEW T, NEW s \in Seq(T), NEW u \in Seq(T), NEW x, NEW S, NEW e \in BOOLEAN, NEW o, NEW f,
           BufOK(s, x, S, e, o, f), \A i \in 1 .. Len(u) : u[i] \notin S,
           NEW e2 \in BOOLEAN, e2 <=> e
    PROVE  BufOK(s \o u, x, S, e2, o, f)
<1>1. /\ Len(s \o u) = Len(s) + Len(u) /\ Len(s) \in Nat /\ Len(u) \in Nat
      /\ \A i \in 1 .. Len(s \o u) :
            IF i <= Len(s) THEN i \in 1 .. Len(s) /\ (s \o u)[i] = s[i]
            ELSE i - Len(s) \in 1 .. Len(u) /\ (s \o u)[i] = u[i - Len(s)]
  BY SMT
<1>2. \A i \in 1 .. Len(s \o u) : (s \o u)[i] \in S => i \in 1 .. Len(s) /\ (s \o u)[i] = s[i]
  BY <1>1
<1>3. InQ(s \o u, S) <=> InQ(s, S)
  <2>1. \A i \in 1 .. Len(s) : i \in 1 .. Len(s \o u) /\ (s \o u)[i] = s[i]
    BY <1>1, SMT
  <2>. QED BY <1>2, <2>1 DEF InQ
<1>4. AtMostOnce(s \o u, S)
  BY <1>2 DEF BufOK, AtMostOnce
<1>. QED BY <1>3, <1>4 DEF BufOK

\* The host enqueueing the buffer's one writer: the writer was not
\* enqueued before, so the buffer held its old value.
LEMMA BufConcatOne ==
    ASSUME NEW T, NEW s \in Seq(T), NEW u \in Seq(T), NEW x, NEW S, NEW o, NEW f,
           NEW e \in BOOLEAN, ~e, BufOK(s, x, S, e, o, f), InQ(u, S), AtMostOnce(u, S), NEW e2 \in BOOLEAN, e2
    PROVE  BufOK(s \o u, x, S, e2, o, f)
<1>1. ~InQ(s, S) /\ x = o
  BY DEF BufOK
<1>2. /\ Len(s \o u) = Len(s) + Len(u) /\ Len(s) \in Nat /\ Len(u) \in Nat
      /\ \A i \in 1 .. Len(s \o u) :
            IF i <= Len(s) THEN i \in 1 .. Len(s) /\ (s \o u)[i] = s[i]
            ELSE i - Len(s) \in 1 .. Len(u) /\ (s \o u)[i] = u[i - Len(s)]
      /\ \A i \in 1 .. Len(u) : i + Len(s) \in 1 .. Len(s \o u) /\ (s \o u)[i + Len(s)] = u[i]
  BY SMT
<1>3. \A i \in 1 .. Len(s \o u) : (s \o u)[i] \in S => i - Len(s) \in 1 .. Len(u) /\ (s \o u)[i] = u[i - Len(s)]
  BY <1>1, <1>2 DEF InQ
<1>4. InQ(s \o u, S)
  BY <1>2 DEF InQ
<1>5. AtMostOnce(s \o u, S)
  <2> SUFFICES ASSUME NEW i \in 1 .. Len(s \o u), NEW j \in 1 .. Len(s \o u),
                      (s \o u)[i] \in S, (s \o u)[j] \in S
               PROVE  i = j
    BY DEF AtMostOnce
  <2>1. i - Len(s) = j - Len(s)
    BY <1>3 DEF AtMostOnce
  <2>. QED BY <2>1, <1>2, SMT
<1>. QED BY <1>1, <1>4, <1>5 DEF BufOK

\* The kernels the calls enqueue are well formed, and the fallback's
\* backward kernels are GeneralGB (when gamma_grad or beta_grad is
\* requested) and GeneralData.
LEMMA LaunchableTyped ==
    ASSUME dr \in Req, gr \in Req, br \in Req
    PROVE  /\ Launchable \subseteq Kernel
           /\ GeneralBackward(dr, gr, br) =
                 IF gr = "null" /\ br = "null" THEN <<GeneralData>>
                 ELSE <<GeneralGB, GeneralData>>
<1>1. GeneralGB \in Kernel /\ GeneralData \in Kernel
  BY DEF GeneralGB, GeneralData, Kernel
<1>2. Launchable \subseteq Kernel
  BY <1>1, KernelsTyped DEF Launchable
<1>. QED BY <1>2 DEF GeneralBackward, GeneralGB, GeneralData

\* A kernel on the stream is told by its kind: the fused ones are
\* enqueued on the last axis only, the fallback's on any other.
LEMMA LaunchableKinds ==
    ASSUME dr \in Req, gr \in Req, br \in Req, NEW k \in Launchable
    PROVE  /\ k.kind \in {"fwd", "gb", "data", "ggb", "gdata"}
           /\ k.kind = "fwd" => k = FwdKernel
           /\ k.kind = "gb" => LastAxis /\ k = GammaBetaKernel(gr, br)
           /\ k.kind = "data" => LastAxis /\ k = DataKernel(dr)
           /\ k.kind = "ggb" => ~LastAxis /\ k = GeneralGB
           /\ k.kind = "gdata" => ~LastAxis /\ k = GeneralData
<1>1. LastAxis \in BOOLEAN
  BY DEF LastAxis
<1>. QED BY <1>1 DEF Launchable, FwdKernel, GammaBetaKernel, DataKernel, GeneralGB, GeneralData

\* A step that keeps the requests, the axis and the width keeps the
\* kernels that can be enqueued and what each buffer ends with.
LEMMA PathUnchanged ==
    ASSUME UNCHANGED <<dr, gr, br, axis, nchannel>>
    PROVE  /\ LastAxis' = LastAxis /\ Launchable' = Launchable
           /\ DataFinal' = DataFinal /\ BetaFinal' = BetaFinal
           /\ GammaGradFinal' = GammaGradFinal /\ ParamFinal' = ParamFinal
<1>1. LastAxis' = LastAxis
  BY DEF LastAxis, NormAxis
<1>2. Launchable' = Launchable
  BY <1>1 DEF Launchable, GammaBetaKernel, DataKernel, GeneralGB, GeneralData
<1>3. DataFinal' = DataFinal /\ BetaFinal' = BetaFinal
  BY <1>1 DEF DataFinal, BetaFinal, DataWrite, GammaBetaWrite
<1>4. GammaGradFinal' = GammaGradFinal /\ ParamFinal' = ParamFinal
  BY DEF GammaGradFinal, ParamFinal, GammaBetaWrite
<1>. QED BY <1>1, <1>2, <1>3, <1>4

\* Old contents and every effect of a kernel on them are contents.
LEMMA FinalsTyped ==
    ASSUME nchannel \in Nat
    PROVE  /\ Old \in Cont /\ Assign(Old) \in Cont
           /\ \A add \in BOOLEAN : /\ Write(Old, add) \in Cont
                                  /\ GammaBetaWrite(Old, add) \in Cont
                                  /\ DataWrite(Old, add) \in Cont
<1>1. Old \subseteq El /\ Assign(Old) \subseteq El /\ Accumulate(Old) \subseteq El
  BY DEF Old, Assign, Accumulate, El
<1>2. \A add \in BOOLEAN : Write(Old, add) \subseteq El
  BY <1>1 DEF Write
<1>3. \A add \in BOOLEAN : GammaBetaWrite(Old, add) \subseteq El
  BY <1>1, <1>2 DEF GammaBetaWrite
<1>4. \A add \in BOOLEAN :
         {[old |-> IF add THEN e.old ELSE 0, grad |-> 0] : e \in Old} \subseteq El
  BY DEF Old, El
<1>5. \A add \in BOOLEAN : DataWrite(Old, add) \subseteq El
  BY <1>1, <1>2, <1>4 DEF DataWrite
<1>. QED BY <1>1, <1>2, <1>3, <1>5 DEF Cont

\* The calls start with nothing enqueued and every buffer untouched.
LEMMA InitReqInv == Init => ReqInv
<1> SUFFICES ASSUME Init PROVE ReqInv
  OBVIOUS
<1>1. IInv
  BY InitIInv
<1>2. stream = <<>> /\ hpc = "fwd" /\ launched = 0
  BY DEF Init
<1>3. \A S : ~InQ(stream, S) /\ AtMostOnce(stream, S)
  BY <1>2 DEF InQ, AtMostOnce
<1>4. HostInv
  BY <1>2 DEF HostInv
<1>5. /\ fr \in FwdReqs /\ <<dr, gr, br>> \in GradReqs /\ nc \in NonContigs /\ axis \in Axes
      /\ nchannel \in Widths /\ outd \in Cont
  <2>1. PICK r \in GradReqs : dr = r[1] /\ gr = r[2] /\ br = r[3]
    BY DEF Init
  <2>2. r = <<dr, gr, br>>
    BY <2>1, DispatchConstAssumption
  <2>. QED BY <2>1, <2>2 DEF Init, Old, Cont, El
<1>6. ~DataEnq /\ ~BetaEnq /\ ~GammaGradEnq /\ ~GammaParamEnq
  BY <1>2 DEF DataEnq, BetaEnq, GammaGradEnq, GammaParamEnq, PastGB
<1>. QED BY <1>1, <1>2, <1>3, <1>4, <1>5, <1>6 DEF ReqInv, BufOK, Init

\* Enqueueing u behind a stream that holds no writer of the buffer: the
\* writer is enqueued exactly when u holds it.
LEMMA BufEnqueue ==
    ASSUME NEW T, NEW s \in Seq(T), NEW u \in Seq(T), NEW x, NEW S, NEW o, NEW f,
           NEW e \in BOOLEAN, ~e, BufOK(s, x, S, e, o, f), AtMostOnce(u, S),
           NEW e2 \in BOOLEAN, e2 <=> InQ(u, S)
    PROVE  BufOK(s \o u, x, S, e2, o, f)
<1>1. CASE InQ(u, S)
  <2>1. e2
    BY <1>1
  <2>. QED BY <1>1, <2>1, BufConcatOne
<1>2. CASE ~InQ(u, S)
  <2>1. \A i \in 1 .. Len(u) : u[i] \notin S
    BY <1>2 DEF InQ
  <2>2. e2 <=> e
    BY <1>2
  <2>. QED BY <2>1, <2>2, BufConcatNone
<1>. QED BY <1>1, <1>2

\* A buffer whose writer neither runs nor is enqueued.
LEMMA BufFlag ==
    ASSUME NEW s, NEW x, NEW S, NEW e \in BOOLEAN, NEW o, NEW f, BufOK(s, x, S, e, o, f),
           NEW e2 \in BOOLEAN, e2 <=> e
    PROVE  BufOK(s, x, S, e2, o, f)
BY DEF BufOK

\* The writers of a buffer among one or two enqueued kernels.
LEMMA InQOne ==
    ASSUME NEW k, NEW S
    PROVE  (InQ(<<k>>, S) <=> k \in S) /\ AtMostOnce(<<k>>, S)
BY DEF InQ, AtMostOnce

LEMMA InQTwo ==
    ASSUME NEW k1, NEW k2, NEW S, ~(k1 \in S /\ k2 \in S)
    PROVE  (InQ(<<k1, k2>>, S) <=> k1 \in S \/ k2 \in S) /\ AtMostOnce(<<k1, k2>>, S)
<1>1. \A i \in 1 .. 2 : i = 1 \/ i = 2
  BY SMT
<1>. QED BY <1>1 DEF InQ, AtMostOnce

\* Appending is concatenating a one-element sequence.
LEMMA AppendConcat ==
    ASSUME NEW T, NEW s \in Seq(T), NEW k \in T
    PROVE  Append(s, k) = s \o <<k>> /\ s \o <<>> = s
BY SMT

\* A stream holding at most one kernel.
LEMMA LenAtMostOne ==
    ASSUME NEW t, NEW k, t = <<>> \/ t = <<k>>
    PROVE  Len(t) <= 1
BY SMT

\* Before the gamma/beta launch (program counters "fwd" and "bwd") no
\* writer of a buffer is enqueued, and every buffer is untouched.
LEMMA BeforeLaunch ==
    ASSUME ReqInv, hpc \in {"fwd", "bwd"}
    PROVE  /\ ~DataEnq /\ ~BetaEnq /\ ~GammaGradEnq /\ ~GammaParamEnq
           /\ launched = 0
<1>1. launched = 0
  BY DEF ReqInv, HostInv
<1>. QED BY <1>1 DEF DataEnq, BetaEnq, GammaGradEnq, GammaParamEnq, PastGB

\* The forward call enqueues at most the forward kernel, which writes none
\* of the backward buffers and not the gamma parameter.
LEMMA ForwardReqInv ==
    ASSUME ReqInv, HostForward
    PROVE  ReqInv'
<1>0. /\ hpc = "fwd" /\ stream = <<>> /\ launched = 0
      /\ UNCHANGED <<fr, dr, gr, br, nc, axis, nchannel, outd, stats, gammaP, gg, bg, dg, staleRead>>
  BY DEF HostForward, ReqInv, IInv, HostInv
<1>1. IInv'
  BY NextIInv DEF ReqInv, Next
<1>2. /\ launched' = launched
      /\ \/ stream' = stream /\ hpc' = "bwd"
         \/ stream' = stream /\ hpc' = "failed" /\ (fr = "addto" \/ ~AxisInRange \/ nc = "in_data")
         \/ stream' = Append(stream, FwdKernel) /\ hpc' = "bwd"
  <2>1. AxisInRange \in BOOLEAN /\ LastAxis \in BOOLEAN
    BY DEF AxisInRange, LastAxis
  <2>2. CASE fr = "null"
    BY <2>2 DEF HostForward
  <2>3. CASE fr # "null" /\ (fr = "addto" \/ ~AxisInRange \/ (LastAxis /\ nc = "in_data"))
    BY <2>3 DEF HostForward, Fail
  <2>4. CASE fr # "null" /\ fr # "addto" /\ AxisInRange /\ (~LastAxis \/ nc # "in_data")
    BY <2>4 DEF HostForward, GeneralForward
  <2>. QED BY <2>1, <2>2, <2>3, <2>4
<1>3. /\ stream' \in {<<>>, <<FwdKernel>>} /\ hpc' \in {"bwd", "failed"}
      /\ hpc' = "failed" => fr = "addto" \/ ~AxisInRange \/ nc # "none"
  BY <1>0, <1>2
<1>4. ~DataEnq' /\ ~BetaEnq' /\ ~GammaGradEnq' /\ ~GammaParamEnq'
  BY <1>0, <1>2, <1>3 DEF DataEnq, BetaEnq, GammaGradEnq, GammaParamEnq, PastGB
<1>5. \A S \in {DataK, BetaK, GammaGradK, GammaParamK} :
         ~InQ(stream', S) /\ AtMostOnce(stream', S)
  <2>1. FwdKernel \notin DataK \cup BetaK \cup GammaGradK \cup GammaParamK
    BY DEF FwdKernel, DataK, BetaK, GammaGradK, GammaParamK
  <2>. QED BY <1>3, <2>1, InQOne DEF InQ, AtMostOnce
<1>6. /\ dg = Old /\ bg = Old /\ gg = Old /\ gammaP = Old
  BY <1>0, BeforeLaunch DEF ReqInv, BufOK
<1>7. HostInv'
  <2>1. Len(stream') <= 1
    <3>1. stream' = <<>> \/ stream' = <<FwdKernel>>
      BY <1>3
    <3>. QED BY <3>1, LenAtMostOne
  <2>. QED BY <1>0, <1>2, <1>3, <2>1 DEF HostInv, AxisInRange, LastAxis, NormAxis
<1>8. (\A i \in 1 .. Len(stream) : stream[i] \in Launchable)'
  BY <1>0, <1>3 DEF Launchable
<1>9. /\ BufOK(stream, dg, DataK, DataEnq, Old, DataFinal)'
      /\ BufOK(stream, bg, BetaK, BetaEnq, Old, BetaFinal)'
      /\ BufOK(stream, gg, GammaGradK, GammaGradEnq, Old, GammaGradFinal)'
      /\ BufOK(stream, gammaP, GammaParamK, GammaParamEnq, Old, ParamFinal)'
  BY <1>0, <1>4, <1>5, <1>6 DEF BufOK
<1>10. /\ fr' \in FwdReqs /\ <<dr', gr', br'>> \in GradReqs /\ nc' \in NonContigs /\ axis' \in Axes
       /\ nchannel' \in Widths /\ outd' \in Cont
  BY <1>0 DEF ReqInv
<1>. QED BY <1>0, <1>1, <1>7, <1>8, <1>9, <1>10 DEF ReqInv

\* The outcomes of the backward call's first host step, in the order of
\* its early returns and CHECKs.
LEMMA BackwardGBCases ==
    ASSUME ReqInv, HostBackwardGammaBeta
    PROVE  /\ UNCHANGED <<fr, dr, gr, br, nc, axis, nchannel, outd, stats, gammaP, gg, bg, dg, staleRead>>
           /\ \/ dr = "null" /\ hpc' = "end" /\ stream' = stream /\ launched' = launched
              \/ /\ hpc' = "failed" /\ stream' = stream /\ launched' = launched
                 /\ (~AxisInRange \/ nc # "none" \/ dr = "addto" \/ "inplace" \in {dr, gr, br})
              \/ /\ dr \notin {"null", "addto"} /\ AxisInRange /\ ~LastAxis
                 /\ stream' = stream \o GeneralBackward(dr, gr, br)
                 /\ launched' = launched + Len(GeneralBackward(dr, gr, br))
                 /\ hpc' = "end"
              \/ /\ dr \notin {"null", "addto"} /\ AxisInRange /\ LastAxis
                 /\ (gr # "null" \/ br # "null")
                 /\ stream' = Append(stream, GammaBetaKernel(gr, br))
                 /\ launched' = launched + 1 /\ hpc' = "bwd2"
              \/ /\ dr \notin {"null", "addto"} /\ AxisInRange /\ LastAxis
                 /\ gr = "null" /\ br = "null"
                 /\ stream' = stream /\ launched' = launched /\ hpc' = "bwd2"
<1>1. UNCHANGED <<fr, dr, gr, br, nc, axis, nchannel, outd, stats, gammaP, gg, bg, dg, staleRead>>
  BY DEF HostBackwardGammaBeta
<1>2. AxisInRange \in BOOLEAN /\ LastAxis \in BOOLEAN
  BY DEF AxisInRange, LastAxis
<1>3. CASE dr = "null"
  BY <1>3 DEF HostBackwardGammaBeta
<1>4. CASE dr # "null" /\ (dr = "addto" \/ ~AxisInRange)
  BY <1>4 DEF HostBackwardGammaBeta, Fail
<1>5. CASE dr \notin {"null", "addto"} /\ AxisInRange /\ ~LastAxis
  BY <1>5 DEF HostBackwardGammaBeta, EnqueueGeneral
<1>6. CASE dr \notin {"null", "addto"} /\ AxisInRange /\ LastAxis
  <2>1. CASE nc \in {"out_grad", "in_data"} \/ "inplace" \in {dr, gr, br}
              \/ nc \in {"gamma_grad", "beta_grad"}
    BY <1>6, <2>1 DEF HostBackwardGammaBeta, Fail
  <2>2. CASE ~(nc \in {"out_grad", "in_data"} \/ "inplace" \in {dr, gr, br}
               \/ nc \in {"gamma_grad", "beta_grad"})
    BY <1>6, <2>2 DEF HostBackwardGammaBeta, Enqueue
  <2>. QED BY <2>1, <2>2
<1>. QED BY <1>1, <1>2, <1>3, <1>4, <1>5, <1>6

\* Which buffer each kernel the calls enqueue writes: data_grad the data
\* kernel; beta_grad either gamma/beta kernel when beta_grad is requested;
\* gamma_grad the fallback's, and the gamma parameter the fused one, when
\* gamma_grad is requested.
LEMMA KernelWrites ==
    ASSUME dr \in Req, gr \in Req, br \in Req
    PROVE  /\ DataKernel(dr) \in DataK
           /\ DataKernel(dr) \notin BetaK /\ DataKernel(dr) \notin GammaGradK
           /\ DataKernel(dr) \notin GammaParamK
           /\ GeneralData \in DataK
           /\ GeneralData \notin BetaK /\ GeneralData \notin GammaGradK
           /\ GeneralData \notin GammaParamK
           /\ GammaBetaKernel(gr, br) \notin DataK /\ GammaBetaKernel(gr, br) \notin GammaGradK
           /\ GammaBetaKernel(gr, br) \in BetaK <=> br # "null"
           /\ GammaBetaKernel(gr, br) \in GammaParamK <=> gr # "null"
           /\ GeneralGB \notin DataK /\ GeneralGB \notin GammaParamK
           /\ GeneralGB \in BetaK <=> br # "null"
           /\ GeneralGB \in GammaGradK <=> gr # "null"
           /\ FwdKernel \notin DataK /\ FwdKernel \notin BetaK
           /\ FwdKernel \notin GammaGradK /\ FwdKernel \notin GammaParamK
<1>1. DataKernel(dr) \in Kernel /\ GammaBetaKernel(gr, br) \in Kernel /\ GeneralGB \in Kernel
      /\ FwdKernel \in Kernel /\ GeneralData \in Kernel
  BY KernelsTyped DEF GeneralGB, GeneralData, Kernel
<1>. QED BY <1>1 DEF DataKernel, GammaBetaKernel, GeneralGB, GeneralData, FwdKernel,
                    DataK, BetaK, GammaGradK, GammaParamK

\* The lengths of short streams and of a concatenation.
LEMMA LenFacts ==
    ASSUME NEW T, NEW s \in Seq(T), NEW u \in Seq(T), NEW k1, NEW k2
    PROVE  /\ Len(<<k1>>) = 1 /\ Len(<<k1, k2>>) = 2
           /\ Len(s \o u) = Len(s) + Len(u) /\ Len(s) \in Nat /\ Len(u) \in Nat
BY SMT

\* Concatenating kernels of a set keeps every kernel of the stream in it.
LEMMA ConcatWithin ==
    ASSUME NEW T, NEW s \in Seq(T), NEW u \in Seq(T), NEW L,
           \A i \in 1 .. Len(s) : s[i] \in L, \A i \in 1 .. Len(u) : u[i] \in L
    PROVE  \A i \in 1 .. Len(s \o u) : (s \o u)[i] \in L
BY SMT

\* A host step that leaves the buffers and the requests alone keeps the
\* invariant once it keeps the host's progress, the stream's kernels and
\* the four buffers' accounts.
LEMMA HostAssemble ==
    ASSUME ReqInv, IInv', HostInv',
           UNCHANGED <<fr, dr, gr, br, nc, axis, nchannel, outd, gammaP, gg, bg, dg>>,
           \A i \in 1 .. Len(stream') : stream'[i] \in Launchable,
           BufOK(stream', dg, DataK, DataEnq', Old, DataFinal),
           BufOK(stream', bg, BetaK, BetaEnq', Old, BetaFinal),
           BufOK(stream', gg, GammaGradK, GammaGradEnq', Old, GammaGradFinal),
           BufOK(stream', gammaP, GammaParamK, GammaParamEnq', Old, ParamFinal)
    PROVE  ReqInv'
<1>1. /\ Launchable' = Launchable
      /\ DataFinal' = DataFinal /\ BetaFinal' = BetaFinal
      /\ GammaGradFinal' = GammaGradFinal /\ ParamFinal' = ParamFinal
  BY PathUnchanged
<1>. QED BY <1>1 DEF ReqInv

\* The backward call's first host step: every early return and CHECK
\* leaves the buffers' writers unenqueued, the fallback enqueues its
\* gamma/beta kernel (if requested) and its data kernel, and the fused path
\* its gamma/beta kernel (if requested).
LEMMA BackwardGBReqInv ==
    ASSUME ReqInv, HostBackwardGammaBeta
    PROVE  ReqInv'
<1>0. /\ hpc = "bwd" /\ launched = 0 /\ stream \in Seq(Kernel) /\ Len(stream) <= 1
      /\ dr \in Req /\ gr \in Req /\ br \in Req
      /\ \A i \in 1 .. Len(stream) : stream[i] \in Launchable
      /\ ~DataEnq /\ ~BetaEnq /\ ~GammaGradEnq /\ ~GammaParamEnq
  BY BeforeLaunch, SMT DEF HostBackwardGammaBeta, ReqInv, IInv, HostInv
<1>1. IInv'
  BY NextIInv DEF ReqInv, Next
<1>2. UNCHANGED <<fr, dr, gr, br, nc, axis, nchannel, outd, stats, gammaP, gg, bg, dg, staleRead>>
  BY BackwardGBCases
<1>3. /\ BufOK(stream, dg, DataK, DataEnq, Old, DataFinal)
      /\ BufOK(stream, bg, BetaK, BetaEnq, Old, BetaFinal)
      /\ BufOK(stream, gg, GammaGradK, GammaGradEnq, Old, GammaGradFinal)
      /\ BufOK(stream, gammaP, GammaParamK, GammaParamEnq, Old, ParamFinal)
  BY DEF ReqInv
<1>4. Launchable \subseteq Kernel
  BY <1>0, LaunchableTyped
<1>9. /\ DataEnq \in BOOLEAN /\ BetaEnq \in BOOLEAN
      /\ GammaGradEnq \in BOOLEAN /\ GammaParamEnq \in BOOLEAN
      /\ DataEnq' \in BOOLEAN /\ BetaEnq' \in BOOLEAN
      /\ GammaGradEnq' \in BOOLEAN /\ GammaParamEnq' \in BOOLEAN
  BY DEF DataEnq, BetaEnq, GammaGradEnq, GammaParamEnq
\* The early returns and CHECKs: nothing enqueued, nothing to be written.
<1>5. ASSUME stream' = stream, ~DataEnq', ~BetaEnq', ~GammaGradEnq', ~GammaParamEnq', HostInv'
      PROVE  ReqInv'
  <2>1. /\ BufOK(stream', dg, DataK, DataEnq', Old, DataFinal)
        /\ BufOK(stream', bg, BetaK, BetaEnq', Old, BetaFinal)
        /\ BufOK(stream', gg, GammaGradK, GammaGradEnq', Old, GammaGradFinal)
        /\ BufOK(stream', gammaP, GammaParamK, GammaParamEnq', Old, ParamFinal)
    <3>1. /\ (DataEnq' <=> DataEnq) /\ (BetaEnq' <=> BetaEnq)
          /\ (GammaGradEnq' <=> GammaGradEnq) /\ (GammaParamEnq' <=> GammaParamEnq)
      BY <1>0, <1>5
    <3>2. BufOK(stream, dg, DataK, DataEnq', Old, DataFinal)
      BY <1>3, <1>9, <3>1, BufFlag
    <3>3. BufOK(stream, bg, BetaK, BetaEnq', Old, BetaFinal)
      BY <1>3, <1>9, <3>1, BufFlag
    <3>4. BufOK(stream, gg, GammaGradK, GammaGradEnq', Old, GammaGradFinal)
      BY <1>3, <1>9, <3>1, BufFlag
    <3>5. BufOK(stream, gammaP, GammaParamK, GammaParamEnq', Old, ParamFinal)
      BY <1>3, <1>9, <3>1, BufFlag
    <3>. QED BY <1>5, <3>2, <3>3, <3>4, <3>5
  <2>. QED BY <1>0, <1>1, <1>2, <1>5, <2>1, HostAssemble
<1>6. CASE dr = "null" /\ hpc' = "end" /\ stream' = stream /\ launched' = launched
  <2>1. ~DataEnq' /\ ~BetaEnq' /\ ~GammaGradEnq' /\ ~GammaParamEnq'
    BY <1>2, <1>6 DEF DataEnq, BetaEnq, GammaGradEnq, GammaParamEnq
  <2>2. HostInv'
    BY <1>0, <1>6 DEF HostInv
  <2>. QED BY <1>5, <1>6, <2>1, <2>2
<1>7. CASE /\ hpc' = "failed" /\ stream' = stream /\ launched' = launched
           /\ (~AxisInRange \/ nc # "none" \/ dr = "addto" \/ "inplace" \in {dr, gr, br})
  <2>1. ~DataEnq' /\ ~BetaEnq' /\ ~GammaGradEnq' /\ ~GammaParamEnq'
    BY <1>0, <1>2, <1>7 DEF DataEnq, BetaEnq, GammaGradEnq, GammaParamEnq, PastGB
  <2>2. HostInv'
    BY <1>0, <1>2, <1>7 DEF HostInv, AxisInRange, LastAxis, NormAxis
  <2>. QED BY <1>5, <1>7, <2>1, <2>2
<1>8. CASE /\ dr \notin {"null", "addto"} /\ AxisInRange /\ LastAxis
           /\ gr = "null" /\ br = "null"
           /\ stream' = stream /\ launched' = launched /\ hpc' = "bwd2"
  <2>1. ~DataEnq' /\ ~BetaEnq' /\ ~GammaGradEnq' /\ ~GammaParamEnq'
    BY <1>2, <1>8 DEF DataEnq, BetaEnq, GammaGradEnq, GammaParamEnq
  <2>2. HostInv'
    BY <1>0, <1>2, <1>8, SMT DEF HostInv, AxisInRange, LastAxis, NormAxis
  <2>. QED BY <1>5, <1>8, <2>1, <2>2
<1>10. CASE /\ dr \notin {"null", "addto"} /\ AxisInRange /\ ~LastAxis
            /\ stream' = stream \o GeneralBackward(dr, gr, br)
            /\ launched' = launched + Len(GeneralBackward(dr, gr, br))
            /\ hpc' = "end"
  <2> DEFINE G == GeneralBackward(dr, gr, br)
  <2>1. GeneralData \in Kernel /\ GeneralGB \in Kernel
        /\ GeneralData \in Launchable /\ GeneralGB \in Launchable
    BY <1>0, <1>4, <1>10 DEF Launchable
  <2>2. /\ G \in Seq(Kernel) /\ Len(G) \in {1, 2}
        /\ \A i \in 1 .. Len(G) : G[i] \in Launchable
        /\ InQ(G, DataK) /\ AtMostOnce(G, DataK)
        /\ (InQ(G, BetaK) <=> br # "null") /\ AtMostOnce(G, BetaK)
        /\ (InQ(G, GammaGradK) <=> gr # "null") /\ AtMostOnce(G, GammaGradK)
        /\ ~InQ(G, GammaParamK) /\ AtMostOnce(G, GammaParamK)
    <3>1. CASE gr = "null" /\ br = "null"
      <4>1. G = <<GeneralData>>
        BY <1>0, <3>1, LaunchableTyped
      <4>2. Len(G) = 1 /\ G \in Seq(Kernel) /\ \A i \in 1 .. Len(G) : G[i] \in Launchable
        BY <2>1, <4>1, LenFacts
      <4>. QED BY <1>0, <3>1, <4>1, <4>2, InQOne, KernelWrites
    <3>2. CASE ~(gr = "null" /\ br = "null")
      <4>1. G = <<GeneralGB, GeneralData>>
        BY <1>0, <3>2, LaunchableTyped
      <4>2. Len(G) = 2 /\ G \in Seq(Kernel) /\ \A i \in 1 .. Len(G) : G[i] \in Launchable
        <5>1. \A i \in 1 .. 2 : i = 1 \/ i = 2
          BY SMT
        <5>. QED BY <2>1, <4>1, <5>1, LenFacts
      <4>3. /\ ~(GeneralGB \in DataK /\ GeneralData \in DataK)
            /\ ~(GeneralGB \in BetaK /\ GeneralData \in BetaK)
            /\ ~(GeneralGB \in GammaGradK /\ GeneralData \in GammaGradK)
            /\ ~(GeneralGB \in GammaParamK /\ GeneralData \in GammaParamK)
        BY <1>0, KernelWrites
      <4>. QED BY <1>0, <3>2, <4>1, <4>2, <4>3, InQTwo, KernelWrites
    <3>. QED BY <3>1, <3>2
  <2>3. /\ DataEnq' /\ (BetaEnq' <=> br # "null") /\ (GammaGradEnq' <=> gr # "null")
        /\ ~GammaParamEnq'
    BY <1>2, <1>10 DEF DataEnq, BetaEnq, GammaGradEnq, GammaParamEnq, PastGB,
                       LastAxis, NormAxis
  <2>4. /\ BufOK(stream', dg, DataK, DataEnq', Old, DataFinal)
        /\ BufOK(stream', bg, BetaK, BetaEnq', Old, BetaFinal)
        /\ BufOK(stream', gg, GammaGradK, GammaGradEnq', Old, GammaGradFinal)
        /\ BufOK(stream', gammaP, GammaParamK, GammaParamEnq', Old, ParamFinal)
    <3>1. BufOK(stream \o G, dg, DataK, DataEnq', Old, DataFinal)
      BY <1>0, <1>3, <1>9, <2>2, <2>3, BufEnqueue
    <3>2. BufOK(stream \o G, bg, BetaK, BetaEnq', Old, BetaFinal)
      BY <1>0, <1>3, <1>9, <2>2, <2>3, BufEnqueue
    <3>3. BufOK(stream \o G, gg, GammaGradK, GammaGradEnq', Old, GammaGradFinal)
      BY <1>0, <1>3, <1>9, <2>2, <2>3, BufEnqueue
    <3>4. BufOK(stream \o G, gammaP, GammaParamK, GammaParamEnq', Old, ParamFinal)
      BY <1>0, <1>3, <1>9, <2>2, <2>3, BufEnqueue
    <3>. QED BY <1>10, <3>1, <3>2, <3>3, <3>4
  <2>5. HostInv'
    <3>1. Len(stream') = Len(stream) + Len(G) /\ Len(stream) \in Nat
      BY <1>0, <1>10, <2>2, LenFacts
    <3>2. launched' = Len(G)
      BY <1>0, <1>10, <2>2
    <3>. QED BY <1>0, <1>10, <2>2, <3>1, <3>2, SMT DEF HostInv
  <2>6. \A i \in 1 .. Len(stream') : stream'[i] \in Launchable
    BY <1>0, <1>10, <2>2, ConcatWithin
  <2>. QED BY <1>1, <1>2, <2>4, <2>5, <2>6, HostAssemble
<1>11. CASE /\ dr \notin {"null", "addto"} /\ AxisInRange /\ LastAxis
            /\ (gr # "null" \/ br # "null")
            /\ stream' = Append(stream, GammaBetaKernel(gr, br))
            /\ launched' = launched + 1 /\ hpc' = "bwd2"
  <2> DEFINE K == GammaBetaKernel(gr, br)
  <2>1. K \in Kernel /\ K \in Launchable
    BY <1>0, <1>4, <1>11 DEF Launchable
  <2>2. /\ stream' = stream \o <<K>> /\ <<K>> \in Seq(Kernel)
        /\ Len(stream') = Len(stream) + 1 /\ Len(stream) \in Nat
        /\ \A i \in 1 .. Len(<<K>>) : <<K>>[i] \in Launchable
    <3>1. stream' = stream \o <<K>>
      BY <1>0, <1>11, <2>1, AppendConcat
    <3>2. <<K>> \in Seq(Kernel) /\ Len(<<K>>) = 1
      BY <2>1, LenFacts
    <3>. QED BY <1>0, <2>1, <3>1, <3>2, LenFacts
  <2>3. /\ ~DataEnq' /\ (BetaEnq' <=> br # "null") /\ ~GammaGradEnq'
        /\ (GammaParamEnq' <=> gr # "null")
    BY <1>2, <1>11 DEF DataEnq, BetaEnq, GammaGradEnq, GammaParamEnq, PastGB,
                       LastAxis, NormAxis
  <2>4. /\ ~InQ(<<K>>, DataK) /\ (InQ(<<K>>, BetaK) <=> br # "null")
        /\ ~InQ(<<K>>, GammaGradK) /\ (InQ(<<K>>, GammaParamK) <=> gr # "null")
        /\ \A S \in {DataK, BetaK, GammaGradK, GammaParamK} : AtMostOnce(<<K>>, S)
    BY <1>0, InQOne, KernelWrites
  <2>5. /\ BufOK(stream', dg, DataK, DataEnq', Old, DataFinal)
        /\ BufOK(stream', bg, BetaK, BetaEnq', Old, BetaFinal)
        /\ BufOK(stream', gg, GammaGradK, GammaGradEnq', Old, GammaGradFinal)
        /\ BufOK(stream', gammaP, GammaParamK, GammaParamEnq', Old, ParamFinal)
    <3>1. BufOK(stream \o <<K>>, dg, DataK, DataEnq', Old, DataFinal)
      BY <1>0, <1>3, <1>9, <2>2, <2>3, <2>4, BufEnqueue
    <3>2. BufOK(stream \o <<K>>, bg, BetaK, BetaEnq', Old, BetaFinal)
      BY <1>0, <1>3, <1>9, <2>2, <2>3, <2>4, BufEnqueue
    <3>3. BufOK(stream \o <<K>>, gg, GammaGradK, GammaGradEnq', Old, GammaGradFinal)
      BY <1>0, <1>3, <1>9, <2>2, <2>3, <2>4, BufEnqueue
    <3>4. BufOK(stream \o <<K>>, gammaP, GammaParamK, GammaParamEnq', Old, ParamFinal)
      BY <1>0, <1>3, <1>9, <2>2, <2>3, <2>4, BufEnqueue
    <3>. QED BY <2>2, <3>1, <3>2, <3>3, <3>4
  <2>6. HostInv'
    BY <1>0, <1>2, <1>11, <2>2, SMT DEF HostInv, AxisInRange, LastAxis, NormAxis
  <2>7. \A i \in 1 .. Len(stream') : stream'[i] \in Launchable
    BY <1>0, <2>2, ConcatWithin
  <2>. QED BY <1>1, <1>2, <2>5, <2>6, <2>7, HostAssemble
<1>. QED BY <1>6, <1>7, <1>8, <1>10, <1>11, BackwardGBCases

\* The backward call's second host step: the data_grad contiguity CHECK
\* fails with the gamma/beta kernel (if any) still enqueued, or the data
\* kernel is enqueued behind it.
LEMMA BackwardDataReqInv ==
    ASSUME ReqInv, HostBackwardData
    PROVE  ReqInv'
<1>0. /\ hpc = "bwd2" /\ AxisInRange /\ LastAxis /\ dr \notin {"null", "addto"}
      /\ launched = IF gr # "null" \/ br # "null" THEN 1 ELSE 0
      /\ stream \in Seq(Kernel) /\ Len(stream) <= 1 + launched
      /\ dr \in Req /\ gr \in Req /\ br \in Req
      /\ \A i \in 1 .. Len(stream) : stream[i] \in Launchable
      /\ UNCHANGED <<fr, dr, gr, br, nc, axis, nchannel, outd, stats, gammaP, gg, bg, dg, staleRead>>
  BY DispatchConstAssumption DEF HostBackwardData, ReqInv, IInv, HostInv
<1>1. IInv'
  BY NextIInv DEF ReqInv, Next
<1>2. /\ BufOK(stream, dg, DataK, DataEnq, Old, DataFinal)
      /\ BufOK(stream, bg, BetaK, BetaEnq, Old, BetaFinal)
      /\ BufOK(stream, gg, GammaGradK, GammaGradEnq, Old, GammaGradFinal)
      /\ BufOK(stream, gammaP, GammaParamK, GammaParamEnq, Old, ParamFinal)
  BY DEF ReqInv
<1>3. /\ DataEnq \in BOOLEAN /\ BetaEnq \in BOOLEAN
      /\ GammaGradEnq \in BOOLEAN /\ GammaParamEnq \in BOOLEAN
      /\ DataEnq' \in BOOLEAN /\ BetaEnq' \in BOOLEAN
      /\ GammaGradEnq' \in BOOLEAN /\ GammaParamEnq' \in BOOLEAN
      /\ ~DataEnq /\ ~GammaGradEnq
  BY <1>0 DEF DataEnq, BetaEnq, GammaGradEnq, GammaParamEnq
<1>4. Launchable \subseteq Kernel
  BY <1>0, LaunchableTyped
\* The failed CHECK: the gamma/beta kernel's account stands, by the launch
\* count, and data_grad's writer was never enqueued.
<1>5. CASE nc = "data_grad"
  <2>1. hpc' = "failed" /\ stream' = stream /\ launched' = launched
    BY <1>5 DEF HostBackwardData, Fail
  <2>2. /\ (DataEnq' <=> DataEnq) /\ (BetaEnq' <=> BetaEnq)
        /\ (GammaGradEnq' <=> GammaGradEnq) /\ (GammaParamEnq' <=> GammaParamEnq)
    BY <1>0, <2>1, SMT DEF DataEnq, BetaEnq, GammaGradEnq, GammaParamEnq, PastGB,
                           LastAxis, NormAxis
  <2>3. /\ BufOK(stream', dg, DataK, DataEnq', Old, DataFinal)
        /\ BufOK(stream', bg, BetaK, BetaEnq', Old, BetaFinal)
        /\ BufOK(stream', gg, GammaGradK, GammaGradEnq', Old, GammaGradFinal)
        /\ BufOK(stream', gammaP, GammaParamK, GammaParamEnq', Old, ParamFinal)
    <3>1. BufOK(stream, dg, DataK, DataEnq', Old, DataFinal)
      BY <1>2, <1>3, <2>2, BufFlag
    <3>2. BufOK(stream, bg, BetaK, BetaEnq', Old, BetaFinal)
      BY <1>2, <1>3, <2>2, BufFlag
    <3>3. BufOK(stream, gg, GammaGradK, GammaGradEnq', Old, GammaGradFinal)
      BY <1>2, <1>3, <2>2, BufFlag
    <3>4. BufOK(stream, gammaP, GammaParamK, GammaParamEnq', Old, ParamFinal)
      BY <1>2, <1>3, <2>2, BufFlag
    <3>. QED BY <2>1, <3>1, <3>2, <3>3, <3>4
  <2>4. HostInv'
    BY <1>0, <1>5, <2>1, SMT DEF HostInv, AxisInRange, LastAxis, NormAxis
  <2>. QED BY <1>0, <1>1, <2>1, <2>3, <2>4, HostAssemble
\* The data launch: data_grad's writer enqueued, the others' accounts kept.
<1>6. CASE nc # "data_grad"
  <2> DEFINE K == DataKernel(dr)
  <2>1. hpc' = "end" /\ stream' = Append(stream, K) /\ launched' = launched + 1
    BY <1>0, <1>6 DEF HostBackwardData, Enqueue
  <2>2. K \in Kernel /\ K \in Launchable
    BY <1>0, <1>4 DEF Launchable
  <2>3. /\ stream' = stream \o <<K>> /\ <<K>> \in Seq(Kernel)
        /\ Len(stream') = Len(stream) + 1 /\ Len(stream) \in Nat
        /\ \A i \in 1 .. Len(<<K>>) : <<K>>[i] \in Launchable
    <3>1. stream' = stream \o <<K>>
      BY <1>0, <2>1, <2>2, AppendConcat
    <3>2. <<K>> \in Seq(Kernel) /\ Len(<<K>>) = 1
      BY <2>2, LenFacts
    <3>. QED BY <1>0, <2>2, <3>1, <3>2, LenFacts
  <2>4. /\ DataEnq' /\ (BetaEnq' <=> BetaEnq)
        /\ (GammaGradEnq' <=> GammaGradEnq) /\ (GammaParamEnq' <=> GammaParamEnq)
    BY <1>0, <2>1 DEF DataEnq, BetaEnq, GammaGradEnq, GammaParamEnq, PastGB,
                      LastAxis, NormAxis
  <2>5. /\ InQ(<<K>>, DataK) /\ AtMostOnce(<<K>>, DataK)
        /\ \A i \in 1 .. Len(<<K>>) : <<K>>[i] \notin BetaK \cup GammaGradK \cup GammaParamK
    BY <1>0, InQOne, KernelWrites
  <2>6. /\ BufOK(stream', dg, DataK, DataEnq', Old, DataFinal)
        /\ BufOK(stream', bg, BetaK, BetaEnq', Old, BetaFinal)
        /\ BufOK(stream', gg, GammaGradK, GammaGradEnq', Old, GammaGradFinal)
        /\ BufOK(stream', gammaP, GammaParamK, GammaParamEnq', Old, ParamFinal)
    <3>0. /\ stream \in Seq(Kernel) /\ <<K>> \in Seq(Kernel)
          /\ DataEnq' <=> InQ(<<K>>, DataK)
          /\ \A i \in 1 .. Len(<<K>>) : <<K>>[i] \notin BetaK
          /\ \A i \in 1 .. Len(<<K>>) : <<K>>[i] \notin GammaGradK
          /\ \A i \in 1 .. Len(<<K>>) : <<K>>[i] \notin GammaParamK
      BY <1>0, <2>3, <2>4, <2>5
    <3>1. BufOK(stream \o <<K>>, dg, DataK, DataEnq', Old, DataFinal)
      BY <1>2, <1>3, <2>5, <3>0, BufEnqueue, Zenon
    <3>2. BufOK(stream \o <<K>>, bg, BetaK, BetaEnq', Old, BetaFinal)
      <4>1. \A f : BufOK(stream, bg, BetaK, BetaEnq, Old, f) => BufOK(stream \o <<K>>, bg, BetaK, BetaEnq', Old, f)
        BY <1>3, <2>4, <3>0, BufConcatNone
      <4>. QED BY <1>2, <4>1
    <3>3. BufOK(stream \o <<K>>, gg, GammaGradK, GammaGradEnq', Old, GammaGradFinal)
      <4>1. \A f : BufOK(stream, gg, GammaGradK, GammaGradEnq, Old, f) => BufOK(stream \o <<K>>, gg, GammaGradK, GammaGradEnq', Old, f)
        BY <1>3, <2>4, <3>0, BufConcatNone
      <4>. QED BY <1>2, <4>1
    <3>4. BufOK(stream \o <<K>>, gammaP, GammaParamK, GammaParamEnq', Old, ParamFinal)
      BY <1>2, <1>3, <2>4, <3>0, BufConcatNone, Zenon
    <3>. QED BY <2>3, <3>1, <3>2, <3>3, <3>4
  <2>7. HostInv'
    BY <1>0, <2>1, <2>3, SMT DEF HostInv
  <2>8. \A i \in 1 .. Len(stream') : stream'[i] \in Launchable
    BY <1>0, <2>3, ConcatWithin
  <2>. QED BY <1>0, <1>1, <2>6, <2>7, <2>8, HostAssemble
<1>. QED BY <1>5, <1>6

\* The device running the kernel at the head of the stream: the buffers it
\* writes were untouched, since their writer was pending, and take the
\* value their requests ask for.
LEMMA DeviceRunReqInv ==
    ASSUME ReqInv, DeviceRun
    PROVE  ReqInv'
<1> DEFINE k == Head(stream)
<1>0. /\ stream \in Seq(Kernel) /\ stream # <<>>
      /\ k = stream[1] /\ 1 \in 1 .. Len(stream)
      /\ dr \in Req /\ gr \in Req /\ br \in Req
      /\ \A i \in 1 .. Len(stream) : stream[i] \in Launchable
      /\ Execute(k) /\ stream' = Tail(stream)
      /\ UNCHANGED <<fr, dr, gr, br, nc, axis, nchannel, hpc, launched>>
  <2>1. stream \in Seq(Kernel) /\ stream # <<>> /\ dr \in Req /\ gr \in Req /\ br \in Req
    BY DispatchConstAssumption DEF DeviceRun, ReqInv, IInv
  <2>2. k = stream[1] /\ 1 \in 1 .. Len(stream)
    BY <2>1, SMT
  <2>. QED BY <2>1, <2>2 DEF DeviceRun, ReqInv
<1>1. IInv'
  BY NextIInv DEF ReqInv, Next
<1>2. k \in Launchable /\ k \in Kernel
  BY <1>0, LaunchableTyped
<1>3. /\ BufOK(stream, dg, DataK, DataEnq, Old, DataFinal)
      /\ BufOK(stream, bg, BetaK, BetaEnq, Old, BetaFinal)
      /\ BufOK(stream, gg, GammaGradK, GammaGradEnq, Old, GammaGradFinal)
      /\ BufOK(stream, gammaP, GammaParamK, GammaParamEnq, Old, ParamFinal)
  BY DEF ReqInv
\* A buffer the head kernel writes is untouched: its writer is pending.
<1>4. /\ k \in DataK => dg = Old
      /\ k \in BetaK => bg = Old
      /\ k \in GammaGradK => gg = Old
      /\ k \in GammaParamK => gammaP = Old
  BY <1>0, <1>3 DEF BufOK, InQ
\* The head kernel's effect, by its kind: the fused kernels' on the last
\* axis, the fallback's on any other.
<1>5. /\ dg' = IF k \in DataK THEN DataFinal ELSE dg
      /\ bg' = IF k \in BetaK THEN BetaFinal ELSE bg
      /\ gg' = IF k \in GammaGradK THEN GammaGradFinal ELSE gg
      /\ gammaP' = IF k \in GammaParamK THEN ParamFinal ELSE gammaP
      /\ outd' \in {outd, Assign(outd)}
  <2>1. /\ (k \in DataK <=> k.kind \in {"data", "gdata"}) /\ (k \in BetaK <=> k.bt = "beta_grad")
        /\ (k \in GammaGradK <=> k.gt = "gamma_grad") /\ (k \in GammaParamK <=> k.gt = "gamma")
    BY <1>2 DEF DataK, BetaK, GammaGradK, GammaParamK
  <2>2. CASE k.kind = "fwd"
    <3>1. k = FwdKernel
      BY <1>0, <1>2, <2>2, LaunchableKinds
    <3>2. k \notin DataK /\ k \notin BetaK /\ k \notin GammaGradK /\ k \notin GammaParamK
      BY <1>0, <3>1, KernelWrites
    <3>3. ForwardEffect
      BY <1>0, <2>2 DEF Execute
    <3>. QED BY <3>2, <3>3 DEF ForwardEffect
  <2>3. CASE k.kind = "gb"
    <3>1. LastAxis /\ k = GammaBetaKernel(gr, br)
      BY <1>0, <1>2, <2>3, LaunchableKinds
    <3>2. GammaBetaEffect(k)
      BY <1>0, <2>3 DEF Execute
    <3>3. /\ k.gadd = (gr = "addto") /\ k.badd = (br = "addto")
          /\ k.gt \in {"gamma", "none"} /\ k.bt \in {"beta_grad", "none"}
      BY <3>1 DEF GammaBetaKernel
    <3>4. k \notin DataK /\ k \notin GammaGradK
      BY <1>0, <3>1, KernelWrites
    <3>5. k \in GammaParamK => gammaP' = ParamFinal
      BY <1>4, <2>1, <3>2, <3>3 DEF GammaBetaEffect, ParamFinal
    <3>6. k \in BetaK => bg' = BetaFinal
      BY <1>4, <2>1, <3>1, <3>2, <3>3 DEF GammaBetaEffect, BetaFinal
    <3>. QED BY <2>1, <3>2, <3>3, <3>4, <3>5, <3>6 DEF GammaBetaEffect
  <2>4. CASE k.kind = "data"
    <3>1. LastAxis /\ k = DataKernel(dr)
      BY <1>0, <1>2, <2>4, LaunchableKinds
    <3>2. DataEffect(k)
      BY <1>0, <2>4 DEF Execute
    <3>3. k.dadd = (dr = "addto") /\ k \in DataK
      <4>1. k \in DataK
        BY <1>0, <3>1, KernelWrites
      <4>2. k.dadd = (dr = "addto")
        BY <3>1 DEF DataKernel
      <4>. QED BY <4>1, <4>2
    <3>4. k \notin BetaK /\ k \notin GammaGradK /\ k \notin GammaParamK
      BY <1>0, <3>1, KernelWrites
    <3>5. dg' = DataFinal
      BY <1>4, <3>1, <3>2, <3>3 DEF DataEffect, DataFinal
    <3>. QED BY <3>2, <3>3, <3>4, <3>5 DEF DataEffect
  <2>5. CASE k.kind = "ggb"
    <3>1. ~LastAxis /\ k = GeneralGB
      BY <1>0, <1>2, <2>5, LaunchableKinds
    <3>2. GeneralEffect(k)
      BY <1>0, <2>5 DEF Execute
    <3>3. /\ k.gadd = (gr = "addto") /\ k.badd = (br = "addto")
          /\ k.gt \in {"gamma_grad", "none"} /\ k.bt \in {"beta_grad", "none"}
      BY <3>1 DEF GeneralGB
    <3>4. k \notin DataK /\ k \notin GammaParamK
      BY <1>0, <3>1, KernelWrites
    <3>5. k \in GammaGradK => gg' = GammaGradFinal
      BY <1>4, <2>1, <3>2, <3>3 DEF GeneralEffect, GammaGradFinal
    <3>6. k \in BetaK => bg' = BetaFinal
      BY <1>4, <2>1, <3>1, <3>2, <3>3 DEF GeneralEffect, BetaFinal
    <3>. QED BY <2>1, <2>5, <3>2, <3>3, <3>4, <3>5, <3>6 DEF GeneralEffect
  <2>6. CASE k.kind = "gdata"
    <3>1. ~LastAxis /\ k = GeneralData
      BY <1>0, <1>2, <2>6, LaunchableKinds
    <3>2. GeneralEffect(k)
      BY <1>0, <2>6 DEF Execute
    <3>3. k.dadd = (dr = "addto") /\ k.gt = "none" /\ k.bt = "none" /\ k \in DataK
      <4>1. k \in DataK
        BY <1>0, <3>1, KernelWrites
      <4>2. k.dadd = (dr = "addto") /\ k.gt = "none" /\ k.bt = "none"
        BY <3>1 DEF GeneralData
      <4>. QED BY <4>1, <4>2
    <3>4. k \notin BetaK /\ k \notin GammaGradK /\ k \notin GammaParamK
      BY <1>0, <3>1, KernelWrites
    <3>5. dg' = DataFinal
      BY <1>4, <2>6, <3>1, <3>2, <3>3 DEF GeneralEffect, DataFinal
    <3>. QED BY <3>2, <3>3, <3>4, <3>5 DEF GeneralEffect
  <2>. QED BY <1>0, <1>2, <2>2, <2>3, <2>4, <2>5, <2>6, LaunchableKinds
<1>6. /\ DataEnq' = DataEnq /\ BetaEnq' = BetaEnq
      /\ GammaGradEnq' = GammaGradEnq /\ GammaParamEnq' = GammaParamEnq
  BY <1>0 DEF DataEnq, BetaEnq, GammaGradEnq, GammaParamEnq, PastGB, LastAxis, NormAxis
<1>7. /\ BufOK(stream', dg', DataK, DataEnq', Old, DataFinal)
      /\ BufOK(stream', bg', BetaK, BetaEnq', Old, BetaFinal)
      /\ BufOK(stream', gg', GammaGradK, GammaGradEnq', Old, GammaGradFinal)
      /\ BufOK(stream', gammaP', GammaParamK, GammaParamEnq', Old, ParamFinal)
  <2>1. BufOK(Tail(stream), dg', DataK, DataEnq, Old, DataFinal)
    BY <1>0, <1>3, <1>5, BufTail
  <2>2. BufOK(Tail(stream), bg', BetaK, BetaEnq, Old, BetaFinal)
    BY <1>0, <1>3, <1>5, BufTail
  <2>3. BufOK(Tail(stream), gg', GammaGradK, GammaGradEnq, Old, GammaGradFinal)
    BY <1>0, <1>3, <1>5, BufTail
  <2>4. BufOK(Tail(stream), gammaP', GammaParamK, GammaParamEnq, Old, ParamFinal)
    BY <1>0, <1>3, <1>5, BufTail
  <2>. QED BY <1>0, <1>6, <2>1, <2>2, <2>3, <2>4
<1>8. /\ Len(stream') = Len(stream) - 1
      /\ \A i \in 1 .. Len(stream') : stream'[i] \in Launchable
  BY <1>0, SMT
<1>9. HostInv'
  <2>1. AxisInRange' = AxisInRange /\ LastAxis' = LastAxis
    BY <1>0 DEF AxisInRange, LastAxis, NormAxis
  <2>2. Len(stream') <= Len(stream)
    BY <1>0, <1>8, SMT
  <2>. QED BY <1>0, <2>1, <2>2, SMT DEF ReqInv, HostInv
<1>10. outd' \in Cont
  BY <1>0, <1>5 DEF ReqInv, Assign, Cont, El
<1>11. /\ Launchable' = Launchable
       /\ DataFinal' = DataFinal /\ BetaFinal' = BetaFinal
       /\ GammaGradFinal' = GammaGradFinal /\ ParamFinal' = ParamFinal
  BY <1>0, PathUnchanged
<1>12. /\ fr' \in FwdReqs /\ <<dr, gr, br>>' \in GradReqs /\ nc' \in NonContigs /\ axis' \in Axes
       /\ nchannel' \in Widths
  BY <1>0 DEF ReqInv
<1>13. dr' = dr /\ gr' = gr /\ br' = br
  BY <1>0
<1>. QED BY <1>1, <1>7, <1>8, <1>9, <1>10, <1>11, <1>12, <1>13 DEF ReqInv

\* Every step of the host and the device keeps the invariant.
LEMMA NextReqInv == ReqInv /\ [Next]_vars => ReqInv'
<1> SUFFICES ASSUME ReqInv, [Next]_vars PROVE ReqInv'
  OBVIOUS
<1>1. CASE HostForward
  BY <1>1, ForwardReqInv
<1>2. CASE HostBackwardGammaBeta
  BY <1>2, BackwardGBReqInv
<1>3. CASE HostBackwardData
  BY <1>3, BackwardDataReqInv
<1>4. CASE DeviceRun
  BY <1>4, DeviceRunReqInv
<1>5. CASE Terminated \/ UNCHANGED vars
  <2>1. /\ fr' = fr /\ dr' = dr /\ gr' = gr /\ br' = br /\ nc' = nc /\ axis' = axis
        /\ nchannel' = nchannel /\ hpc' = hpc /\ stream' = stream /\ launched' = launched /\ outd' = outd
        /\ stats' = stats /\ gammaP' = gammaP /\ gg' = gg /\ bg' = bg /\ dg' = dg
        /\ staleRead' = staleRead
    BY <1>5 DEF Terminated, vars
  <2>2. IInv'
    BY <2>1 DEF ReqInv, IInv, ForwardFirst
  <2>3. HostInv'
    BY <2>1 DEF ReqInv, HostInv, AxisInRange, LastAxis, NormAxis
  <2>4. /\ DataEnq' = DataEnq /\ BetaEnq' = BetaEnq
        /\ GammaGradEnq' = GammaGradEnq /\ GammaParamEnq' = GammaParamEnq
    BY <2>1 DEF DataEnq, BetaEnq, GammaGradEnq, GammaParamEnq, PastGB, LastAxis, NormAxis
  <2>5. /\ BufOK(stream, dg, DataK, DataEnq, Old, DataFinal)'
        /\ BufOK(stream, bg, BetaK, BetaEnq, Old, BetaFinal)'
        /\ BufOK(stream, gg, GammaGradK, GammaGradEnq, Old, GammaGradFinal)'
        /\ BufOK(stream, gammaP, GammaParamK, GammaParamEnq, Old, ParamFinal)'
    <3>1. /\ DataFinal' = DataFinal /\ BetaFinal' = BetaFinal
          /\ GammaGradFinal' = GammaGradFinal /\ ParamFinal' = ParamFinal
      BY <2>1, PathUnchanged
    <3>. QED BY <2>1, <2>4, <3>1 DEF ReqInv, BufOK, InQ, AtMostOnce
  <2>6. Launchable' = Launchable
    BY <2>1, PathUnchanged
  <2>. QED BY <2>1, <2>2, <2>3, <2>5, <2>6 DEF ReqInv
<1>. QED BY <1>1, <1>2, <1>3, <1>4, <1>5 DEF Next

\* The buffers hold contents, and the stream at most the forward kernel
\* and the two the backward call enqueues.
LEMMA ReqInvTypeOK == ReqInv => TypeOK
<1> SUFFICES ASSUME ReqInv PROVE TypeOK
  OBVIOUS
<1>1. /\ Old \in Cont /\ DataFinal \in Cont /\ BetaFinal \in Cont
      /\ GammaGradFinal \in Cont /\ ParamFinal \in Cont
  <2>1. nchannel \in Nat
    BY DispatchConstAssumption DEF ReqInv
  <2>. QED BY <2>1, FinalsTyped DEF DataFinal, BetaFinal, GammaGradFinal, ParamFinal
<1>2. /\ gg \in {Old, GammaGradFinal}
      /\ bg \in {Old, BetaFinal}
      /\ dg \in {Old, DataFinal}
      /\ gammaP \in {Old, ParamFinal}
  BY DEF ReqInv, BufOK
<1>3. gg \in Cont /\ bg \in Cont /\ dg \in Cont /\ gammaP \in Cont
  BY <1>1, <1>2
<1>4. Len(stream) <= 3 /\ launched \in 0 .. 2
  <2>1. stream \in Seq(Kernel) /\ launched \in 0 .. 2
        /\ Len(stream) <= (IF hpc = "fwd" THEN 0 ELSE 1) + launched
    BY DEF ReqInv, IInv, HostInv
  <2>. QED BY <2>1, SMT
<1>. QED BY <1>3, <1>4 DEF ReqInv, IInv, HPC, TypeOK

\* The dispatch is well typed: the stream holds at most three kernels,
\* the backward call launches at most two (LayerNormGradCompute<gpu>'s
\* GammaBeta and Data launches, or the fallback's two), and every buffer
\* holds its old contents or one computed result.
THEOREM DispatchTypeCorrect == Spec => []TypeOK
BY InitReqInv, NextReqInv, ReqInvTypeOK, PTL DEF Spec

\* Writing every element once with "=" or "+=" honours kWriteTo or
\* kAddTo, and leaving the buffer alone honours kNullOp.
LEMMA WriteHonoured ==
    ASSUME NEW r \in {"write", "addto"}
    PROVE  Honoured(Write(Old, r = "addto"), r) /\ Honoured(Old, "null")
<1>1. Accumulate(Old) = {[old |-> 1, grad |-> 1]}
  BY DEF Accumulate, Old
<1>2. CASE r = "write"
  BY <1>2 DEF Honoured, Write, Assign
<1>3. CASE r = "addto"
  BY <1>1, <1>3 DEF Honoured, Write
<1>4. Honoured(Old, "null")
  BY DEF Honoured
<1>. QED BY <1>2, <1>3, <1>4

\* Where the fused kernels write every element once: the GammaBeta kernel
\* under addto, or when the row has no whole LOAD_UNROLL chunk; the Data
\* kernel with one warp.  Under kWriteTo a row of whole chunks only keeps
\* its old contents.
LEMMA FusedWrites ==
    ASSUME nchannel \in Nat \ {0}, NEW add \in BOOLEAN
    PROVE  /\ (add \/ nchannel < LoadUnroll) => GammaBetaWrite(Old, add) = Write(Old, add)
           /\ nchannel % LoadUnroll = 0 => GammaBetaWrite(Old, FALSE) = Old
           /\ nchannel <= 32 => DataWrite(Old, add) = Write(Old, add)
<1>1. nchannel < LoadUnroll => ~(nchannel >= LoadUnroll) /\ nchannel % LoadUnroll # 0
  BY SMT DEF LoadUnroll
<1>2. nchannel >= LoadUnroll \/ nchannel % LoadUnroll # 0
  BY SMT DEF LoadUnroll
<1>3. nchannel % LoadUnroll = 0 => nchannel >= LoadUnroll
  BY SMT DEF LoadUnroll
<1>4. add => GammaBetaWrite(Old, add) = Write(Old, add)
  BY <1>2 DEF GammaBetaWrite, Write
<1>5. nchannel < LoadUnroll => GammaBetaWrite(Old, add) = Write(Old, add)
  BY <1>1 DEF GammaBetaWrite
<1>6. nchannel % LoadUnroll = 0 => GammaBetaWrite(Old, FALSE) = Old
  BY <1>3 DEF GammaBetaWrite
<1>7. nchannel <= 32 => DataWrite(Old, add) = Write(Old, add)
  BY DEF DataWrite
<1>. QED BY <1>4, <1>5, <1>6, <1>7

\* Under the supported requests, once a backward call with a valid axis,
\* contiguous buffers, a written forward output and no in-place request has
\* drained its stream, it has not failed and the buffers hold what their
\* requests ask: the host's early returns and CHECKs reject nothing else,
\* each buffer's one writer has run exactly once, and on the fused path its
\* kernel writes every element.
LEMMA SupportedFromReqInv == ReqInv => SupportedRequestsHonoured
<1> SUFFICES ASSUME ReqInv, SupportedReqs, Finished, AxisInRange, nc = "none", fr = "write",
                    "inplace" \notin {dr, gr, br}
             PROVE  hpc = "end" /\ Honoured(dg, dr) /\ Honoured(gg, gr) /\ Honoured(bg, br)
  BY DEF SupportedRequestsHonoured, RequestsHonoured
<1>1. hpc = "end" /\ stream = <<>>
  BY DEF ReqInv, HostInv, SupportedReqs, Finished
<1>2. /\ dr \in Req /\ gr \in Req /\ br \in Req
      /\ nchannel \in Nat \ {0}
  BY DispatchConstAssumption DEF ReqInv, IInv
<1>3. \A S : ~InQ(stream, S)
  BY <1>1 DEF InQ
<1>4. /\ (DataEnq <=> dr # "null") /\ (BetaEnq <=> br # "null")
      /\ (GammaGradEnq <=> gr # "null")
  BY <1>1 DEF SupportedReqs, DataEnq, BetaEnq, GammaGradEnq, PastGB
<1>5. /\ dg = IF dr # "null" THEN DataFinal ELSE Old
      /\ bg = IF br # "null" THEN BetaFinal ELSE Old
      /\ gg = IF gr # "null" THEN GammaGradFinal ELSE Old
  BY <1>3, <1>4 DEF ReqInv, BufOK
<1>6. LastAxis \in BOOLEAN
  BY DEF LastAxis
<1>7. dr # "null" => Honoured(DataFinal, dr)
  <2>1. dr # "null" => dr = "write"
    BY <1>2 DEF SupportedReqs, Req
  <2>2. dr # "null" => DataFinal = Write(Old, dr = "addto")
    BY <1>2, <1>6, FusedWrites DEF SupportedReqs, DataFinal
  <2>. QED BY <2>1, <2>2, WriteHonoured
<1>8. br # "null" => Honoured(BetaFinal, br)
  <2>1. br # "null" => br \in {"write", "addto"}
    BY <1>2 DEF Req
  <2>2. br # "null" => BetaFinal = Write(Old, br = "addto")
    BY <1>2, <1>6, <2>1, FusedWrites DEF SupportedReqs, BetaFinal
  <2>. QED BY <2>1, <2>2, WriteHonoured
<1>9. gr # "null" => Honoured(GammaGradFinal, gr)
  <2>1. gr # "null" => gr \in {"write", "addto"}
    BY <1>2 DEF Req
  <2>. QED BY <2>1, WriteHonoured DEF GammaGradFinal
<1>10. Honoured(Old, "null")
  BY DEF Honoured
<1>. QED BY <1>1, <1>5, <1>7, <1>8, <1>9, <1>10

\* Every request combination the backward call supports is honoured
\* (LayerNormGradCompute<gpu> and LayerNormGradGPUContig with the kernels
\* they enqueue, run in FIFO order on the stream): data_grad written,
\* gamma_grad and beta_grad each written, accumulated or left alone, as
\* requested, whenever the fused kernels' element coverage allows it.
THEOREM SupportedHonoured == Spec => []SupportedRequestsHonoured
BY InitReqInv, NextReqInv, SupportedFromReqInv, PTL DEF Spec

\* The gamma parameter is changed only by the fused GammaBeta launch of
\* LayerNormGradGPUContig with gamma_grad requested (gamma_grad_ptr =
\* gamma.dptr): never on the fallback axis, without gamma_grad, when the
\* call returns early on data_grad's kNullOp, or under kWriteTo on a row of
\* whole LOAD_UNROLL chunks, whose chunk loop stores nothing.
THEOREM GammaWrittenOnlyFused ==
    Spec => []((\/ gr = "null" \/ ~LastAxis \/ dr = "null"
                \/ gr = "write" /\ nchannel % LoadUnroll = 0) => ParamsReadOnly)
<1>1. ReqInv => ((\/ gr = "null" \/ ~LastAxis \/ dr = "null"
                  \/ gr = "write" /\ nchannel % LoadUnroll = 0) => ParamsReadOnly)
  <2> SUFFICES ASSUME ReqInv,
                      \/ gr = "null" \/ ~LastAxis \/ dr = "null"
                      \/ gr = "write" /\ nchannel % LoadUnroll = 0
               PROVE  ParamsReadOnly
    OBVIOUS
  <2>1. gammaP = IF GammaParamEnq /\ ~InQ(stream, GammaParamK) THEN ParamFinal ELSE Old
    BY DEF ReqInv, BufOK
  <2>2. CASE gr = "null" \/ ~LastAxis \/ dr = "null"
    <3>1. ~GammaParamEnq
      BY <2>2 DEF GammaParamEnq
    <3>. QED BY <2>1, <3>1 DEF ParamsReadOnly
  <2>3. CASE gr = "write" /\ nchannel % LoadUnroll = 0
    <3>1. nchannel \in Nat \ {0}
      BY DispatchConstAssumption DEF ReqInv
    <3>2. ParamFinal = Old
      BY <2>3, <3>1, FusedWrites DEF ParamFinal
    <3>. QED BY <2>1, <3>2 DEF ParamsReadOnly
  <2>. QED BY <2>2, <2>3
<1>. QED BY InitReqInv, NextReqInv, <1>1, PTL DEF Spec
=============================================================================
