---------------------------- MODULE WelfordChan ----------------------------
(***************************************************************************)
(* The two arithmetic steps of the layer-norm statistics in                *)
(* src/src/operator/nn/layer_norm.cu, in exact rational arithmetic:        *)
(* StepWelfordOnlineSum, which adds one value to a running (mean, sigma2,  *)
(* count) triple, and ChanMergePartition, which merges two such triples.   *)
(* Two lanes fold their partitions of a row value by value, then one       *)
(* triple is merged into the other, as a warp-shuffle round does.  The     *)
(* result is compared with the two-pass definition: mean = sum / n and     *)
(* sigma2 = sum of squared deviations from the mean.                      *)
(*                                                                         *)
(* This is what LayerNormForward relies on when it abstracts a consistent  *)
(* triple to the bag of values it summarises and a merge to a bag sum.     *)
(***************************************************************************)
EXTENDS Integers, Sequences, SequencesExt

CONSTANTS
    Values,   \* the input values to consider
    MaxLen    \* the longest partition

ASSUME WelfordConstAssumption == Values \subseteq Int /\ MaxLen \in Nat

-----------------------------------------------------------------------------
(* Rationals: [n, d] with d > 0 and gcd(n, d) = 1.                         *)

AbsInt(i) == IF i < 0 THEN -i ELSE i
Gcd(p, q) ==
    CHOOSE g \in 1 .. AbsInt(p) + AbsInt(q) :
        /\ p % g = 0 /\ q % g = 0
        /\ \A h \in g + 1 .. AbsInt(p) + AbsInt(q) : ~(p % h = 0 /\ q % h = 0)
Frac(p, q) ==
    IF p = 0 THEN [n |-> 0, d |-> 1]
    ELSE LET s == IF q < 0 THEN -1 ELSE 1
             g == Gcd(p, q)
         IN [n |-> s * (p \div g), d |-> s * (q \div g)]
R(i) == [n |-> i, d |-> 1]
Plus(x, y) == Frac(x.n * y.d + y.n * x.d, x.d * y.d)
Minus(x, y) == Frac(x.n * y.d - y.n * x.d, x.d * y.d)
Times(x, y) == Frac(x.n * y.n, x.d * y.d)
Over(x, y) == Frac(x.n * y.d, x.d * y.n)
Positive(x) == x.n > 0

Zero == [mean |-> R(0), sigma2 |-> R(0), count |-> R(0)]

\* Mutation: "sigma2 += delta * delta", the deviation from the old mean twice.
StepWelfordOnlineSumOldMean(curr, t) ==
    LET count == Plus(t.count, R(1))
        delta == Minus(R(curr), t.mean)
        mean == Plus(t.mean, Over(delta, count))
    IN [mean |-> mean, sigma2 |-> Plus(t.sigma2, Times(delta, delta)), count |-> count]

\* count += 1; delta = curr - mean; mean += delta / count;
\* sigma2 += delta * (curr - mean).
StepWelfordOnlineSum(curr, t) ==
    LET count == Plus(t.count, R(1))
        delta == Minus(R(curr), t.mean)
        mean == Plus(t.mean, Over(delta, count))
    IN [mean |-> mean, sigma2 |-> Plus(t.sigma2, Times(delta, Minus(R(curr), mean))), count |-> count]

\* Mutation: the correction term without its factor rhs_count.
ChanMergePartitionNoCount(lhs, rhs) ==
    LET delta == Minus(rhs.mean, lhs.mean)
        count == Plus(lhs.count, rhs.count)
    IN IF Positive(count)
       THEN LET nA == Over(lhs.count, count)
                nB == Over(rhs.count, count)
            IN [mean |-> Plus(Times(nA, lhs.mean), Times(nB, rhs.mean)),
                sigma2 |-> Plus(Plus(rhs.sigma2, lhs.sigma2), Times(Times(delta, delta), Times(nA, nB))),
                count |-> count]
       ELSE Zero

\* lhs merged into rhs; an empty union gives mean = sigma2 = 0.
ChanMergePartition(lhs, rhs) ==
    LET delta == Minus(rhs.mean, lhs.mean)
        count == Plus(lhs.count, rhs.count)
    IN IF Positive(count)
       THEN LET nA == Over(lhs.count, count)
                nB == Over(rhs.count, count)
            IN [mean |-> Plus(Times(nA, lhs.mean), Times(nB, rhs.mean)),
                sigma2 |-> Plus(Plus(rhs.sigma2, lhs.sigma2),
                                Times(Times(Times(delta, delta), Times(nA, nB)), count)),
                count |-> count]
       ELSE Zero

\* The two-pass reference: sum / n and the sum of squared deviations.
SumR(xs) == FoldLeft(Plus, R(0), [i \in DOMAIN xs |-> R(xs[i])])
RefStats(xs) ==
    IF xs = <<>> THEN Zero
    ELSE LET mean == Over(SumR(xs), R(Len(xs)))
         IN [mean |-> mean,
             sigma2 |-> FoldLeft(Plus, R(0),
                           [i \in DOMAIN xs |-> Times(Minus(R(xs[i]), mean), Minus(R(xs[i]), mean))]),
             count |-> R(Len(xs))]

-----------------------------------------------------------------------------
VARIABLES
    ys, zs,   \* the partitions of the two lanes
    a, b,     \* their running triples
    ia, ib,   \* values folded so far
    merged,   \* whether the merge has been done
    m         \* the merged triple

vars == <<ys, zs, a, b, ia, ib, merged, m>>

Init ==
    /\ ys \in BoundedSeq(Values, MaxLen) /\ zs \in BoundedSeq(Values, MaxLen)
    /\ a = Zero /\ b = Zero /\ ia = 0 /\ ib = 0 /\ merged = FALSE /\ m = Zero

StepA ==
    /\ ia < Len(ys)
    /\ a' = StepWelfordOnlineSum(ys[ia + 1], a) /\ ia' = ia + 1
    /\ UNCHANGED <<ys, zs, b, ib, merged, m>>

StepB ==
    /\ ib < Len(zs)
    /\ b' = StepWelfordOnlineSum(zs[ib + 1], b) /\ ib' = ib + 1
    /\ UNCHANGED <<ys, zs, a, ia, merged, m>>

Merge ==
    /\ ia = Len(ys) /\ ib = Len(zs) /\ ~merged
    /\ m' = ChanMergePartition(a, b) /\ merged' = TRUE
    /\ UNCHANGED <<ys, zs, a, b, ia, ib>>

Terminated == merged /\ UNCHANGED vars

Next == StepA \/ StepB \/ Merge \/ Terminated

Spec == Init /\ [][Next]_vars

-----------------------------------------------------------------------------
\* Welford's online step is exact: after folding a prefix of its partition,
\* a lane's triple is the two-pass mean, sum of squared deviations and
\* count of that prefix (StepWelfordOnlineSum, BlockWelfordOnlineSum).
WelfordExact ==
    a = RefStats(SubSeq(ys, 1, ia)) /\ b = RefStats(SubSeq(zs, 1, ib))

\* Chan's merge is exact: merging the triples of two partitions, either of
\* them possibly empty, gives the triple of their union (ChanMergePartition).
MergeExact == merged => m = RefStats(ys \o zs)

=============================================================================
