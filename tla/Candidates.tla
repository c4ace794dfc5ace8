----------------------------- MODULE Candidates -----------------------------
(***************************************************************************)
(* Candidate points (ennx/src/candidates.rs, config.rs, trust_region.rs    *)
(* and multi_tr.rs).  The unit cube is a grid with Grid steps to an axis;  *)
(* a uniform random number is any of its steps.  A lengthscale is an       *)
(* integer, 0 one so small that a center plus it is the center.            *)
(***************************************************************************)
EXTENDS Integers, Sequences, FiniteSets, SequencesExt, FiniteSetsExt, Functions

CONSTANTS Dimensions,  \* num_dim
          Grid,        \* bound: steps of the unit interval
          SobolPoints  \* bound: the Sobol sequence until it is exhausted

ASSUME CandidatesAssumption ==
    /\ Dimensions \in Nat \ {0} /\ Grid \in Nat \ {0}
    /\ SobolPoints \in Seq([1..Dimensions -> 0..Grid - 1])

Axis == 1..Dimensions

-----------------------------------------------------------------------------
\* Boxes: a lower and an upper bound to an axis.

Clamped(v) == Max({0, Min({v, Grid})})

Around(center, half) ==
    [d \in Axis |-> [lo |-> Clamped(center[d] - half[d]), hi |-> Clamped(center[d] + half[d])]]

\* TurboTrustRegion::compute_bounds_1d
TurboBox(center, length, scales) ==
    Around(center, [d \in Axis |-> IF scales = <<>> THEN length \div 2
                                   ELSE (scales[d] * length) \div 2])

\* MultiTrustRegionState::compute_bounds_1d: relative to the mean.
RegionBox(center, length, scales) ==
    Around(center, [d \in Axis |->
        IF scales = <<>> THEN length \div 2
        ELSE (length * scales[d] * Dimensions) \div (2 * SumFunction(scales))])

\* Where Uniform::new draws; it panics when there is nothing.
Steps(side) == side.lo..side.hi - 1

-----------------------------------------------------------------------------
\* CandidateConfig::num_candidates; a bound or a multiplier of -1 is None.
NumCandidates(counts, arms) ==
    LET raw == counts.factor * Dimensions
        capped == IF counts.max >= 0 /\ (counts.perArm >= 0 \/ counts.factor = 100)
                  THEN Min({raw, counts.max}) ELSE raw
        exactFixed == counts.factor = 1 /\ counts.max = counts.min /\ counts.perArm = -1
        base == IF exactFixed THEN counts.min ELSE Max({capped, counts.min})
    IN  IF counts.perArm >= 0 THEN Max({base, arms * counts.perArm}) ELSE base

\* generate_uniform
UniformRows(box, n) ==
    [1..n -> {p \in [Axis -> 0..Grid - 1] : \A d \in Axis : p[d] \in Steps(box[d])}]

\* The cumulated lengthscales, or axes when there are none to weigh them.
Cumulated(scales) ==
    [d \in Axis |-> IF scales = <<>> \/ SumFunction(scales) = 0 THEN d
                    ELSE SumFunctionOnSet(scales, 1..d)]

\* raasp_dim_from_cdf: a binary search for the draw r/Grid.
DrawnAxis(scales, r) ==
    LET cdf == Cumulated(scales)
        Search[lo \in Axis, hi \in Axis] ==
            LET mid == lo + (hi - lo) \div 2
            IN  IF lo >= hi THEN lo
                ELSE IF r * cdf[Dimensions] <= cdf[mid] * Grid THEN Search[lo, mid]
                ELSE Search[mid + 1, hi]
    IN  Search[1, Dimensions]

DrawnAxes(scales) == {DrawnAxis(scales, r) : r \in 0..Grid - 1}

\* generate_raasp: the center, moved along num_pert axes that may repeat.
RaaspRows(center, box, scales, pert, n) ==
    LET Moved(points, i) == UNION {{[p EXCEPT ![d] = v] : v \in Steps(box[d])} :
                                       p \in points, d \in DrawnAxes(scales)}
    IN  [1..n -> FoldLeft(Moved, {center}, [i \in 1..Max({pert, 1}) |-> i])]

\* SobolEngine::sample and the scaling of generate_candidates
SobolRow(box, shift, i) ==
    [d \in Axis |-> LET unit == (SobolPoints[i][d] + shift[d]) % Grid
                    IN  box[d].lo + (unit * (box[d].hi - box[d].lo)) \div Grid]

\* generate_lhd: the permutations a Fisher-Yates shuffle reaches, from the
\* draws it makes for i = n, ..., 2.
Shuffled(n, draws) ==
    FoldLeft(LAMBDA perm, i : [perm EXCEPT ![i] = perm[draws[i]], ![draws[i]] = perm[i]],
             [i \in 1..n |-> i], Reverse([i \in 1..n - 1 |-> i + 1]))

BinOrders(n) ==
    {Shuffled(n, draws) : draws \in {f \in [2..n -> 1..n] : \A i \in 2..n : f[i] <= i}}

\* A design of n rows in steps of 1 / (n * Grid): bins are Grid steps wide.
LhdRows(n, offsets) ==
    {[i \in 1..n |-> [d \in Axis |-> (orders[d][i] - 1) * Grid + offset[d]]] :
        orders \in [Axis -> BinOrders(n)], offset \in [Axis -> offsets]}
=============================================================================
