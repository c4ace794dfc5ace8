-------------------------------- MODULE KMeans --------------------------------
(***************************************************************************)
(* The clustering that splits a span of rows into leaves                   *)
(* (bpann/src/index/kmeans.rs).  A row is a number on a line: everything   *)
(* the split decides, it decides by distance.  Random draws are sets of    *)
(* possible outcomes.                                                      *)
(***************************************************************************)
EXTENDS Integers, Sequences, SequencesExt, FiniteSets, FiniteSetsExt

CONSTANTS LeafCapacity,   \* rows of a leaf (32 in the code)
          MaxClusters,    \* clusters of one split (16)
          MaxIters        \* rounds of Lloyd's algorithm (20)

ASSUME KMeansAssumption ==
    /\ LeafCapacity \in Nat \ {0}
    /\ MaxClusters \in Nat \ {0, 1}
    /\ MaxIters \in Nat

L2(a, b) == (a - b) * (a - b)

\* The elements of a finite set in a total order; ahead[e] are those before e.
Ordered(S, ahead) == [n \in 1..Cardinality(S) |-> CHOOSE e \in S : Cardinality(ahead[e]) = n - 1]
Ascending(S) == Ordered(S, [e \in S |-> {d \in S : d < e}])

\* The elements of s at some of its places, in the order of s.
Chosen(s, places) == [n \in 1..Cardinality(places) |-> s[Ascending(places)[n]]]

\* The sums of the first n counts, for every n.
Sums(counts) ==
    LET sum[n \in 0..Len(counts)] == IF n = 0 THEN 0 ELSE sum[n - 1] + counts[n]
    IN  sum

\* The points of a model are multiples of every count, so that means are exact.
Mean(f, rows) ==
    LET n == Cardinality(rows)
    IN  Sums([i \in 1..n |-> f[Ascending(rows)[i]]])[n] \div n

\* The first of the closest centroids.
ClosestChild(p, cs) ==
    CHOOSE i \in DOMAIN cs :
        /\ \A j \in DOMAIN cs : L2(p, cs[i]) <= L2(p, cs[j])
        /\ \A j \in 1..(i - 1) : L2(p, cs[j]) > L2(p, cs[i])

\* Mutant: every centre is drawn from the first point.
KMeansPlusPlusFirstOnly(points, k) == {[m \in 1..k |-> points[1]]}

\* The draws of k-means++: any first point, then a point away from the ones
\* drawn before; rounding may leave the draw at the first point.
KMeansPlusPlusInit(points, k) ==
    LET n == Len(points)
        Away(d, m, i) == \A j \in 1..(m - 1) : points[i] # points[d[j]]
        Fair(d) == \A m \in 2..k : \/ d[m] = 1
                                   \/ Away(d, m, d[m])
                                   \/ \A i \in 1..n : ~Away(d, m, i)
    IN  {[m \in 1..k |-> points[d[m]]] : d \in {f \in [1..k -> 1..n] : Fair(f)}}

AssignClusters(points, cs) == [i \in DOMAIN points |-> ClosestChild(points[i], cs)]

\* A cluster that lost all its points is put at the origin.
RecomputeCentroids(points, as, k) ==
    LET own(c) == {i \in DOMAIN points : as[i] = c}
    IN  [c \in 1..k |-> IF own(c) = {} THEN 0 ELSE Mean(points, own(c))]

\* One round of Lloyd's algorithm on a set of possible assignments.
LloydRound(points, all, k) ==
    {AssignClusters(points, cs) : cs \in {RecomputeCentroids(points, as, k) : as \in all}}

\* The assignments a run may end with.  A fixed point stays what it is, so the
\* early exit of the code does not show.
KMeansRun(points, k0) ==
    LET k == Min({k0, Len(points)})
        first == {AssignClusters(points, cs) : cs \in KMeansPlusPlusInit(points, k)}
        rounds[r \in 0..MaxIters] == IF r = 0 THEN first
                                     ELSE LloydRound(points, rounds[r - 1], k)
    IN  rounds[MaxIters]

ClusterCount(n) == Max({2, Min({MaxClusters, (n + LeafCapacity - 1) \div LeafCapacity})})

\* The non-empty clusters of rows ids, at val[id], in the order of the clusters.
Splits(ids, val) ==
    LET k == ClusterCount(Len(ids))
        Own(as, c) == {j \in DOMAIN ids : as[j] = c}
    IN  {Chosen([c \in 1..k |-> Chosen(ids, Own(as, c))], {c \in 1..k : Own(as, c) # {}}) :
            as \in KMeansRun([i \in DOMAIN ids |-> val[ids[i]]], k)}
=============================================================================
