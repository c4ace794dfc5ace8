------------------------------ MODULE Workgroup ------------------------------
(***************************************************************************)
(* What the scoring kernels, and the CPU beside them, are made of: the     *)
(* sum over the threads of a workgroup by halves, the k nearest records    *)
(* and the first of the greatest.                                          *)
(***************************************************************************)
EXTENDS Integers, Sequences, FiniteSets, SequencesExt, FiniteSetsExt

CONSTANT Threads \* threads of a workgroup, a power of two

ASSUME ThreadsAssumption == Threads \in Nat \ {0}

Least(a, b) == IF a < b THEN a ELSE b
DivCeil(a, b) == (a + b - 1) \div b

\* n / 2, n / 4, ..., 1 for a power of two.
Halves(n) == [i \in 1..(CHOOSE k \in 0..n : 2^k = n) |-> n \div 2^i]

\* The upper half of the threads is added to the lower half, and again.
HalvingSum(parts) ==
    LET Halve(sums, stride) == [t \in 0..(Threads - 1) |->
                                    IF t < stride THEN sums[t] + sums[t + stride] ELSE sums[t]]
    IN  FoldLeft(Halve, parts, Halves(Threads))[0]

\* The k nearest so far, of those that tie the earlier record first.
Insert(nearest, k, distance, h) ==
    LET at == SelectInSeq(nearest, LAMBDA n : distance < n[1] \/ (distance = n[1] /\ h < n[2]))
        longer == InsertAt(nearest, IF at = 0 THEN Len(nearest) + 1 ELSE at, <<distance, h>>)
    IN  SubSeq(longer, 1, Least(k, Len(longer)))

\* The first of the greatest.
FirstBest(score, is) ==
    CHOOSE i \in is : \A j \in is : score[j] < score[i] \/ (score[j] = score[i] /\ i <= j)
=============================================================================
