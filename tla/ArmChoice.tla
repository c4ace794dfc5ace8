----------------------------- MODULE ArmChoice -----------------------------
(***************************************************************************)
(* How arms are chosen among scored candidates (ennx/src/acquisition.rs,   *)
(* util.rs, strategy/mod.rs and RegionCandidate of multi_tr.rs).           *)
(* Candidates are numbers; an operator whose name ends in Arms is the set  *)
(* of sequences the code may return for the random numbers it may draw.    *)
(***************************************************************************)
EXTENDS Integers, Sequences, FiniteSets, SequencesExt

Smaller(a, b) == IF a < b THEN a ELSE b

\* The first k of a sequence: iter().take(k).
Take(s, k) == SubSeq(s, 1, Smaller(k, Len(s)))

\* A stable sort, the greatest first.
Descending(order, score) ==
    LET First(i, j) == \/ score[order[i]] > score[order[j]]
                       \/ score[order[i]] = score[order[j]] /\ i < j
        ranks == SetToSortSeq(DOMAIN order, First)
    IN  [r \in DOMAIN order |-> order[ranks[r]]]

Ascending(cands) == SetToSortSeq(cands, <)

\* RandomAcquisition::select
RandomArms(cands, k) == {Take(order, k) : order \in SetToSeqs(cands)}

\* UCBAcquisition::select: a shuffle and a stable sort.
UcbArms(score, cands, k) ==
    {Take(Descending(order, score), k) : order \in SetToSeqs(cands)}

\* select_with_thompson with one objective: the first draw ranks all arms.
DrawArms(score, cands, k) == {Take(Descending(Ascending(cands), score), k)}

\* argmax_random_tie with the chosen ones at minus infinity: when all are
\* chosen any of them is drawn again.
ArgMax(score, cands, chosen) ==
    LET open == cands \ chosen
    IN  IF open = {} THEN cands
        ELSE {i \in open : \A j \in open : score[j] <= score[i]}

\* One arm after the other, arm a from the draw scores[a].
ArgMaxArms(scores, cands, k) ==
    FoldLeft(LAMBDA arms, a :
                 UNION {{Append(s, i) : i \in ArgMax(scores[a], cands, ToSet(s))} : s \in arms},
             {<<>>}, [a \in 1..k |-> a])

-----------------------------------------------------------------------------
\* Pareto fronts.  A front is a sequence, fronts a sequence of them.

\* The sweep from the greatest a: what is better on b than all before, and
\* what equals the last one taken.
Swept(order, a, b) ==
    FoldLeft(LAMBDA found, i :
                 IF \/ found.front = <<>> \/ b[i] > found.b
                    \/ b[i] = found.b /\ a[i] = found.a
                 THEN [front |-> Append(found.front, i), a |-> a[i], b |-> b[i]]
                 ELSE found,
             [front |-> <<>>, a |-> 0, b |-> 0], order).front

\* pareto_front_2d_maximize
Front2(cands, a, b) ==
    LET First(i, j) == \/ a[i] > a[j]
                       \/ a[i] = a[j] /\ b[i] > b[j]
                       \/ a[i] = a[j] /\ b[i] = b[j] /\ i < j
    IN  Swept(SetToSortSeq(cands, First), a, b)

\* non_domin_sort_2d, and the peeling of arms_from_pareto_fronts
Fronts2(cands, a, b) ==
    LET Peeled[rest \in SUBSET cands] ==
            IF rest = {} THEN <<>>
            ELSE LET front == Front2(rest, a, b)
                 IN  <<front>> \o Peeled[rest \ ToSet(front)]
    IN  Peeled[cands]

Dominates(p, q) == /\ \A m \in DOMAIN p : p[m] >= q[m]
                   /\ \E m \in DOMAIN p : p[m] > q[m]

\* One layer of non_domin_sort: a point is next when the last point that
\* dominates it has gone.
NextLayer(value, cands, layer) ==
    LET edges == FlattenSeq([n \in DOMAIN layer.front |->
                    Ascending({j \in cands : Dominates(value[layer.front[n]], value[j])})])
    IN  FoldLeft(LAMBDA acc, j : [count |-> [acc.count EXCEPT ![j] = @ - 1],
                                  front |-> IF acc.count[j] = 1 THEN Append(acc.front, j)
                                            ELSE acc.front],
                 [count |-> layer.count, front |-> <<>>], edges)

\* non_domin_sort
FrontsByCount(cands, value) ==
    LET count == [i \in cands |-> Cardinality({j \in cands : Dominates(value[j], value[i])})]
        first == [count |-> count, front |-> Ascending({i \in cands : count[i] = 0})]
        peeled == FoldLeft(LAMBDA acc, n :
                      IF acc.layer.front = <<>> THEN acc
                      ELSE [fronts |-> Append(acc.fronts, acc.layer.front),
                            layer |-> NextLayer(value, cands, acc.layer)],
                      [fronts |-> <<>>, layer |-> first], Ascending(cands))
    IN  peeled.fronts

\* Whole fronts while they fit, any members of the one that does not: a
\* shuffle, or deterministic_choice with a random seed.
FromFronts(fronts, k) ==
    FoldLeft(LAMBDA arms, front :
                 UNION {IF Len(s) + Len(front) <= k THEN {s \o front}
                        ELSE {s \o Take(order, k - Len(s)) : order \in SetToSeqs(ToSet(front))} :
                            s \in arms},
             {<<>>}, fronts)

Metric(value, cands, m) == [i \in cands |-> value[i][m]]

\* ParetoAcquisition::select: one objective is traded against its error, of
\* several the errors do not count.
ParetoArms(mu, se, cands, k) ==
    LET Mu(m) == Metric(mu, cands, m)
        metrics == Len(mu[CHOOSE i \in cands : TRUE])
    IN  CASE metrics = 1 -> {Descending(s, Mu(1)) :
                                s \in FromFronts(Fronts2(cands, Mu(1), Metric(se, cands, 1)), k)}
          [] metrics = 2 -> FromFronts(Fronts2(cands, Mu(1), Mu(2)), k)
          [] OTHER       -> FromFronts(FrontsByCount(cands, mu), k)

-----------------------------------------------------------------------------
\* MultiTrustRegionState::select.  A seed is the set of its bits.

FarApart(a, b, minBits) == Cardinality((a \ b) \cup (b \ a)) >= minBits

SpreadRank(list) == Descending([i \in DOMAIN list |-> i], [i \in DOMAIN list |-> list[i].score])

\* The first pass takes who is far from those taken, the second fills up.
SpreadArms(list, k, minBits) ==
    LET ranked == SpreadRank(list)
        Far(i, taken) == \A j \in ToSet(taken) : FarApart(list[i].seed, list[j].seed, minBits)
        Pass(Fits(_, _), taken) ==
            FoldLeft(LAMBDA acc, i : IF Len(acc) < k /\ Fits(i, acc) THEN Append(acc, i) ELSE acc,
                     taken, ranked)
    IN  Pass(LAMBDA i, taken : i \notin ToSet(taken), Pass(Far, <<>>))
=============================================================================
