------------------------------ MODULE AskArms ------------------------------
(***************************************************************************)
(* An ask from the candidates to the arms (strategy/mod.rs, surrogate.rs,  *)
(* ennx-py/src/adapter.rs): a design, one trust region or several regions  *)
(* whose candidates are ranked in one pass, and the choice among           *)
(* candidates of regions that Python makes.  The caller owns the optimizer *)
(* during an ask; its two steps are the candidates and the arms.           *)
(***************************************************************************)
EXTENDS Configuration, ArmChoice

CONSTANTS Setups,     \* bound: the configurations and states asked in
          Surfaces,   \* bound: Surfaces[m], what a model of m metrics may predict
          SpreadLists,\* bound: the candidates offered to a spread choice
          Bits        \* bits of a seed

VARIABLES setup,      \* configuration, surrogate, trust region and shift
          strategy,   \* the strategy of the optimizer
          sobol,      \* points taken from the Sobol sequence
          stage,      \* where the ask is
          pool,       \* the candidates
          segments,   \* the part of the pool that is of each region
          view,       \* what the surrogate has said about the pool
          picks       \* the arms, as places in the pool

askVars == <<setup, strategy, sobol, stage, pool, segments, view, picks>>

NoView == [mu |-> <<>>, se |-> <<>>, draws |-> <<>>]

Whole == [d \in Axis |-> [lo |-> 0, hi |-> Grid]]

-----------------------------------------------------------------------------
AskArmsInit ==
    /\ setup \in Setups
    /\ strategy = setup.strategy
    /\ sobol = 0
    /\ stage = "idle"
    /\ pool = <<>> /\ segments = <<>> /\ view = NoView /\ picks = <<>>

\* Ok without arms is not possible: an ask ends in arms, an error or a panic.
EndsWithout(next) ==
    /\ stage' = "idle"
    /\ strategy' = next
    /\ pool' = <<>> /\ segments' = <<>>
    /\ UNCHANGED <<setup, view, picks>>

\* ask_init: every row of the design is an arm.
AskDesign(arms) ==
    /\ stage = "idle" /\ strategy \in {"lhd", "random"}
    /\ pool' \in IF strategy = "lhd" THEN LhdRows(arms, {0, Grid - 1})
                 ELSE UniformRows(Whole, arms)
    /\ picks' = [i \in 1..arms |-> i]
    /\ segments' = <<[start |-> 0, size |-> arms, arms |-> arms, region |-> 1]>>
    /\ stage' = "answered"
    /\ UNCHANGED <<setup, strategy, sobol, view>>

Box(region) ==
    IF strategy = "turbo" THEN TurboBox(setup.centers[1], setup.length, setup.scales)
    ELSE RegionBox(setup.centers[region], setup.length, setup.scales)

\* How the arms are divided: allocate, with the regions in order when there
\* are arms for all.
Batches(arms) ==
    LET regions == DOMAIN setup.centers
        Lens == {lens \in [regions -> 1..arms] : SumFunction(lens) = arms}
    IN  CASE strategy = "turbo" -> {<<[region |-> 1, arms |-> arms]>>}
          [] arms < Len(setup.centers) ->
                {[i \in 1..arms |-> [region |-> order[i], arms |-> 1]] : order \in SetToSeqs(regions)}
          [] OTHER -> {[r \in regions |-> [region |-> r, arms |-> lens[r]]] : lens \in Lens}

\* Candidates of one region; empty when the draw of each panics.
RegionRows(region, n, from) ==
    CASE setup.rv = "sobol"   -> {[i \in 1..n |-> SobolRow(Box(region), setup.shift, from + i)]}
      [] setup.rv = "uniform" -> UniformRows(Box(region), n)
      [] setup.rv = "raasp"   -> RaaspRows(setup.centers[region], Box(region), setup.scales,
                                           setup.pert, n)

Segments(batches) ==
    LET Size(b) == NumCandidates(setup.counts, batches[b].arms)
        Start(b) == FoldLeft(LAMBDA sum, c : sum + Size(c), 0, [c \in 1..b - 1 |-> c])
    IN  [b \in DOMAIN batches |-> [start |-> Start(b), size |-> Size(b),
                                   arms |-> batches[b].arms, region |-> batches[b].region]]

PoolSize(segs) == FoldLeft(LAMBDA sum, seg : sum + seg.size, 0, segs)

\* The candidates of ask_turbo and of ask_experimental.
Propose(arms) ==
    /\ stage = "idle" /\ strategy \in {"turbo", "regions"}
    /\ \E batches \in Batches(arms) :
         LET segs == Segments(batches)
             Block(seg) == RegionRows(seg.region, seg.size, sobol + seg.start)
         IN  IF setup.rv = "sobol" /\ sobol + PoolSize(segs) > Len(SobolPoints)
             THEN EndsWithout(strategy) /\ sobol' = Len(SobolPoints)
             ELSE /\ pool' \in FoldLeft(LAMBDA rows, seg :
                                            {head \o block : head \in rows, block \in Block(seg)},
                                        {<<>>}, segs)
                  /\ segments' = segs
                  /\ sobol' = IF setup.rv = "sobol" THEN sobol + PoolSize(segs) ELSE sobol
                  /\ stage' = "proposed"
                  /\ UNCHANGED <<setup, strategy, view, picks>>

\* Uniform::new on an empty interval.  Optimizer::ask has put a TuRBO
\* strategy in the place of its own, which is lost.
ProposePanics(arms) ==
    /\ stage = "idle" /\ strategy \in {"turbo", "regions"}
    /\ setup.rv # "sobol"
    /\ \E batches \in Batches(arms) : \E b \in DOMAIN batches :
          \E d \in IF setup.rv = "raasp" THEN DrawnAxes(setup.scales) ELSE Axis :
              Steps(Box(batches[b].region)[d]) = {}
    /\ EndsWithout("turbo")
    /\ UNCHANGED sobol

-----------------------------------------------------------------------------
ByChance == setup.acquisition = "random" \/ setup.surrogate = "none"

\* Without a model it refuses; a draw needs the fitted parameters too, which
\* a large tell may have left out.
Refuses == \/ setup.surrogate = "empty"
           \/ setup.surrogate = "unfitted" /\ setup.acquisition = "thompson"

MostArms == Max({segments[s].arms : s \in DOMAIN segments})

Seen(surface) == [i \in DOMAIN pool |-> surface[pool[i]]]

\* predict and sample: a model is a function of the point.
Views ==
    LET surfaces == Surfaces[setup.metrics]
    IN  CASE ByChance -> {NoView}
          [] ~ByChance /\ setup.acquisition = "thompson" ->
                {[NoView EXCEPT !.draws = [a \in 1..MostArms |-> Seen(s[a])]] :
                    s \in [1..MostArms -> surfaces]}
          [] OTHER -> {[NoView EXCEPT !.mu = Seen(mu), !.se = Seen(se)] : mu, se \in surfaces}

\* scalarize_with_ranges without a clip: the least weighted metric and a
\* twentieth of the sum; a metric that has not varied counts one half.
Scalar(y) ==
    LET Relative(m) == IF setup.spans[m] <= 0 THEN 2
                       ELSE (4 * (y[m] - setup.lows[m])) \div setup.spans[m]
        weighted == [m \in DOMAIN y |-> Relative(m) * setup.weights[m]]
    IN  20 * Min({weighted[m] : m \in DOMAIN y}) + SumFunction(weighted)

Value(y) == IF setup.morbo THEN Scalar(y) ELSE y[1]

\* mu + beta * se, with beta 2
Upper(i) == Value([m \in DOMAIN view.mu[i] |-> view.mu[i][m] + 2 * view.se[i][m]])

\* What ranks the candidates when the a-th arm is chosen.
ScoreOf(a, i) == IF setup.acquisition = "ucb" THEN Upper(i)
                 ELSE Value(view.draws[IF setup.morbo THEN a ELSE 1][i])

\* The arms of one segment, as places in it: select_arms for one region,
\* select_segmented_arms for several.
LocalArms(seg) ==
    LET cands == 1..seg.size
        Of(f) == [i \in cands |-> f[seg.start + i]]
        Scores(a) == [i \in cands |-> ScoreOf(a, seg.start + i)]
    IN  CASE ByChance -> RandomArms(cands, seg.arms)
          [] ~ByChance /\ setup.acquisition = "ucb" -> UcbArms(Scores(1), cands, seg.arms)
          [] ~ByChance /\ setup.acquisition = "pareto" ->
                ParetoArms(Of(view.mu), Of(view.se), cands, seg.arms)
          [] ~ByChance /\ setup.acquisition = "thompson" ->
                IF strategy = "turbo" /\ ~setup.morbo THEN DrawArms(Scores(1), cands, seg.arms)
                ELSE ArgMaxArms([a \in 1..seg.arms |-> Scores(a)], cands, seg.arms)

\* Mutant: the places in a segment are taken for places in the pool.
NotShifted(local, seg) == local

\* From places in a segment to places in the pool.
Shifted(local, seg) == [i \in DOMAIN local |-> seg.start + local[i]]

\* ENNSurrogate::predict and sample, or a Python object's, which may fail.
Predict ==
    /\ stage = "proposed"
    /\ \/ /\ ByChance \/ ~Refuses
          /\ view' \in Views
          /\ stage' = "scored"
          /\ UNCHANGED <<setup, strategy, sobol, pool, segments, picks>>
       \/ /\ ~ByChance /\ (Refuses \/ setup.surrogate = "python")
          /\ EndsWithout(strategy)
          /\ UNCHANGED sobol

\* The arms of all segments, one after the other.
Choose ==
    /\ stage = "scored"
    /\ picks' \in FoldLeft(LAMBDA chosen, seg :
                               {head \o Shifted(local, seg) :
                                   head \in chosen, local \in LocalArms(seg)},
                           {<<>>}, segments)
    /\ stage' = "answered"
    /\ UNCHANGED <<setup, strategy, sobol, pool, segments, view>>

\* PyMultiTrustRegion.select: the pool is the list the caller brings.  More
\* arms than candidates are refused.
SelectSpread(arms) ==
    /\ stage = "idle" /\ strategy = "direct"
    /\ \E list \in SpreadLists, minBits \in 0..Bits :
         /\ arms <= Len(list)
         /\ pool' = list
         /\ segments' = <<[arms |-> arms, minBits |-> minBits]>>
         /\ picks' = SpreadArms(list, arms, minBits)
    /\ stage' = "spread"
    /\ UNCHANGED <<setup, strategy, sobol, view>>

\* The caller has its arms.
Taken == /\ stage \in {"answered", "spread"}
         /\ stage' = "idle"
         /\ pool' = <<>> /\ segments' = <<>> /\ view' = NoView /\ picks' = <<>>
         /\ UNCHANGED <<setup, strategy, sobol>>

AskArmsNext ==
    \/ \E arms \in setup.arms : \/ AskDesign(arms) \/ Propose(arms) \/ ProposePanics(arms)
                                \/ SelectSpread(arms)
    \/ Predict \/ Choose \/ Taken

-----------------------------------------------------------------------------
Left(seg) == (seg.start + 1..seg.start + seg.size) \ ToSet(picks)

Enough == \A s \in DOMAIN segments : segments[s].arms <= segments[s].size

\* pending_regions: which segment each arm is meant to be from.
Owners == FlattenSeq([s \in DOMAIN segments |-> [i \in 1..segments[s].arms |-> s]])

\* Half a length, times its lengthscale, from the center of the region and in
\* the cube; several regions take lengthscales relative to their mean.
NearCenter(p, region) ==
    LET relative == strategy = "regions" /\ setup.scales # <<>>
        center == setup.centers[region]
        scales == IF setup.scales = <<>> THEN [d \in Axis |-> 1] ELSE setup.scales
        Far(d) == IF p[d] > center[d] THEN p[d] - center[d] ELSE center[d] - p[d]
    IN  \A d \in Axis :
            /\ p[d] \in 0..Grid
            /\ 2 * Far(d) * (IF relative THEN SumFunction(scales) ELSE 1)
                   <= setup.length * scales[d] * (IF relative THEN Dimensions ELSE 1)

\* As many different arms as asked for, each from the segment of the region
\* it will be credited to and close to its center.
ArmsAreTheRegions ==
    /\ Enough => /\ Len(picks) = Len(Owners)
                 /\ IsInjective(picks)
                 /\ \A i \in DOMAIN picks :
                       LET seg == segments[Owners[i]]
                       IN  /\ picks[i] \in seg.start + 1..seg.start + seg.size
                           /\ strategy \in {"turbo", "regions"} =>
                                  NearCenter(pool[picks[i]], seg.region)
    /\ \A i \in DOMAIN picks : picks[i] \in DOMAIN pool

\* How long a chain of better candidates leads to one.
Depth(cands, value) ==
    LET D[i \in cands] ==
            Max({0} \cup {1 + D[j] : j \in {c \in cands : Dominates(value[c], value[i])}})
    IN  D

Traded(i) == IF setup.metrics = 1 THEN view.mu[i] \o view.se[i] ELSE view.mu[i]

\* No candidate that was left out is better than one that was taken.
BestAreTaken ==
    \A s \in DOMAIN segments :
        LET seg == segments[s]
            all == seg.start + 1..seg.start + seg.size
            mine == {i \in DOMAIN picks : picks[i] \in all}
            depth == Depth(all, [i \in all |-> Traded(i)])
        IN  CASE setup.acquisition = "ucb" ->
                    \A i \in mine, j \in Left(seg) : Upper(j) <= Upper(picks[i])
              [] setup.acquisition = "pareto" ->
                    \A i \in mine, j \in Left(seg) : depth[j] >= depth[picks[i]]
              [] setup.acquisition = "thompson" ->
                    \A i \in mine, j \in Left(seg) :
                        LET a == IF setup.morbo THEN Cardinality({c \in mine : c <= i}) ELSE 1
                        IN  Value(view.draws[a][j]) <= Value(view.draws[a][picks[i]])

\* Every bin of every axis of a Latin hypercube has one row.
BinsAreFilled ==
    \A d \in Axis : {pool[i][d] \div Grid : i \in DOMAIN pool} = 0..Len(pool) - 1

\* Candidates as far apart as asked for come first: who was left out is
\* close to a better one that was taken, or worse than all that were.
SpreadIsBest ==
    LET asked == segments[1]
        taken == ToSet(picks)
        Better(i, j) == pool[i].score > pool[j].score \/ (pool[i].score = pool[j].score /\ i < j)
        Close(i, j) == ~FarApart(pool[i].seed, pool[j].seed, asked.minBits)
        apart == \A i, j \in taken : i # j => ~Close(i, j)
    IN  /\ Cardinality(taken) = asked.arms /\ Len(picks) = asked.arms
        /\ \A j \in DOMAIN pool \ taken :
              \/ \E i \in taken : Better(i, j) /\ Close(i, j)
              \/ apart /\ \A i \in taken : Better(i, j)

\* Whatever the acquisition, its ties, the fronts that fit and the models, an
\* ask is answered by the arms it is for: near the center of their region, in
\* the order of pending_regions, none worse than one left out (select_arms,
\* select_segmented_arms, generate_candidates, MultiTrustRegionState::select).
ArmsAnswerTheAsk ==
    /\ stage = "answered" => /\ ArmsAreTheRegions
                             /\ strategy = "lhd" => BinsAreFilled
                             /\ strategy \in {"turbo", "regions"} /\ ~ByChance => BestAreTaken
    /\ stage = "spread" => SpreadIsBest
=============================================================================
