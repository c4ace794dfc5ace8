----------------------------- MODULE MCEnnModel -----------------------------
\* Two callers, up to four rows on three points and one failure of the engine;
\* asks for up to three arms in two dimensions.
EXTENDS SurrogateAsk

MCPoints == {0, 1, 3}

MCSymmetry == Permutations(Threads)

MCSobol == <<<<0, 0>>, <<2, 2>>, <<3, 1>>, <<1, 3>>, <<1, 2>>, <<3, 0>>, <<2, 1>>>>

MCFixed == [num_candidates_factor |-> 1, min_candidates |-> 3, max_candidates |-> 3]
MCPerArm == [num_candidates_factor |-> 2, min_candidates |-> 1, max_candidates |-> 2,
             num_candidates_per_arm |-> 2]
MCCapped == [num_candidates_factor |-> 100, min_candidates |-> 1, max_candidates |-> 2]
MCSmall == [num_candidates_factor |-> 1, min_candidates |-> 1]

\* What tells have left, with TuRBO in the middle of the cube.
MCTold == [scales |-> <<>>, centers |-> <<<<2, 2>>>>, shift |-> <<0, 0>>, arms |-> {1, 2},
           weights |-> <<2, 1, 1>>, lows |-> <<0, 0, 1>>, spans |-> <<2, 4, 0>>]

\* The setups of one kind with these overrides, told this.
MCAsks(kind, asks, fit, overrides, told) ==
    {told @@ MCTold @@ config : config \in
        {c \in Configured(kind, overrides) : c.strategy = asks /\ c.surrogate = fit}}

MCDesigns ==
    MCAsks("lhd", "lhd", "none", MCFixed, [arms |-> {1, 2, 3}])
    \cup MCAsks("lhd", "lhd", "none", MCFixed, [strategy |-> "random"])
    \cup MCAsks("enn", "lhd", "empty", MCFixed, [strategy |-> "direct", arms |-> {1, 2, 3}])

MCShort == [length_init |-> 2]
MCByUcb == MCShort @@ [acquisition |-> "ucb", candidate_rv |-> "raasp", num_pert |-> 2]
MCByDraw == MCShort @@ [acquisition |-> "thompson"]

MCTurbos ==
    UNION {MCAsks("enn", "turbo", "fitted", MCFixed @@ MCShort, MCTold),
           MCAsks("zero", "turbo", "none", MCPerArm @@ MCShort, MCTold),
           MCAsks("enn", "turbo", "empty",
                  MCFixed @@ MCShort @@ [trust_region |-> "turbo"], MCTold),
           MCAsks("enn", "turbo", "unfitted", MCFixed @@ MCByDraw, MCTold),
           MCAsks("enn", "turbo", "fitted", MCSmall @@ MCByDraw, [arms |-> {3}]),
           MCAsks("gp", "turbo", "python", MCFixed @@ MCByUcb, [scales |-> <<0, 2>>]),
           MCAsks("gp", "turbo", "python", MCFixed @@ MCShort @@ [acquisition |-> "ucb"],
                  [scales |-> <<0, 2>>])}

\* A model may be told more metrics than TuRBO looks at; nothing is built with
\* an acquisition there is not, or MORBO with one metric.
MCWides ==
    LET Over(a) == MCFixed @@ [acquisition |-> a, candidate_rv |-> "sobol", length_init |-> 6]
        four == [min_candidates |-> 4, max_candidates |-> 4]
        told == [shift |-> <<1, 2>>, arms |-> {2, 3}]
    IN  UNION {MCAsks("enn", "turbo", "fitted", four @@ Over(a), told @@ [metrics |-> m])
               \cup MCAsks("enn", "turbo", "fitted",
                           four @@ [trust_region |-> "morbo", num_metrics |-> m] @@ Over(a), told) :
               a \in {"ucb", "thompson", "pareto", "random", "ei"}, m \in 1..3}

\* A frontend may bring its own surrogate to any strategy.
MCRegional ==
    LET Over(a) == MCCapped @@ [acquisition |-> a, candidate_rv |-> "sobol"]
        told == [centers |-> <<<<1, 1>>, <<3, 4>>>>, length |-> 2]
        acquisitions == {"ucb", "thompson", "pareto", "random"}
    IN  UNION {MCAsks("enn_multi_tr", "regions", "fitted", Over(a) @@ over,
                      [arms |-> {1, 2, 3}, metrics |-> 2] @@ told) :
                  a \in acquisitions, over \in {<<>>, [trust_region |-> "morbo"]}}
        \cup MCAsks("enn_multi_tr", "regions", "fitted",
                    [candidate_rv |-> "raasp", num_pert |-> 0] @@ MCCapped,
                    [surrogate |-> "python", scales |-> <<1, 3>>, length |-> 4, arms |-> {2}] @@ told)
        \cup MCAsks("enn_multi_tr", "regions", "fitted", MCCapped,
                    [surrogate |-> "python", scales |-> <<0, 2>>, arms |-> {2}] @@ told)

MCSetups == MCDesigns \cup MCTurbos \cup MCWides \cup MCRegional

MCCube == [1..2 -> 0..4]

\* What one metric may be over the cube.
MCBases == {[p \in MCCube |-> p[1]], [p \in MCCube |-> p[2]], [p \in MCCube |-> 4 - p[1]],
            [p \in MCCube |-> (p[1] + p[2]) % 3]}

MCSurfaces ==
    <<{[p \in MCCube |-> <<f[p]>>] : f \in MCBases},
      {[p \in MCCube |-> <<f[p], g[p]>>] : f, g \in MCBases},
      {[p \in MCCube |-> <<p[1], f[p], g[p]>>] : f, g \in MCBases}>>

MCSpreadLists ==
    UNION {[1..n -> [seed : SUBSET {1, 2}, score : {1, 2}]] : n \in 1..3}
=============================================================================
