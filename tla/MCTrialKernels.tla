--------------------------- MODULE MCTrialKernels ---------------------------
\* A packed leaf of three codes in two tiles and a plain one of two codes, of
\* all encodings, at their ends and where a sign or an exponent changes;
\* three records, so that the last batch holds one; two lanes of two groups.
EXTENDS DeviceSelection

MCLeaves == <<[offset |-> 0, length |-> 3, packed |-> TRUE, weight |-> 1],
              [offset |-> 3, length |-> 2, packed |-> FALSE, weight |-> 2]>>

MCNudge == <<[e \in 0..4 |-> IF e = 2 THEN 1 ELSE 0],
             [e \in 0..4 |-> IF e = 4 THEN -1 ELSE 0],
             [e \in 0..4 |-> IF e \in {0, 2} THEN -1 ELSE 1]>>

MCDraws == <<3, 1, 4, 2>>

Row(a, b, c, d, f) == [e \in 0..4 |-> <<a, b, c, d, f>>[e + 1]]

MCHistory == <<[slot |-> 1, value |-> 2], [slot |-> 2, value |-> 1], [slot |-> 3, value |-> 3]>>

Call(kind, seeds, k, thompson, materialize, trial) ==
    [kind |-> kind, seeds |-> seeds, neighbors |-> k, thompson |-> thompson,
     materialize |-> materialize, trial |-> trial, tree |-> <<>>, region_centers |-> <<>>,
     regions |-> 1, per_region |-> Len(seeds), row |-> <<>>]

MCTree == <<[parent |-> 0, seed |-> 1], [parent |-> 1, seed |-> 2]>>

TreeOf(seeds, owned) ==
    [Call("tree", seeds, 1, TRUE, FALSE, 1) EXCEPT
        !.tree = MCTree, !.region_centers = owned, !.regions = Len(owned),
        !.per_region = Len(seeds) \div Len(owned)]

Small == Call("ask", <<3>>, 3, TRUE, FALSE, 1)
Large == Call("ask", <<1, 2, 1>>, 2, FALSE, TRUE, 4)
\* Candidates that tie.
Twin == Call("ask", <<2, 2>>, 2, FALSE, FALSE, 1)
InPlaceOf(seeds) == Call("ask", seeds, 1, TRUE, TRUE, 1)
Write == Call("write", <<2>>, 1, FALSE, TRUE, 4)
Regions == [Call("regions", <<2, 3>>, 2, FALSE, FALSE, 1) EXCEPT !.regions = 2, !.per_region = 1]
Wide == [Call("regions", <<2, 1, 3, 2>>, 1, FALSE, FALSE, 1) EXCEPT !.regions = 2, !.per_region = 2]

Load == [Call("load", <<2>>, 1, FALSE, FALSE, 2) EXCEPT !.row = Row(2, 9, 0, 126, 3)]

\* Refused: more neighbors than records, a seed short, a parent that follows.
Greedy == Call("ask", <<1, 2>>, 4, FALSE, TRUE, 4)
Short == [Wide EXCEPT !.seeds = <<2, 1, 3>>]
Unrooted == [TreeOf(<<2, 3>>, <<2, 1>>) EXCEPT !.tree = Reverse(MCTree)]

StartOf(codes, center, second, third, calls) ==
    [encodings |-> codes, rows |-> <<center, second, third, Row(0, 0, 0, 0, 0)>>, calls |-> calls]

\* Buffers that grow under a tree that is asked again, a row written in the
\* place of the center, a lazy row between asks, regions after trees, a
\* record's row replaced that held a NaN and seeds that make one (a center of
\* 126), and calls refused in between.
MCRuns ==
    {StartOf(<<"e2m1", "e4m3">>, Row(15, 7, 0, 14, 17), Row(1, 9, 8, 16, 15), Row(6, 2, 15, 130, 0),
             <<TreeOf(<<2, 3>>, <<2, 1>>), Large, TreeOf(<<2, 3>>, <<2, 1>>)>>),
     StartOf(<<"int", "int">>, Row(0, 15, 3, 0, 255), Row(0, 14, 1, 2, 254), Row(3, 15, 2, 1, 253),
             <<InPlaceOf(<<1, 3>>), Small, Write, TreeOf(<<1, 3>>, <<2>>), TreeOf(<<1, 3>>, <<1>>)>>),
     StartOf(<<"int", "e5m2">>, Row(1, 2, 3, 0, 9), Row(0, 2, 1, 130, 11), Row(3, 3, 2, 4, 8),
             <<TreeOf(<<3, 1>>, <<1, 2>>), Unrooted, Regions>>),
     StartOf(<<"e2m1", "e4m3">>, Row(1, 7, 8, 126, 1), Row(0, 2, 1, 127, 1), Row(3, 8, 2, 126, 2),
             <<Twin, Load, InPlaceOf(<<1, 2>>), Small, Twin>>),
     StartOf(<<"int", "e4m3">>, Row(1, 2, 3, 0, 17), Row(0, 2, 1, 3, 129), Row(3, 3, 2, 0, 2),
             <<Short, Wide, Greedy, Small>>)}

\* A word of four bits stands for 32: a leaf of narrow codes in words 0 and 1,
\* the second not full, behind them wide codes, an odd one out.
MCLayout == <<[start |-> 0, end |-> 5, width |-> 1, word |-> 0],
              [start |-> 5, end |-> 8, width |-> 2, word |-> 2]>>

\* Moves in one word and in several, draws that cancel, a candidate twice,
\* and words that an earlier round has fetched or not.
MCBatches == {<< <<<<3, {0}>>>>, <<<<4, {0}>>>>, <<<<0, {0}>>, <<5, {0, 1}>>>> >>,
              << <<<<6, {1}>>, <<7, {0}>>>>, <<<<1, {0}>>, <<1, {0}>>>>, <<<<6, {1}>>, <<7, {0}>>>> >>,
              << <<<<7, {1}>>, <<6, {0}>>, <<6, {0, 1}>>>>, <<<<2, {0}>>, <<3, {0}>>, <<5, {0}>>>> >>}

WeightAsk(k, acquisition, backend) ==
    [neighbors |-> k, acquisition |-> acquisition, backend |-> backend]

MCAsks == {WeightAsk(1, "ucb", "cpu"), WeightAsk(2, "thompson", "auto"),
           WeightAsk(3, "pareto", "auto"), WeightAsk(1, "pareto", "agx"),
           WeightAsk(2, "ucb", "opencl")}

MCNormalDraws == <<3, -2, 5>>

-----------------------------------------------------------------------------
\* The forward path: a model of two layers with two heads and three experts,
\* and callers of it.

MCNet == [heads |-> 2, key |-> 2, value |-> 2, hidden |-> 4, rank |-> 1, experts |-> 3,
          top |-> 2, expert |-> 3, vocab |-> 5, residual_scale |-> 3, embedding_scale |-> 2]

\* Layer, name, expert, input, output, bits and group.
MCShapes(l) ==
    << <<l, "qkv", 0, 4, 12, 4, 3>>, <<l, "qkv_conv", 0, 4, 12, 8, 4>>, <<l, "control", 0, 4, 4, 4, 2>>,
       <<l, "forget_b", 0, 1, 4, 4, 1>>, <<l, "gate_b", 0, 1, 4, 8, 2>>, <<l, "output", 0, 4, 4, 4, 4>>,
       <<l, "decay", 0, 2, 1, 8, 1>>, <<l, "time_bias", 0, 4, 1, 8, 3>>, <<l, "output_norm", 0, 2, 1, 4, 2>>,
       <<l, "attention_norm", 0, 4, 1, 8, 2>>, <<l, "moe_norm", 0, 4, 1, 4, 4>>, <<l, "router", 0, 4, 3, 8, 2>>,
       <<l, "gate", 1, 4, 3, 4, 3>>, <<l, "up", 1, 4, 3, 8, 4>>, <<l, "down", 1, 3, 4, 4, 2>>,
       <<l, "gate", 2, 4, 3, 4, 3>>, <<l, "up", 2, 4, 3, 8, 4>>, <<l, "down", 2, 3, 4, 4, 2>>,
       <<l, "gate", 3, 4, 3, 4, 3>>, <<l, "up", 3, 4, 3, 8, 4>>, <<l, "down", 3, 3, 4, 4, 2>> >>

MCAll == << <<0, "embedding", 0, 4, 5, 4, 2>>, <<0, "final_norm", 0, 4, 1, 8, 4>> >>
             \o MCShapes(1) \o MCShapes(2)

MCLinear(shape) ==
    [input |-> shape[4], output |-> shape[5], bits |-> shape[6], group |-> shape[7],
     whole |-> 1, threshold |-> 6, byte |-> 0, scale |-> 0, bias |-> 0, element |-> 0]

MCPlaced(all) == Placed([n \in DOMAIN all |-> MCLinear(all[n])]).done

MCByKey(all, placed) ==
    [key \in {SubSeq(all[n], 1, 3) : n \in DOMAIN all} |->
        placed[CHOOSE n \in DOMAIN all : SubSeq(all[n], 1, 3) = key]]

MCLinears == MCByKey(MCAll, MCPlaced(MCAll))

\* The elements and the groups of all linears.
MCElements == 0..567
MCGroups == 1..253

MCCode(e, p) == (e * e * 7 + 3 * e + 5 * p * (e + 1)) % 16
MCWide(x, e) == x.element <= e /\ e < x.element + x.input * x.output /\ x.bits = 8

MCCodesOf(placed) ==
    [p \in 0..1 |-> [e \in MCElements |->
        MCCode(e, p) + (IF e % 2 = 1 /\ \E n \in DOMAIN placed : MCWide(placed[n], e) THEN 240 ELSE 0)]]
MCCodes == MCCodesOf(MCPlaced(MCAll))

MCRowsOf(placed, codes) == [p \in 0..1 |-> Package(placed, codes[p])]
MCRows == MCRowsOf(MCPlaced(MCAll), MCCodes)

MCNoise == [s \in 1..2 |-> [e \in MCElements |-> (e * 5 + e * e * s + s) % 13]]

MCScale(n) == ((n * n + 2) % 5) + 1
MCBias(n) == (3 * n * n + n) % 7
MCScales == [n \in MCGroups |-> MCScale(n)]
MCBiases == [n \in MCGroups |-> MCBias(n)]

\* By row and group, read from the order in which the groups were written.
MCOfLinear(Value(_), x, groups) ==
    [at \in (0..(x.output - 1)) \X (0..(groups - 1)) |-> Value(x.scale + at[1] * groups + at[2] + 1)]
MCByGroup(Value(_), linears) ==
    [key \in DOMAIN linears |->
        MCOfLinear(Value, linears[key], (linears[key].input + linears[key].group - 1) \div linears[key].group)]
MCSteps == MCByGroup(MCScale, MCLinears)
MCShifts == MCByGroup(MCBias, MCLinears)

MCHiddenInput == <<[i \in 0..3 |-> <<9, 2, 77, 140>>[i + 1]], [i \in 0..3 |-> <<31, 5, 0, 8>>[i + 1]],
                   [i \in 0..3 |-> <<1, 120, 64, 3>>[i + 1]]>>
MCNormInput == [i \in 0..3 |-> <<4, 7, 1, 12>>[i + 1]]
MCStepInput == [name \in {"query", "key", "value", "gate", "beta"} |->
    CASE name = "query" -> <<3, 9, 100, 6>> [] name = "key" -> <<8, 1, 2, 55>>
      [] name = "value" -> <<7, 60, 13, 4>> [] name = "gate" -> <<20, 5, 11, 90>>
      [] name = "beta" -> <<17, 33>>]

Do(op) == [op |-> op]
Seeded(op, s) == [op |-> op, seed |-> s]
DecodeOf(t, s) == [op |-> "decode", token |-> t, seed |-> s]
Norm(name) == [op |-> "norm", name |-> name]
Bind(p) == [op |-> "bind", row |-> p]

Pass(s) == <<Norm("attention_norm"), Seeded("kda", s), Norm("moe_norm"), Seeded("moe", s)>>

MCScripts ==
    {[unit |-> "model", calls |-> c] : c \in
        {<<Seeded("prepare", 1), Do("reset"), DecodeOf(2, 1), Do("hidden"), Seeded("layers", 1)>>,
         <<Seeded("prepare", 2), DecodeOf(4, 2), Bind(1), Do("reset"), DecodeOf(3, 1), Seeded("prepare", 1),
           DecodeOf(3, 2), Do("reset"), DecodeOf(1, 1)>>}}
    \cup
    {[unit |-> "executor", calls |-> c] : c \in
        {<<Do("reset"), Do("hidden")>> \o Pass(1) \o <<Do("step"), Seeded("prepare", 2)>>,
         <<Seeded("prepare", 1), Bind(1), Do("reset"), Do("hidden")>> \o Pass(2) \o Pass(1) \o <<Do("step")>>}}

-----------------------------------------------------------------------------
\* The index: tiles of eight rows for four threads, three dimensions, so that no
\* number of lanes divides them.

KnnCall(kind, queries, searchK) == [kind |-> kind, queries |-> queries, searchK |-> searchK]
NewRows(kind, points) == KnnCall(kind, points, 1)
Search(queries, searchK) == KnnCall("search", queries, searchK)

\* Rows that tie within a tile and across tiles.
Seven == << <<0, 0, 1>>, <<0, 2, 0>>, <<1, 0, 0>>, <<1, 0, 1>>, <<0, 3, 0>>, <<2, 0, 0>>, <<0, 1, 0>> >>
Three == SubSeq(Seven, 1, 3)
Nine == Seven \o << <<1, 1, 1>>, <<0, 0, 1>> >>
Origin == <<0, 0, 0>>
Aside == <<0, 0, 2>>

\* Rows added in place, rows that need a new buffer, rows of another length, more
\* rows and then fewer, wide searches after narrow ones, a tile not full and one
\* with a single row, no rows, more neighbors than rows or than a kernel sorts.
MCKnnScripts ==
    {<<NewRows("rebuild", Three), Search(<<Origin, Aside>>, 2), NewRows("add", << <<0, 1, 0>> >>),
       Search(<<Origin>>, 5)>>,
     <<NewRows("rebuild", Seven), NewRows("add", << <<0, 0, 1>> >>), NewRows("add", << <<0, 0>> >>),
       NewRows("add", <<Origin>>), Search(<<Origin>>, 3), Search(<<Aside, Origin>>, 1),
       Search(<<Origin>>, 3)>>,
     <<NewRows("rebuild", Nine), Search(<<Aside, Origin>>, 4), NewRows("rebuild", Three),
       Search(<<Origin, Aside>>, 1), Search(<<Aside, Origin>>, 2)>>,
     <<Search(<<Origin>>, 2), NewRows("rebuild", Seven), Search(<<Origin>>, 5), Search(<<Origin>>, 2),
       Search(<<Origin>>, 5)>>}
=============================================================================
