--------------------------- MODULE MCOptimizerTell ---------------------------
(* Objectives that improve on each other until a 0 in the history widens    *)
(* the margin, and a batch large enough to shrink at once; for MORBO, two   *)
(* objectives that trade off, with a row that is balanced and best in       *)
(* neither, so that a tracker of one row per metric drops it; for several   *)
(* regions, a line of five points, with two objectives at one of them and   *)
(* a tie between two others.                                                *)
EXTENDS OptimizerTell

MCValue == {0} \cup 5000..5003

MCBatches ==
    {<<v>> : v \in (MCValue \ {0}) \cup {NaN}} \cup {<<0, 5000>>, <<0, 0, 0, 0>>}

MCResumable == {<<>>, <<5000>>, <<5001, NaN>>, <<0, 5002, 5000>>}

MCPoints == {<<1, 1>>, <<2, 0>>, <<0, 2>>, <<2, 2>>}

MCMorboBatches == {<<p>> : p \in MCPoints} \cup {<<<<2, 0>>, <<0, 2>>>>}

MCWeights == {<<1, 3>>, <<3, 1>>}

MCRow == {<<0, 1>>, <<2, 2>>, <<2, 4>>, <<6, 3>>, <<8, 2>>}

\* Single rows, pairs that improve twice, and a pair that decreases.
MCRegionBatches ==
    {<<row>> : row \in MCRow} \cup
    {<< <<0, 1>>, <<8, 2>> >>, << <<2, 4>>, <<6, 3>> >>, << <<2, 2>>, <<6, 3>> >>}
=============================================================================
