------------------------- MODULE MCResidentDecoder -------------------------
\* Rows of one code of four bits, 0 or 1.  A seed moves a code by one or by
\* nothing, as likely as not: of these two, either hash has another one move it.
EXTENDS ResidentDecoder, Perturbation

MCModels == {0, 1}
MCSeeds == {1, 2}

MCPerturbed ==
    [p \in MCModels \X MCSeeds |-> IF p[2] = 1 THEN p[1] ELSE 1 - p[1]]
MCRegenerated ==
    [p \in MCModels \X MCSeeds |-> IF p[2] = 1 THEN 1 - p[1] ELSE p[1]]

\* The tables are what the hashes make of the codes.
ASSUME TablesAreHashed ==
    LET seed(s) == [low |-> Word(s), high |-> Word(0)]
        half == <<0, 0, 0, 128>>
    IN  \A p \in MCModels \X MCSeeds :
            /\ MCPerturbed[p] = Step(p[1], TrialHash(seed(p[2]), 0), 4, 0, half)
            /\ MCRegenerated[p] = Step(p[1], ForwardHash(seed(p[2]), 0), 4, 0, half)
=============================================================================
