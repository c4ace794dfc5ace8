---------------------------- MODULE MCTrialSearch ----------------------------
\* Two rows; a seed keeps a row or turns it into the other.
EXTENDS TrialSearch

MCModels == {0, 1}
MCSeeds == {0, 1}
MCPerturbed == [p \in MCModels \X MCSeeds |-> (p[1] + p[2]) % 2]
=============================================================================
