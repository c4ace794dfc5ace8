---------------------------- MODULE OptimizerTell ----------------------------
(***************************************************************************)
(* What an optimizer's tell works on is chosen once, when it is built:     *)
(* TuRBO's trust region, as in AskTell, MORBO's, as in MorboTell           *)
(* (TrustRegionState in ennx/src/optimizer/tr_state.rs), or the regions of *)
(* the experimental strategy, as in MultiTrustRegion.                      *)
(***************************************************************************)
EXTENDS AskTell, MorboTell, MultiTrustRegion

VARIABLE kind

optimizerVars == <<vars, morboVars, regionsVars, kind>>

\* The optimizers that were not built are not there: each stays at one of its
\* initial states.
NoTurbo   == ~surrogate /\ ~inInit
NoMorbo   == top = KeepAll /\ ~onPropose /\ ~designing /\ \A w \in Weights : weights[1] <= w[1]
NoRegion  == /\ policy = "shared" /\ ~strategy
             /\ \A r \in Regions, row \in Row : regions[r].center <= X(row)

OptimizerInit ==
    /\ kind \in {"turbo", "morbo", "multi"}
    /\ Init /\ (kind # "turbo" => NoTurbo)
    /\ MorboInit /\ (kind # "morbo" => NoMorbo)
    /\ RegionsInit /\ (kind # "multi" => NoRegion)

OptimizerNext ==
    /\ kind' = kind
    /\ \/ kind = "turbo" /\ Next /\ UNCHANGED <<morboVars, regionsVars>>
       \/ kind = "morbo" /\ MorboNext /\ UNCHANGED <<vars, regionsVars>>
       \/ kind = "multi" /\ RegionsNext /\ UNCHANGED <<vars, morboVars>>

OptimizerSpec == OptimizerInit /\ [][OptimizerNext]_optimizerVars
=============================================================================
