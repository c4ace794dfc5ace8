------------------------------- MODULE TrialLog -------------------------------
(***************************************************************************)
(* What a trial search promises its caller, with no slot in sight: there   *)
(* is a center, a bounded log of evaluated models, and at most one offer,  *)
(* a perturbation of the center that is answered once.                     *)
(***************************************************************************)
EXTENDS Integers, Sequences

CONSTANTS Models, Seeds, Perturbed, Capacity, NoOffer

VARIABLES center,        \* the model that offers perturb
          observations,  \* the models a score is computed from, oldest first
          offer          \* the model under evaluation

logVars == <<center, observations, offer>>

LogInit == /\ center \in Models
           /\ observations = <<center>>
           /\ offer = NoOffer

\* Between trials the log may be replaced, the center stays.
LogKeptOrReplaced == \/ observations' = observations
                     \/ observations' \in Seq(Models) /\ Len(observations') <= Capacity

Offer == /\ offer = NoOffer
         /\ offer' \in {Perturbed[center, s] : s \in Seeds}
         /\ LogKeptOrReplaced
         /\ UNCHANGED center

\* The offer enters the log, the oldest leaves a full one, and an accepted
\* offer becomes the center.
Answer == /\ offer # NoOffer
          /\ observations' = Append(IF Len(observations) = Capacity THEN Tail(observations)
                                    ELSE observations, offer)
          /\ center' \in {center, offer}
          /\ offer' = NoOffer

Replace == offer = NoOffer /\ LogKeptOrReplaced /\ UNCHANGED <<center, offer>>

LogNext == Offer \/ Answer \/ Replace

LogSpec == LogInit /\ [][LogNext]_logVars
=============================================================================
