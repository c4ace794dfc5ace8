---------------------------- MODULE SurrogateAsk ----------------------------
(***************************************************************************)
(* What an ask rests on: the neighbours of the model's posterior, and the  *)
(* arms chosen by what it predicts.  They share no state: a behaviour is   *)
(* one of either.                                                          *)
(***************************************************************************)
EXTENDS EnnModel, AskArms

VARIABLE part \* which of them runs

surrogateVars == <<part, vars, askVars>>

SurrogateInit ==
    /\ part \in {"model", "ask"}
    /\ Init /\ AskArmsInit
    /\ part = "model" => setup = CHOOSE some \in Setups : TRUE
    /\ part = "ask" => rows = <<>> /\ ~scaleX

SurrogateNext ==
    \/ part = "model" /\ Next /\ UNCHANGED <<part, askVars>>
    \/ part = "ask" /\ AskArmsNext /\ UNCHANGED <<part, vars>>

SurrogateSpec == SurrogateInit /\ [][SurrogateNext]_surrogateVars
=============================================================================
