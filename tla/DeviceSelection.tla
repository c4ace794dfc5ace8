--------------------------- MODULE DeviceSelection ---------------------------
(***************************************************************************)
(* The programs a device runs: the trial search and the selection among    *)
(* sparse moves, which pick a candidate, the forward path, which evaluates *)
(* one, and the search for neighbors.  They share no state: a behaviour is *)
(* one of them.                                                            *)
(***************************************************************************)
EXTENDS TrialKernels, WeightSelect, DecoderLayer, KnnScan

VARIABLE program \* which of them runs

selectionVars == <<program, vars, weightVars, layerVars, knnVars>>

\* Those that do not run stay in one of their states.
SelectionInit ==
    /\ program \in {"trials", "weights", "forward", "neighbors"}
    /\ WeightInit
    /\ program # "weights" => build = "cpu"
    /\ Init
    /\ program # "trials" => /\ device = "metal"
                             /\ [encodings |-> encodings, rows |-> rows, calls |-> todo]
                                = CHOOSE run \in Runs : TRUE
    /\ KnnInit
    /\ program # "neighbors" => /\ engine = "faiss"
                                /\ knnCalls = CHOOSE calls \in KnnScripts : TRUE
    /\ IF program = "forward" THEN LayerInit ELSE LayerIdle

SelectionNext ==
    \/ program = "trials" /\ Next /\ UNCHANGED <<program, weightVars, layerVars, knnVars>>
    \/ program = "weights" /\ WeightNext /\ UNCHANGED <<program, vars, layerVars, knnVars>>
    \/ program = "forward" /\ LayerNext /\ UNCHANGED <<program, vars, weightVars, knnVars>>
    \/ program = "neighbors" /\ KnnNext /\ UNCHANGED <<program, vars, weightVars, layerVars>>

SelectionSpec == SelectionInit /\ [][SelectionNext]_selectionVars
=============================================================================
