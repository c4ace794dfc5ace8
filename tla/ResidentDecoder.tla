--------------------------- MODULE ResidentDecoder ---------------------------
(***************************************************************************)
(* The resident decoder on the search's rows (ennx/src/forward_metal.rs,   *)
(* kda_moe.metal; ResidentBoState in forward_program.rs; bind_pending_model*)
(* in ennx-py/src/py_weights.rs).  A model of Layers layers is evaluated   *)
(* token by token.  It reads its weights from its own arena, perturbing    *)
(* them by a seed as it reads, or from the slot of a trial of TrialSearch. *)
(* Numbers are left out: a buffer holds what its content was computed      *)
(* from, the rows whose weights and the tokens whose embeddings went in.   *)
(***************************************************************************)
EXTENDS TrialSearch

CONSTANTS Layers,      \* number of layers
          Regenerated, \* what the kernels make of a row and a seed
          Arena,       \* the model's own weights, as opposed to a slot
          MaxTokens    \* bound: tokens decoded in a run

ASSUME DecoderAssumption ==
    /\ Layers \in Nat \ {0} /\ MaxTokens \in Nat
    /\ Regenerated \in [Models \X Seeds -> Models]
    /\ Arena \notin Slots

VARIABLES arena,    \* the row in the model's own arena
          packed,   \* where a layer reads its weights: Arena or a slot
          cells,    \* the buffers
          clock,    \* tokens decoded so far
          owner,    \* who drives the search: "search" or "session"
          round,    \* the round ResidentBoState waits for
          ready,    \* ghost: prepared for the pending trial; reset for it
          stream    \* ghost: the tokens decoded for the pending trial

decoder == <<arena, packed, cells, clock>>
ghosts == <<ready, stream>>
allVars == <<vars, decoder, owner, round, ghosts>>

-----------------------------------------------------------------------------
\* Kernels: the buffers each reads, the one it writes, and whether it reads
\* weights (W) or none (K).  Buffers that are always written together have one
\* name: query for query, key and value, gate for gate and beta, route for the
\* indices and weights of the experts, control_parts for forget_state,
\* output_state and raw_beta.  A kernel that advances a memory as well comes as
\* two entries.

K(reads, write) == [reads |-> reads, write |-> write, weights |-> FALSE]
W(reads, write) == [reads |-> reads, write |-> write, weights |-> TRUE]

Shared == {"hidden", "token", "final_norm", "logits", "next_token"}

PrepareKernels ==
  <<W({}, "attention_norm"), W({}, "moe_norm"),
    W({}, "decay"), W({}, "time_bias"), W({}, "output_norm")>>

DecodeKernels ==
  <<K({"hidden", "attention_norm"}, "normalized"),
    W({"normalized"}, "qkv"),
    K({"qkv", "qkv_conv_history"}, "qkv_conv_history"),
    W({"qkv", "qkv_conv_history"}, "qkv"),
    K({"qkv"}, "query"),
    W({"normalized"}, "control"),
    K({"control"}, "control_parts"),
    W({"control_parts"}, "raw_gate"),
    W({"control_parts"}, "output_gate"),
    K({"raw_gate", "control_parts", "decay", "time_bias"}, "gate"),
    K({"query", "gate", "recurrence_state"}, "recurrence_state"),
    K({"query", "recurrence_state"}, "post_kda"),
    K({"post_kda", "output_gate", "output_norm"}, "kda_gated"),
    W({"kda_gated"}, "update"),
    K({"hidden", "update"}, "hidden"),
    K({"hidden", "moe_norm"}, "normalized"),
    W({"normalized"}, "route"),
    W({"normalized", "route"}, "expert_activation"),
    W({"expert_activation", "route"}, "update"),
    K({"hidden", "update"}, "hidden")>>

EmbedKernels == <<W({"token"}, "hidden")>>

NormKernels == <<W({}, "final_norm")>>

HeadKernels ==
  <<K({"hidden", "final_norm"}, "normalized"),
    W({"normalized"}, "logits"),
    K({"logits"}, "next_token")>>

Cell(layer, name) == <<IF name \in Shared THEN 0 ELSE layer, name>>

Cells == {Cell(layer, name) :
              layer \in 1..Layers,
              name \in Shared \cup {kernel.write : kernel \in Range(PrepareKernels)
                                                       \cup Range(DecodeKernels)}}

Nothing == [rows |-> {}, tokens |-> {}]

Memories == {"recurrence_state", "qkv_conv_history"}

\* Buffers of zeros: a memory that is empty, a row that is nobody's.
NewCells == [x \in Cells |-> IF x[2] \in Memories THEN Nothing
                             ELSE [Nothing EXCEPT !.rows = {NoModel}]]

\* One dispatch on a layer that sees the weights w.
Dispatched(c, layer, kernel, w) ==
    LET read == {c[Cell(layer, name)] : name \in kernel.reads}
    IN  [c EXCEPT ![Cell(layer, kernel.write)] =
            [rows |-> (UNION {v.rows : v \in read}) \cup (IF kernel.weights THEN {w} ELSE {}),
             tokens |-> UNION {v.tokens : v \in read}]]

\* The dispatches of some kernels on a layer, one after the other.
Encoded(c, layer, kernels, w) ==
    LET after[n \in 0..Len(kernels)] ==
            IF n = 0 THEN c ELSE Dispatched(after[n - 1], layer, kernels[n], w)
    IN  after[Len(kernels)]

-----------------------------------------------------------------------------
\* The weights a layer reads, from the rows r with the handles p.

\* A resident row is read as it is, the arena with the seed's perturbation.
Weights(r, p, layer, seed) ==
    IF p[layer] = Arena THEN Regenerated[arena, seed] ELSE r[p[layer]]

EachLayer(c, kernels, r, p, seed) ==
    LET after[n \in 0..Layers] ==
            IF n = 0 THEN c ELSE Encoded(after[n - 1], n, kernels, Weights(r, p, n, seed))
    IN  after[Layers]

\* prepare_candidate of the model: the vectors of the layers and of the head,
\* which reads through the handle of the first layer.
Prepared(c, r, p, seed) ==
    Encoded(EachLayer(c, PrepareKernels, r, p, seed), 1, NormKernels, Weights(r, p, 1, seed))

Decoded(c, seed) ==
    LET first(d, kernels) == Encoded(d, 1, kernels, Weights(rows, packed, 1, seed))
    IN  first(EachLayer(first(c, EmbedKernels), DecodeKernels, rows, packed, seed), HeadKernels)

\* Mutant: reset_recurrence_state alone.
ForgottenRecurrence == [x \in Cells |-> IF x[2] = "recurrence_state" THEN Nothing ELSE cells[x]]

\* reset_decode_state
Forgotten == [x \in Cells |-> IF x[2] \in Memories THEN Nothing ELSE cells[x]]

-----------------------------------------------------------------------------
AllAt(p, place) == \A layer \in 1..Layers : p[layer] = place

\* What the model reads with this seed is meant for the pending trial.
OfTrial(p, seed) == /\ pending # NoTrial
                    /\ \/ AllAt(p, pending.slot) /\ pending.materialized
                       \/ AllAt(p, Arena) /\ seed = pending.seed

NotReady == [prepared |-> FALSE, reset |-> FALSE]

\* The model as PyNativeKdaModel builds it, prepared with seed 0.
DecoderInit ==
    /\ Init
    /\ arena = rows[0]
    /\ packed = [layer \in 1..Layers |-> Arena]
    /\ \E seed \in Seeds : cells = Prepared(NewCells, rows, packed, seed)
    /\ clock = 0
    /\ owner \in {"search", "session"}
    /\ round = NoTrial
    /\ ready = NotReady /\ stream = {}

\* A call of the search: a new trial or none is not what was prepared.
SearchGhosts ==
    IF pending # NoTrial /\ pending' # NoTrial THEN UNCHANGED ghosts
    ELSE ready' = NotReady /\ stream' = {}

SearchCall == /\ owner = "search"
              /\ Next
              /\ SearchGhosts
              /\ UNCHANGED <<decoder, owner, round>>

\* ResidentBoState: one round at a time.
SessionAsk == /\ owner = "session" /\ round = NoTrial
              /\ Ask
              /\ round' = pending'.id
              /\ SearchGhosts
              /\ UNCHANGED <<decoder, owner>>

SessionTell == /\ owner = "session" /\ round # NoTrial
               /\ \E accept \in BOOLEAN : Tell(round, accept)
               /\ round' = NoTrial
               /\ SearchGhosts
               /\ UNCHANGED <<decoder, owner>>

\* The search refuses a reward that is not finite; the round is gone.
SessionTellRefused == /\ owner = "session" /\ round # NoTrial
                      /\ round' = NoTrial
                      /\ UNCHANGED <<vars, decoder, owner, ghosts>>

-----------------------------------------------------------------------------
\* bind_resident_row for the pending trial, layer by layer by the session's
\* user, all layers by bind_pending_search.
MayBind == /\ \E trial \in 0..(Len(trials) - 1) : PendingFor(trial)
           /\ pending.materialized
           /\ owner = "session" => round = pending.id

BindLayer == /\ owner = "session"
             /\ MayBind
             /\ \E layer \in 1..Layers : packed' = [packed EXCEPT ![layer] = pending.slot]
             /\ ready' = NotReady /\ stream' = {}
             /\ UNCHANGED <<vars, arena, cells, clock, owner, round>>

BoundCells(r, p) == Prepared(cells, r, p, CHOOSE seed \in Seeds : TRUE)

\* bind_pending_model: materialize, bind every layer, prepare.
BindPendingModel ==
    /\ owner = "search"
    /\ \E trial \in 0..(Len(trials) - 1) : PendingFor(trial)
    /\ rows' = PendingRows
    /\ pending' = [pending EXCEPT !.materialized = TRUE]
    /\ packed' = [layer \in 1..Layers |-> pending.slot]
    /\ cells' = BoundCells(rows', packed')
    /\ ready' = [prepared |-> TRUE, reset |-> FALSE] /\ stream' = {}
    /\ UNCHANGED <<base, history, resident, device, archive, trials,
                   arena, clock, owner, round>>

PrepareCandidate(seed) ==
    /\ cells' = Prepared(cells, rows, packed, seed)
    /\ ready' = [ready EXCEPT !.prepared = OfTrial(packed, seed)]
    /\ UNCHANGED <<vars, arena, packed, clock, owner, round, stream>>

ResetDecodeState ==
    /\ cells' = Forgotten
    /\ ready' = [ready EXCEPT !.reset = TRUE] /\ stream' = {}
    /\ UNCHANGED <<vars, arena, packed, clock, owner, round>>

\* decode_token; generate is a sequence of them.
DecodeToken(seed) ==
    /\ clock < MaxTokens
    /\ LET token == [rows |-> {}, tokens |-> {clock + 1}]
       IN  cells' = Decoded([cells EXCEPT ![Cell(1, "token")] = token], seed)
    /\ clock' = clock + 1
    /\ IF OfTrial(packed, seed) /\ ready.prepared /\ ready.reset
       THEN stream' = stream \cup {clock + 1} /\ UNCHANGED ready
       ELSE stream' = {} /\ ready' = [ready EXCEPT !.reset = FALSE]
    /\ UNCHANGED <<vars, arena, packed, owner, round>>

DecoderNext ==
    \/ SearchCall \/ SessionAsk \/ SessionTell \/ SessionTellRefused
    \/ BindLayer \/ BindPendingModel \/ ResetDecodeState
    \/ \E seed \in Seeds : PrepareCandidate(seed) \/ DecodeToken(seed)

DecoderSpec == DecoderInit /\ [][DecoderNext]_allVars

-----------------------------------------------------------------------------
\* "Candidate weights are materialized once and are not regenerated or
\* perturbed a second time": a model that is bound to the pending trial,
\* prepared and reset answers from the row that the tell will record and from
\* all tokens since the reset, and from nothing a former candidate or
\* stream has left in a buffer.
BoundForwardIsTheTrial ==
    /\ pending # NoTrial /\ stream # {} /\ ready.prepared /\ ready.reset
    /\ AllAt(packed, pending.slot)
    => cells[Cell(1, "next_token")] = [rows |-> {trials[pending.id + 1]}, tokens |-> stream]

\* "materialized_row_matches_seeded_forward": so does a model that
\* regenerates the trial from its seed over an arena that holds the center.
SeededForwardIsTheTrial ==
    /\ pending # NoTrial /\ stream # {} /\ ready.prepared /\ ready.reset
    /\ AllAt(packed, Arena) /\ arena = rows[base]
    => cells[Cell(1, "next_token")] = [rows |-> {trials[pending.id + 1]}, tokens |-> stream]
=============================================================================
