--------------------------- MODULE DecoderPrograms ---------------------------
(***************************************************************************)
(* What the host encodes for the forward path (ennx/src/forward_metal.rs): *)
(* the buffers of an executor, and the dispatches of each call with their  *)
(* buffers and numbers of threads.  The dispatches of a command buffer run *)
(* one after the other, the threads of one in any of three orders.         *)
(***************************************************************************)
EXTENDS DecoderKernels

CONSTANT Depth \* layers of a model

ASSUME DepthAssumption == Depth \in Nat \ {0}

-----------------------------------------------------------------------------
\* Buffers.

Shared == {"hidden", "final_norm", "logits", "token", "next_token"}

\* new_with_arena and attach_causal_head
SizeOf(name, length) ==
    LET hidden == length * Net.hidden
    IN  CASE name \in {"hidden", "normalized", "update", "query", "key", "value", "raw_gate",
                       "output_gate", "post_kda", "kda_gated"} -> hidden
          [] name = "qkv" -> 3 * hidden
          [] name = "recurrence_state" -> Net.heads * Net.key * Net.value
          [] name = "qkv_conv_history" -> 3 * (3 * Net.heads * Net.value)
          [] name \in {"route_indices", "route_weights"} -> length * Net.top
          [] name = "expert_activation" -> length * Net.top * Net.expert
          [] name \in {"attention_norm", "moe_norm", "time_bias", "final_norm"} -> Net.hidden
          [] name = "control" -> length * (2 * Net.rank + Net.heads)
          [] name \in {"forget_state", "output_state"} -> length * Net.rank
          [] name \in {"raw_beta", "beta"} -> length * Net.heads
          [] name = "gate" -> length * Net.heads * Net.key
          [] name = "decay" -> Net.heads
          [] name = "output_norm" -> Net.value
          [] name = "logits" -> Net.vocab
          [] name \in {"token", "next_token"} -> 1

LayerBuffers ==
    {"normalized", "update", "query", "key", "value", "raw_gate", "output_gate", "post_kda",
     "kda_gated", "qkv", "recurrence_state", "qkv_conv_history", "route_indices",
     "route_weights", "expert_activation", "attention_norm", "moe_norm", "time_bias",
     "control", "forget_state", "output_state", "raw_beta", "beta", "gate", "decay",
     "output_norm"}

\* KdaMoeMetalModel::new gives all layers one hidden buffer.
Cell(layer, name) == <<IF name \in Shared THEN 0 ELSE layer, name>>

Cells == {Cell(layer, name) : layer \in 1..Depth, name \in LayerBuffers \cup Shared}

NewBuffers(length) == [cell \in Cells |-> [i \in UpTo(SizeOf(cell[2], length)) |-> Unwritten]]

\* A copy of values to the start of a buffer.
Uploaded(m, cell, values) ==
    [m EXCEPT ![cell] = [i \in DOMAIN @ |-> IF i < Len(values) THEN values[i + 1] ELSE @[i]]]

-----------------------------------------------------------------------------
\* Encoding: a dispatch of layer e.layer on e.length tokens, its weights read
\* at e.row with e.seed.

NoLinear == [output |-> 0]

D(e, kernel, names, linear, threads) ==
    [kernel |-> kernel, layer |-> e.layer, length |-> e.length, row |-> e.row, seed |-> e.seed,
     buffer |-> [i \in DOMAIN names |-> Cell(e.layer, names[i])],
     linear |-> linear, threads |-> threads]

LinearOf(e, name) == Linears[<<e.layer, name, 0>>]

\* encode_packed_projection
Project(e, input, output, linear, threads) ==
    D(e, "decoder_project_packed_simd", <<input, output>>, linear, threads)

\* encode_dequantized_vector
Dequantize(e, output, elements) ==
    D(e, "packed_dequantize_row", <<output>>, LinearOf(e, output), elements)

\* encode_prepare_candidate
PrepareCandidate(e) ==
    <<Dequantize(e, "attention_norm", Net.hidden), Dequantize(e, "moe_norm", Net.hidden),
      Dequantize(e, "decay", Net.heads), Dequantize(e, "time_bias", Net.hidden),
      Dequantize(e, "output_norm", Net.value)>>

\* The attention of encode_decode_layer
DecodeAttention(e) ==
    LET hidden == e.length * Net.hidden
        width == Net.heads * Net.key
        control == 2 * Net.rank + Net.heads
    IN  <<D(e, "decoder_rms_norm", <<"hidden", "attention_norm", "normalized">>, NoLinear, e.length),
          Project(e, "normalized", "qkv", LinearOf(e, "qkv"), e.length * width * 3),
          D(e, "kda_short_conv_decode", <<"qkv", "qkv_conv_history">>, LinearOf(e, "qkv_conv"), width * 3),
          D(e, "kda_split_qkv_16k", <<"qkv", "query", "key", "value">>, NoLinear, width),
          D(e, "kda_normalize_qk", <<"query", "key">>, NoLinear, Net.heads),
          Project(e, "normalized", "control", LinearOf(e, "control"), e.length * control),
          D(e, "kda_split_control_16k", <<"control", "forget_state", "output_state", "raw_beta">>,
            NoLinear, e.length * control),
          Project(e, "forget_state", "raw_gate", LinearOf(e, "forget_b"), hidden),
          Project(e, "output_state", "output_gate", LinearOf(e, "gate_b"), hidden),
          D(e, "kda_make_gate_beta_16k",
            <<"raw_gate", "raw_beta", "decay", "time_bias", "gate", "beta">>, NoLinear, hidden),
          D(e, "kda_decode_step",
            <<"query", "key", "value", "gate", "beta", "recurrence_state", "post_kda">>,
            NoLinear, Net.heads * Net.value),
          D(e, "kda_postprocess_16k", <<"post_kda", "output_gate", "output_norm", "kda_gated">>,
            NoLinear, hidden),
          Project(e, "kda_gated", "update", LinearOf(e, "output"), hidden),
          D(e, "decoder_residual", <<"hidden", "update", "hidden">>, NoLinear, hidden)>>

\* moe, and the end of encode_decode_layer
Moe(e) ==
    LET hidden == e.length * Net.hidden
    IN  <<D(e, "moe_router_topk_simd", <<"normalized", "route_indices", "route_weights">>,
            LinearOf(e, "router"), e.length),
          D(e, "moe_gate_up_simd", <<"normalized", "route_indices", "expert_activation">>, NoLinear,
            e.length * Net.top * Net.expert),
          D(e, "moe_down_simd", <<"expert_activation", "route_weights", "route_indices", "update">>,
            NoLinear, hidden),
          D(e, "decoder_residual", <<"hidden", "update", "hidden">>, NoLinear, hidden)>>

\* encode_decode_layer
DecodeLayer(e) ==
    DecodeAttention(e)
        \o <<D(e, "decoder_rms_norm", <<"hidden", "moe_norm", "normalized">>, NoLinear, e.length)>>
        \o Moe(e)

\* kda
Prefill(e) ==
    LET hidden == e.length * Net.hidden
        width == Net.heads * Net.key
        control == 2 * Net.rank + Net.heads
        project(input, output, name, threads) ==
            D(e, "kda_project_packed_16k", <<input, output>>, LinearOf(e, name), threads)
    IN  <<project("normalized", "qkv", "qkv", e.length * width * 3),
          project("normalized", "control", "control", e.length * control),
          D(e, "kda_split_qkv_16k", <<"qkv", "query", "key", "value">>, NoLinear, e.length * width),
          D(e, "kda_split_control_16k", <<"control", "forget_state", "output_state", "raw_beta">>,
            NoLinear, e.length * control),
          project("forget_state", "raw_gate", "forget_b", hidden),
          project("output_state", "output_gate", "gate_b", hidden),
          D(e, "kda_make_gate_beta_16k",
            <<"raw_gate", "raw_beta", "decay", "time_bias", "gate", "beta">>, NoLinear, hidden),
          D(e, "kda_recurrence_16k",
            <<"query", "key", "value", "gate", "beta", "recurrence_state", "post_kda">>,
            NoLinear, Net.heads * Net.value),
          D(e, "kda_postprocess_16k", <<"post_kda", "output_gate", "output_norm", "kda_gated">>,
            NoLinear, hidden),
          project("kda_gated", "update", "output", hidden),
          D(e, "decoder_residual", <<"hidden", "update", "hidden">>, NoLinear, hidden)>>

\* decode_token around the layers: the head borrows the first layer's handles.
Embed(e) ==
    <<D(e, "packed_embedding_lookup", <<"token", "hidden">>, Linears[<<0, "embedding", 0>>],
        Net.hidden)>>

CausalHead(e) ==
    <<D(e, "decoder_rms_norm", <<"hidden", "final_norm", "normalized">>, NoLinear, 1),
      Project(e, "normalized", "logits", Linears[<<0, "embedding", 0>>], Net.vocab),
      D(e, "decoder_argmax", <<"logits", "next_token">>, NoLinear, 1)>>

PrepareHead(e) ==
    <<D(e, "packed_dequantize_row", <<"final_norm">>, Linears[<<0, "final_norm", 0>>], Net.hidden)>>

-----------------------------------------------------------------------------
\* Running.

Thread(d, m, t) ==
    CASE d.kernel = "kda_project_packed_16k" -> ProjectPrefill(d, m, t)
      [] d.kernel = "decoder_project_packed_simd" -> ProjectSimd(d, m, t)
      [] d.kernel = "packed_dequantize_row" -> DequantizeRow(d, m, t)
      [] d.kernel = "packed_embedding_lookup" -> EmbeddingLookup(d, m, t)
      [] d.kernel = "decoder_rms_norm" -> RmsNorm(d, m, t)
      [] d.kernel = "decoder_residual" -> Residual(d, m, t)
      [] d.kernel = "kda_short_conv_decode" -> ShortConv(d, m, t)
      [] d.kernel = "kda_split_qkv_16k" -> SplitQkv(d, m, t)
      [] d.kernel = "kda_normalize_qk" -> NormalizeQk(d, m, t)
      [] d.kernel = "kda_split_control_16k" -> SplitControl(d, m, t)
      [] d.kernel = "kda_make_gate_beta_16k" -> MakeGateBeta(d, m, t)
      [] d.kernel \in {"kda_recurrence_16k", "kda_decode_step"} -> Recurrence(d, m, t)
      [] d.kernel = "kda_postprocess_16k" -> Postprocess(d, m, t)
      [] d.kernel = "moe_router_topk_simd" -> RouterTopk(d, m, t)
      [] d.kernel = "moe_gate_up_simd" -> GateUp(d, m, t)
      [] d.kernel = "moe_down_simd" -> Down(d, m, t)
      [] d.kernel = "decoder_argmax" -> Argmax(d, m, t)

Stored(m, writes) == FoldSet(LAMBDA w, acc : [acc EXCEPT ![w[1]][w[2]] = w[3]], m, writes)

\* Threads one by one, from either end, or all reading before any writes.
Orders == {"up", "down", "together"}

Turns(threads, order) ==
    CASE order = "up" -> [n \in 1..threads |-> {n - 1}]
      [] order = "down" -> [n \in 1..threads |-> {threads - n}]
      [] order = "together" -> <<UpTo(threads)>>

Dispatched(m, d, order) ==
    FoldLeft(LAMBDA acc, turn : Stored(acc, UNION {Thread(d, acc, t) : t \in turn}), m,
             Turns(d.threads, order))
=============================================================================
