---------------------------- MODULE DecoderLayer ----------------------------
(***************************************************************************)
(* The forward path from call to call (ennx/src/forward_metal.rs): a model *)
(* of Depth layers that decodes token by token, or one executor that takes *)
(* PrefillLength tokens at once, and what both have to compute.            *)
(***************************************************************************)
EXTENDS DecoderPrograms, ModelPackage

CONSTANTS
    Codes,         \* the codes of every place to read weights from, by element
    Steps, Shifts, \* scale and bias of a linear, by row and group
    HiddenInput,   \* what a caller uploads, by token
    NormInput,
    StepInput,     \* query, key, value, gate and beta of a token
    Scripts        \* bound: the calls of a caller, of a model or an executor

ASSUME PackageAssumption ==
    /\ Opened(Cardinality(DOMAIN Rows[0])) /\ Gapless
    /\ \A l \in 1..Depth : AttentionAccepted(l) /\ ExpertsAccepted(l)
    /\ HeadAccepted /\ Supported

\* The place of the executor's own weights.
OwnArena == 0

VARIABLES
    unit,   \* "model" or "executor"
    mem,    \* the buffers, by layer and name
    bound,  \* the place the layers read
    script, \* calls to come
    queue,  \* dispatches of the command buffer a call waits for
    truth   \* ghost: what the calls so far have to have computed

layerVars == <<unit, mem, bound, script, queue, truth>>

-----------------------------------------------------------------------------
\* What a layer computes, on tensors.  A source is a place to read codes from
\* and a seed.

\* An element of a linear, with scale and bias of its row and group.
Weighed(src, key, linear, e, at) ==
    CodeRead(src, linear, e, Codes[src.row][e]) * Steps[key][at] + Shifts[key][at]

ParameterOf(src, key, linear, r, c) ==
    Weighed(src, key, linear, linear.element + r * linear.input + c, <<r, c \div linear.group>>)

Parameter(src, key, r, c) == ParameterOf(src, key, Linears[key], r, c)

TimesLinear(src, key, linear, x) ==
    Table([r \in UpTo(linear.output) |->
              Total([c \in UpTo(linear.input) |-> x[c] * ParameterOf(src, key, linear, r, c)])])

Times(src, key, x) == TimesLinear(src, key, Linears[key], x)

Vector(src, key) == Table([c \in UpTo(Linears[key].input) |-> Residue(Parameter(src, key, 0, c))])

Scaled(x, factor, weight) == Table([i \in DOMAIN x |-> Residue(x[i] * factor * weight[i])])
Squares(x) == Total([i \in DOMAIN x |-> x[i] * x[i]])
Normed(x, weight) == Scaled(x, OfMean(Squares(x), Cardinality(DOMAIN x)), weight)

HeadsOf(x, first, width) ==
    Table([h \in UpTo(Net.heads) |-> [i \in UpTo(width) |-> x[first + h * width + i]]])
UnitLength(heads) == Table([h \in DOMAIN heads |->
    [i \in DOMAIN heads[h] |-> Residue(heads[h][i] * OfNorm(Squares(heads[h])))]])

\* The vectors of a layer that are decoded beforehand.
VectorNames == {"attention_norm", "moe_norm", "decay", "time_bias", "output_norm"}
Vectors(src, l) == [name \in VectorNames |-> Vector(src, <<l, name, 0>>)]

\* The state of every head after a token, as [head, key, value].
NextState(state, k, v, decay, beta) ==
    LET faded == Table([h \in UpTo(Net.heads) |-> [i \in UpTo(Net.key) |-> [j \in UpTo(Net.value) |->
                           Residue(state[h][i][j] * decay[h][i])]]])
        missing(h, j) == Residue(beta[h] * (v[h][j] - Total([i \in UpTo(Net.key) |-> k[h][i] * faded[h][i][j]])))
    IN  Table([h \in UpTo(Net.heads) |-> [i \in UpTo(Net.key) |-> [j \in UpTo(Net.value) |->
                  Residue(faded[h][i][j] + k[h][i] * missing(h, j))]]])

Recalled(state, q) == Table([h \in UpTo(Net.heads) |-> [j \in UpTo(Net.value) |->
    Residue(Total([i \in UpTo(Net.key) |-> q[h][i] * state[h][i][j]]) * Rsqrt(Net.key))]])

\* How much of the state of a head stays, by key.
Decays(vectors, forget) ==
    LET bias == HeadsOf(vectors["time_bias"], 0, Net.value)
    IN  Table([h \in UpTo(Net.heads) |-> [i \in UpTo(Net.key) |->
            Exp(Floored(Exp(vectors["decay"][h]) * Softplus(forget[h][i] + bias[h][i])))]])

\* What is read from the state, through the output gate and the output linear.
GatedOutput(src, vectors, l, next, q, open) ==
    LET out == Recalled(next, q)
        gated == Table([h \in UpTo(Net.heads) |-> [j \in UpTo(Net.value) |->
            Residue(Normed(out[h], vectors["output_norm"])[j] * Sigmoid(open[h][j]))]])
    IN  [state |-> next,
         update |-> Times(src, <<l, "output", 0>>,
                          Table([c \in UpTo(Net.heads * Net.value) |-> gated[c \div Net.value][c % Net.value]]))]

\* Attention with its query, key and value by head.
AttendHeads(src, vectors, l, control, q, k, v, state) ==
    LET part(first) == Table([i \in UpTo(Net.rank) |-> control[first + i]])
        forget == HeadsOf(Times(src, <<l, "forget_b", 0>>, part(0)), 0, Net.value)
        beta == Table([h \in UpTo(Net.heads) |-> Sigmoid(control[2 * Net.rank + h])])
    IN  GatedOutput(src, vectors, l, NextState(state, k, v, Decays(vectors, forget), beta), q,
                    HeadsOf(Times(src, <<l, "gate_b", 0>>, part(Net.rank)), 0, Net.value))

\* Attention on one normalized token x with query, key and value in qkv.
Attend(src, vectors, l, x, qkv, unitary, state) ==
    LET width == Net.heads * Net.key
        side(first) == IF unitary THEN UnitLength(HeadsOf(qkv, first, Net.key))
                       ELSE HeadsOf(qkv, first, Net.key)
    IN  AttendHeads(src, vectors, l, Times(src, <<l, "control", 0>>, x),
                    side(0), side(width), HeadsOf(qkv, 2 * width, Net.value), state)

\* A row of the convolution: three tokens back to now.
Convolved(src, l, past, qkv) ==
    Table([f \in DOMAIN qkv |-> Silu(Total([i \in 0..3 |->
        (IF i = 3 THEN qkv ELSE past[i + 1])[f] * Parameter(src, <<l, "qkv_conv", 0>>, f, i)]))])

Added(x, update) == Table([i \in DOMAIN x |-> Residue(x[i] + Net.residual_scale * update[i])])

\* The experts with the greatest scores, of equal ones the first.
TopExperts(score) ==
    SubSeq(SetToSortSeq(DOMAIN score, LAMBDA a, b : score[a] > score[b] \/ (score[a] = score[b] /\ a < b)),
           1, Net.top)

Activated(gate, up) == Table([i \in DOMAIN gate |-> Residue(Silu(gate[i]) * up[i])])

ExpertOutput(src, l, x, e) ==
    Times(src, <<l, "down", e>>,
          Activated(Times(src, <<l, "gate", e>>, x), Times(src, <<l, "up", e>>, x)))

\* The mean of outputs, by rank, weighted by shares.
MeanOutput(share, output) ==
    Table([i \in UpTo(Net.hidden) |->
        Total([r \in DOMAIN share |-> Residue(share[r] * Reciprocal(Total(share))) * output[r][i]])])

MixedOf(src, l, x, score, chosen) ==
    MeanOutput(Table([r \in DOMAIN chosen |-> Exp(score[chosen[r]] - score[chosen[1]])]),
               Table([r \in DOMAIN chosen |-> ExpertOutput(src, l, x, chosen[r] + 1)]))

MixedBy(src, l, x, score) == MixedOf(src, l, x, score, TopExperts(score))

Mixed(src, l, x) == MixedBy(src, l, x, Times(src, <<l, "router", 0>>, x))

-----------------------------------------------------------------------------
\* Calls.

\* MetalSeed: a bound row is read as it is.
Source(seed) == [row |-> bound, seed |-> IF bound = OwnArena THEN seed ELSE 0]

Executor(l, src, length) == [layer |-> l, row |-> src.row, seed |-> src.seed, length |-> length]

AllLayers == [l \in 1..Depth |-> l]

Length == IF unit = "model" THEN 1 ELSE PrefillLength

\* The dispatches of all layers.
EachLayer(Encode(_), src) ==
    FoldLeft(LAMBDA acc, l : acc \o Encode(Executor(l, src, Length)), <<>>, AllLayers)

\* Zeros for the state, and for as much of the history as reset_decode_state
\* counts.
Forgotten(m) ==
    [cell \in DOMAIN m |-> [i \in DOMAIN m[cell] |->
        IF \/ cell[2] = "recurrence_state"
           \/ cell[2] = "qkv_conv_history" /\ i < 3 * Net.heads * Net.key * 3
        THEN 0 ELSE m[cell][i]]]

NoState == [h \in UpTo(Net.heads) |-> [i \in UpTo(Net.key) |-> [j \in UpTo(Net.value) |-> 0]]]
NoRow == [f \in UpTo(3 * Net.heads * Net.key) |-> 0]

Zeros(n) == [i \in UpTo(n) |-> 0]

\* The vectors PyNativeKdaModel hands to every layer.
FirstVectors == [decay |-> Zeros(Net.heads), time_bias |-> Zeros(Net.hidden),
                 output_norm |-> [i \in UpTo(Net.value) |-> 1]]

LayerInit ==
    /\ \E s \in Scripts : unit = s.unit /\ script = s.calls
    /\ bound = OwnArena
    /\ queue = <<>>
    /\ LET new == NewBuffers(Length)
       IN  mem = [cell \in DOMAIN new |->
                     IF cell[2] \in DOMAIN FirstVectors THEN FirstVectors[cell[2]] ELSE new[cell]]
    /\ truth = [vectors |-> [l \in 1..Depth |-> FirstVectors], final_norm |-> <<>>, known |-> FALSE,
                state |-> [l \in 1..Depth |-> NoState], past |-> [l \in 1..Depth |-> <<NoRow, NoRow, NoRow>>],
                hidden |-> <<>>, normalized |-> <<>>, logits |-> <<>>, step |-> <<>>]

\* A forward path that nobody calls.
LayerIdle ==
    /\ unit = "none" /\ bound = OwnArena
    /\ mem = <<>> /\ script = <<>> /\ queue = <<>>
    /\ truth = [known |-> FALSE]

\* A call begins once the one before has waited for its command buffer.
Called(op) ==
    /\ queue = <<>>
    /\ script # <<>> /\ script[1].op = op
    /\ script' = Tail(script)
    /\ UNCHANGED unit

\* bind_resident_row
BindResidentRow ==
    /\ Called("bind")
    /\ bound' = script[1].row
    /\ UNCHANGED <<mem, queue, truth>>

\* prepare_candidate
Prepare ==
    /\ Called("prepare")
    /\ LET src == Source(script[1].seed)
           first == Executor(1, src, Length)
       IN  /\ queue' = EachLayer(PrepareCandidate, src)
                           \o (IF unit = "model" THEN PrepareHead(first) ELSE <<>>)
           /\ truth' = [truth EXCEPT !.vectors = [l \in 1..Depth |-> Vectors(src, l)],
                                     !.final_norm = Vector(src, <<0, "final_norm", 0>>)]
    /\ UNCHANGED <<mem, bound>>

ResetDecodeState ==
    /\ Called("reset")
    /\ mem' = Forgotten(mem)
    /\ truth' = [truth EXCEPT !.known = TRUE,
                              !.hidden = IF truth.known THEN @ ELSE <<>>,
                              !.logits = IF truth.known THEN @ ELSE <<>>,
                              !.state = [l \in 1..Depth |-> NoState],
                              !.past = [l \in 1..Depth |-> <<NoRow, NoRow, NoRow>>]]
    /\ UNCHANGED <<bound, queue>>

\* A layer from the middle on: its experts.
AfterExperts(acc, l, middle) ==
    [acc EXCEPT !.hidden = Added(middle, Mixed(acc.src, l, Normed(middle, truth.vectors[l]["moe_norm"])))]

AfterAttention(acc, l, qkv, attention) ==
    AfterExperts([acc EXCEPT !.state[l] = attention.state,
                             !.past[l] = <<truth.past[l][2], truth.past[l][3], qkv>>],
                 l, Added(acc.hidden, attention.update))

AfterQkv(acc, l, x, qkv) ==
    AfterAttention(acc, l, qkv,
                   Attend(acc.src, truth.vectors[l], l, x, Convolved(acc.src, l, truth.past[l], qkv), TRUE,
                          truth.state[l]))

AfterNorm(acc, l, x) == AfterQkv(acc, l, x, Times(acc.src, <<l, "qkv", 0>>, x))

\* What a token leaves behind, layer by layer.
AfterLayer(acc, l) == AfterNorm(acc, l, Normed(acc.hidden, truth.vectors[l]["attention_norm"]))

AfterLayers(src, hidden) ==
    FoldLeft(AfterLayer, [hidden |-> hidden, src |-> src, state |-> truth.state, past |-> truth.past], AllLayers)

\* decode of a model: the layers alone, on what is in the hidden buffer.
DecodeHidden ==
    /\ Called("layers")
    /\ LET src == Source(script[1].seed)
       IN  /\ queue' = EachLayer(DecodeLayer, src)
           /\ \E after \in {AfterLayers(src, truth.hidden[1])} :
                truth' = [truth EXCEPT !.hidden = <<after.hidden>>, !.state = after.state, !.past = after.past]
    /\ UNCHANGED <<mem, bound>>

\* decode_token: of a model that has been prepared.
DecodeToken ==
    /\ Called("decode")
    /\ LET token == script[1].token
           src == Source(script[1].seed)
           first == Executor(1, src, 1)
           embedded == Table([i \in UpTo(Net.hidden) |->
               Residue(Parameter(src, <<0, "embedding", 0>>, token, i) * Net.embedding_scale)])
       IN  /\ mem' = Uploaded(mem, Cell(1, "token"), <<token>>)
           /\ queue' = Embed(first) \o EachLayer(DecodeLayer, src) \o CausalHead(first)
           /\ \E after \in {AfterLayers(src, embedded)} :
                truth' = [truth EXCEPT !.hidden = <<after.hidden>>, !.state = after.state, !.past = after.past,
                            !.logits = Times(src, <<0, "embedding", 0>>, Normed(after.hidden, truth.final_norm))]
    /\ UNCHANGED bound

UploadHidden ==
    /\ Called("hidden")
    /\ mem' = Uploaded(mem, Cell(1, "hidden"),
                       [n \in 1..(Length * Net.hidden) |->
                           HiddenInput[(n - 1) \div Net.hidden + 1][(n - 1) % Net.hidden]])
    /\ truth' = [truth EXCEPT !.hidden = SubSeq(HiddenInput, 1, Length)]
    /\ UNCHANGED <<bound, queue>>

\* attention_rms_norm and moe_rms_norm, each with its vector.
RmsNormCall ==
    /\ Called("norm")
    /\ LET name == script[1].name
           norm == [i \in 1..Net.hidden |-> NormInput[i - 1]]
           e == Executor(1, Source(0), Length)
       IN  /\ mem' = Uploaded(mem, Cell(1, name), norm)
           /\ queue' = <<D(e, "decoder_rms_norm", <<"hidden", name, "normalized">>, NoLinear, Length)>>
    /\ truth' = [truth EXCEPT !.normalized = [t \in 1..Length |-> Normed(truth.hidden[t], NormInput)]]
    /\ UNCHANGED bound

Gathered(acc, attention, hidden) ==
    [state |-> attention.state, hidden |-> Append(acc.hidden, Added(hidden, attention.update))]

KdaCall ==
    /\ Called("kda")
    /\ LET src == Source(script[1].seed)
           Token(acc, t) ==
               LET x == truth.normalized[t]
               IN  Gathered(acc,
                            Attend(src, truth.vectors[1], 1, x, Times(src, <<1, "qkv", 0>>, x), FALSE, acc.state),
                            truth.hidden[t])
       IN  /\ queue' = Prefill(Executor(1, src, Length))
           /\ \E after \in {FoldLeft(Token, [state |-> truth.state[1], hidden |-> <<>>], [t \in 1..Length |-> t])} :
                truth' = [truth EXCEPT !.state[1] = after.state, !.hidden = after.hidden]
    /\ UNCHANGED <<mem, bound>>

MoeCall ==
    /\ Called("moe")
    /\ LET src == Source(script[1].seed)
       IN  /\ queue' = Moe(Executor(1, src, Length))
           /\ truth' = [truth EXCEPT !.hidden =
                  [t \in 1..Length |-> Added(truth.hidden[t], Mixed(src, 1, truth.normalized[t]))]]
    /\ UNCHANGED <<mem, bound>>

\* upload_kda_decode_inputs and kda_decode_step
DecodeStepCall ==
    /\ Called("step")
    /\ LET Upload(m, name) == Uploaded(m, Cell(1, name), StepInput[name])
           heads(name, width) ==
               HeadsOf([i \in UpTo(Net.heads * width) |-> StepInput[name][i + 1]], 0, width)
           decay == [h \in UpTo(Net.heads) |-> [i \in UpTo(Net.key) |-> Exp(heads("gate", Net.key)[h][i])]]
           next == NextState(truth.state[1], heads("key", Net.key), heads("value", Net.value), decay,
                             [h \in UpTo(Net.heads) |-> StepInput["beta"][h + 1]])
       IN  /\ mem' = FoldLeft(Upload, mem, <<"query", "key", "value", "gate", "beta">>)
           /\ queue' = <<D(Executor(1, Source(0), 1), "kda_decode_step",
                           <<"query", "key", "value", "gate", "beta", "recurrence_state", "post_kda">>,
                           NoLinear, Net.heads * Net.value)>>
           /\ truth' = [truth EXCEPT !.state[1] = next, !.step = Recalled(next, heads("query", Net.key))]
    /\ UNCHANGED bound

\* The device runs the next dispatch.
Dispatch(order) ==
    /\ queue # <<>>
    /\ mem' = Dispatched(mem, queue[1], order)
    /\ queue' = Tail(queue)
    /\ UNCHANGED <<unit, bound, script, truth>>

LayerNext ==
    \/ BindResidentRow \/ Prepare \/ ResetDecodeState \/ DecodeHidden \/ DecodeToken
    \/ UploadHidden \/ RmsNormCall \/ KdaCall \/ MoeCall \/ DecodeStepCall
    \/ \E order \in Orders : Dispatch(order)

-----------------------------------------------------------------------------
\* A buffer that starts with the tokens of x.
Holds(cell, x, width) ==
    \A t \in DOMAIN x, c \in UpTo(width) : mem[cell][(t - 1) * width + c] = x[t][c]

StateHeld(l) ==
    \A h \in UpTo(Net.heads), i \in UpTo(Net.key), j \in UpTo(Net.value) :
        mem[Cell(l, "recurrence_state")][StateIndex(h, i, j)] = truth.state[l][h][i][j]

PastHeld(l) == Holds(Cell(l, "qkv_conv_history"), truth.past[l], 3 * Net.heads * Net.key)

\* From a reset on, what the buffers hold after a call is what the layers are
\* defined to compute: of the weights of the bound row or the seed's, of the
\* vectors prepared last, of all tokens since the reset and no other, in any
\* order of a dispatch's threads.  The next token is one of the likeliest
\* (encode_decode_layer, kda, moe, kda_decode_step, decode_token).
ForwardIsTheLayers ==
    (truth.known /\ queue = <<>>) =>
        /\ Holds(Cell(1, "hidden"), truth.hidden, Net.hidden)
        /\ unit = "model" =>
              /\ \A l \in 1..Depth : StateHeld(l) /\ PastHeld(l)
              /\ truth.logits # <<>> =>
                    /\ Holds(Cell(1, "logits"), <<truth.logits>>, Net.vocab)
                    /\ LET token == mem[Cell(1, "next_token")][0]
                       IN  \A i \in UpTo(Net.vocab) : truth.logits[token] >= truth.logits[i]
        /\ unit = "executor" =>
              /\ StateHeld(1)
              /\ Holds(Cell(1, "normalized"), truth.normalized, Net.hidden)
              /\ truth.step # <<>> =>
                    \A h \in UpTo(Net.heads), j \in UpTo(Net.value) :
                        mem[Cell(1, "post_kda")][ValueIndex(0, h, j)] = truth.step[h][j]
=============================================================================
