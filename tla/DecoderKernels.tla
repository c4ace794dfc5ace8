--------------------------- MODULE DecoderKernels ---------------------------
(***************************************************************************)
(* The kernels of the forward path (ennx/src/kda_moe.metal) that the host  *)
(* dispatches, thread by thread, on flat buffers.  A dispatch names its    *)
(* buffers by slot, as set_buffer does.  A thread reads the memory m and   *)
(* yields its writes, <<buffer, index, value>>.  Numbers are integers      *)
(* modulo a prime: sums and products are what they are, every other real   *)
(* function is some function of them.  A batch is one sequence, which the  *)
(* decoder requires and the prefill takes for granted.                     *)
(***************************************************************************)
EXTENDS Workgroup

CONSTANTS
    Modulus,       \* a prime
    LaneCount,     \* 32 lanes of a SIMD group
    PrefillLength, \* 16384 tokens
    LocalState,    \* 128 cells of a thread's copy of a column
    Net,           \* heads, key, value, hidden, rank, experts, top, expert, vocab
    Linears,       \* descriptors of the packed linears, by layer, name and expert
    Rows,          \* what a place to read weights from holds, as codes
    Noise,         \* the hash of a seed and an element
    Scales, Biases

ASSUME KernelAssumption ==
    /\ Modulus \in Nat \ {0} /\ LaneCount \in Nat \ {0} /\ PrefillLength \in Nat \ {0}
    /\ Net.top \in 1..Net.experts

Residue(x) == x % Modulus

\* Some function of x for every real function of the kernels.
Real(which, x) == Residue(Residue(x + which) ^ 3 + which)

Exp(x) == Real(1, x)
Rsqrt(x) == Real(2, x)
Silu(x) == Real(3, x)
Sigmoid(x) == Real(4, x)
Softplus(x) == Real(5, x)
Floored(x) == Real(6, x)
Reciprocal(x) == Real(7, x)
\* rsqrt of the mean, 1 / max(sqrt, eps)
OfMean(sum, n) == Rsqrt(sum + 11 * n)
OfNorm(sum) == Reciprocal(Rsqrt(sum))

\* f, all of its values at once.
Table(f) == f @@ <<>>

Total(f) == Residue(FoldFunction(+, 0, f))
UpTo(n) == 0..(n - 1)

\* What a thread finds outside a buffer, and a new buffer holds.
Unwritten == Modulus - 1
At(m, b, i) == IF i \in DOMAIN m[b] THEN m[b][i] ELSE Unwritten

-----------------------------------------------------------------------------
\* Packed weights.

PerByte(linear) == IF linear.bits = 4 THEN 2 ELSE 1

\* Mutant: an odd code is left to the next row.
StrideRoundedDown(linear) == linear.input \div PerByte(linear)

Stride(linear) == DivCeil(linear.input, PerByte(linear))
GroupsOf(linear) == DivCeil(linear.input, linear.group)

\* packed_code_device
PackedCode(bytes, linear, row, column) ==
    LET byte == bytes[linear.byte + row * Stride(linear) + column \div PerByte(linear)]
        shift == IF linear.bits = 4 THEN (column % 2) * 4 ELSE 0
    IN  (byte \div 2^shift) % 2^linear.bits

\* perturb_code: a step down or up, the other way where there is no room.
Perturbed(code, random, linear) ==
    LET amount == linear.whole + (IF random \div 2 < linear.threshold \div 2 THEN 1 ELSE 0)
        most == 2^linear.bits - 1
    IN  CASE amount = 0 -> code
          [] amount > 0 /\ random % 2 = 0 ->
                IF code >= amount THEN code - amount ELSE Least(code + amount, most)
          [] OTHER ->
                IF code + amount <= most THEN code + amount
                ELSE IF code >= amount THEN code - amount ELSE 0

\* packed_weight_device: where a dispatch reads and with which seed, if any.
CodeRead(d, linear, element, code) ==
    IF d.seed = 0 THEN code ELSE Perturbed(code, Noise[d.seed][element], linear)

WeightAt(d, linear, row, column) ==
    LET groups == GroupsOf(linear)
        group == row * groups + Least(column \div linear.group, groups - 1)
    IN  CodeRead(d, linear, linear.element + row * linear.input + column,
                 PackedCode(Rows[d.row], linear, row, column))
            * Scales[linear.scale + group + 1] + Biases[linear.bias + group + 1]

\* A SIMD group: each lane every LaneCount-th column, then simd_sum.
LaneSum(columns, f) ==
    Total([lane \in UpTo(LaneCount) |->
              Total([c \in {c \in UpTo(columns) : c % LaneCount = lane} |-> f[c]])])

Dot(d, m, linear, start, row) ==
    [c \in UpTo(linear.input) |-> At(m, d.buffer[1], start + c) * WeightAt(d, linear, row, c)]

\* kda_project_packed_16k
ProjectPrefill(d, m, t) ==
    LET row == t \div PrefillLength
        token == t % PrefillLength
    IN  IF row >= d.linear.output THEN {}
        ELSE {<<d.buffer[2], token * d.linear.output + row,
                Total(Dot(d, m, d.linear, token * d.linear.input, row))>>}

\* decoder_project_packed_simd, a group as a thread.
ProjectSimd(d, m, t) ==
    LET row == t % d.linear.output
        token == t \div d.linear.output
    IN  IF t >= d.length * d.linear.output THEN {}
        ELSE {<<d.buffer[2], token * d.linear.output + row,
                LaneSum(d.linear.input, Dot(d, m, d.linear, token * d.linear.input, row))>>}

\* packed_dequantize_row_half and packed_dequantize_row_float
DequantizeRow(d, m, t) ==
    IF t >= d.linear.input \/ d.linear.output # 1 THEN {}
    ELSE {<<d.buffer[1], t, Residue(WeightAt(d, d.linear, 0, t))>>}

\* packed_embedding_lookup
EmbeddingLookup(d, m, t) ==
    LET token == At(m, d.buffer[1], 0)
    IN  IF t >= Net.hidden \/ token >= Net.vocab THEN {}
        ELSE {<<d.buffer[2], t, Residue(WeightAt(d, d.linear, token, t) * Net.embedding_scale)>>}

-----------------------------------------------------------------------------
\* Norms and residual.

\* decoder_rms_norm: input, weight, output.
RmsNorm(d, m, t) ==
    LET start == t * Net.hidden
        square == [i \in UpTo(Net.hidden) |-> At(m, d.buffer[1], start + i) ^ 2]
        factor == OfMean(Total(square), Net.hidden)
    IN  IF t >= d.length THEN {}
        ELSE {<<d.buffer[3], start + i,
                Residue(At(m, d.buffer[1], start + i) * factor * At(m, d.buffer[2], i))>> :
                  i \in UpTo(Net.hidden)}

\* decoder_residual: hidden, update, output.
Residual(d, m, t) ==
    IF t >= d.length * Net.hidden THEN {}
    ELSE {<<d.buffer[3], t,
            Residue(At(m, d.buffer[1], t) + Net.residual_scale * At(m, d.buffer[2], t))>>}

-----------------------------------------------------------------------------
\* Attention.

QkvIndex(t, h, i) == (t * Net.heads + h) * Net.key + i
ValueIndex(t, h, j) == (t * Net.heads + h) * Net.value + j
StateIndex(h, i, j) == (h * Net.key + i) * Net.value + j

\* kda_short_conv_decode: qkv and its history, both in place.
ShortConv(d, m, t) ==
    LET width == d.linear.output
        past(i) == At(m, d.buffer[2], i * width + t)
        current == At(m, d.buffer[1], t)
        value == Total([i \in 0..3 |-> (IF i = 3 THEN current ELSE past(i)) * WeightAt(d, d.linear, t, i)])
    IN  IF t >= width THEN {}
        ELSE {<<d.buffer[2], t, past(1)>>, <<d.buffer[2], width + t, past(2)>>,
              <<d.buffer[2], 2 * width + t, current>>, <<d.buffer[1], t, Silu(value)>>}

\* kda_split_qkv_16k
SplitQkv(d, m, t) ==
    LET width == Net.heads * Net.key
        base == (t \div width) * width * 3 + (t % width)
    IN  IF t >= d.length * width THEN {}
        ELSE {<<d.buffer[2], t, At(m, d.buffer[1], base)>>,
              <<d.buffer[3], t, At(m, d.buffer[1], base + width)>>,
              <<d.buffer[4], t, At(m, d.buffer[1], base + 2 * width)>>}

\* kda_normalize_qk: query and key in place.
NormalizeQk(d, m, t) ==
    LET at == {t * Net.key + i : i \in UpTo(Net.key)}
        factor(b) == OfNorm(Total([i \in at |-> At(m, b, i) ^ 2]))
    IN  IF t >= d.length * Net.heads THEN {}
        ELSE {<<b, i, Residue(At(m, b, i) * factor(b))>> : b \in {d.buffer[1], d.buffer[2]}, i \in at}

\* kda_split_control_16k: control into forget_state, output_state, raw_beta.
SplitControl(d, m, t) ==
    LET width == 2 * Net.rank + Net.heads
        token == t \div width
        column == t % width
        value == At(m, d.buffer[1], t)
    IN  IF t >= d.length * width THEN {}
        ELSE {IF column < Net.rank THEN <<d.buffer[2], token * Net.rank + column, value>>
              ELSE IF column < 2 * Net.rank
              THEN <<d.buffer[3], token * Net.rank + column - Net.rank, value>>
              ELSE <<d.buffer[4], token * Net.heads + column - 2 * Net.rank, value>>}

\* kda_make_gate_beta_16k: raw_gate, raw_beta, decay, time_bias, gate, beta.
\* The head width is the value width.
MakeGateBeta(d, m, t) ==
    LET width == Net.heads * Net.value
        token == t \div width
        element == t % width
        head == element \div Net.value
        raw == At(m, d.buffer[1], t) + At(m, d.buffer[4], element)
        beta == token * Net.heads + head
    IN  IF t >= d.length * width THEN {}
        ELSE {<<d.buffer[5], t, Floored(Exp(At(m, d.buffer[3], head)) * Softplus(raw))>>}
             \cup (IF element % Net.value # 0 THEN {}
                   ELSE {<<d.buffer[6], beta, Sigmoid(At(m, d.buffer[2], beta))>>})

\* kda_recurrence_16k, and kda_decode_step for one token: query, key, value,
\* gate, beta, state, output.  A thread has a column of the state of a head.
Recurrence(d, m, t) ==
    LET column == t % Net.value
        h == t \div Net.value
        kw == UpTo(Least(Net.key, LocalState))
        token(acc, n) ==
            LET faded == Table([i \in kw |-> acc.state[i] * Exp(At(m, d.buffer[4], QkvIndex(n, h, i)))])
                read == Total([i \in kw |-> At(m, d.buffer[2], QkvIndex(n, h, i)) * Residue(faded[i])])
                update == Residue(At(m, d.buffer[5], n * Net.heads + h)
                                  * (At(m, d.buffer[3], ValueIndex(n, h, column)) - read))
                state == Table([i \in kw |->
                             Residue(faded[i] + At(m, d.buffer[2], QkvIndex(n, h, i)) * update)])
                result == Total([i \in kw |-> At(m, d.buffer[1], QkvIndex(n, h, i)) * state[i]])
            IN  [state |-> state,
                 out |-> acc.out \cup {<<d.buffer[7], ValueIndex(n, h, column),
                                         Residue(result * Rsqrt(Cardinality(kw)))>>}]
        last == FoldLeft(token, [state |-> [i \in kw |-> At(m, d.buffer[6], StateIndex(h, i, column))],
                                 out |-> {}],
                         [n \in 1..d.length |-> n - 1])
    IN  IF t >= Net.heads * Net.value THEN {}
        ELSE last.out \cup {<<d.buffer[6], StateIndex(h, i, column), last.state[i]>> : i \in kw}

\* kda_postprocess_16k: recurrence output, output_gate, output_norm, output.
Postprocess(d, m, t) ==
    LET width == Net.heads * Net.value
        head == (t % width) \div Net.value
        start == (t \div width) * width + head * Net.value
        square == [i \in UpTo(Net.value) |-> At(m, d.buffer[1], start + i) ^ 2]
        value == At(m, d.buffer[1], t) * OfMean(Total(square), Net.value)
    IN  IF t >= d.length * width THEN {}
        ELSE {<<d.buffer[4], t,
                Residue(Residue(value) * At(m, d.buffer[3], (t % width) % Net.value)
                        * Sigmoid(At(m, d.buffer[2], t)))>>}

-----------------------------------------------------------------------------
\* Experts.

\* The ranks of moe_router_topk_simd: a score moves in before the first that
\* is less.
Ranked(score) ==
    LET Move(ranks, e) ==
            LET at == SelectInSeq(ranks, LAMBDA r : score[e] > score[r])
                longer == InsertAt(ranks, IF at = 0 THEN Len(ranks) + 1 ELSE at, e)
            IN  SubSeq(longer, 1, Least(Net.top, Len(longer)))
    IN  FoldLeft(Move, <<>>, [e \in 1..Net.experts |-> e - 1])

\* moe_router_topk_simd, a threadgroup as a thread: input, indices, weights.
Routes(d, t, score, ranks) ==
    LET share == Table([r \in DOMAIN ranks |-> Exp(score[ranks[r]] - score[ranks[1]])])
    IN  UNION {{<<d.buffer[2], t * Net.top + r - 1, ranks[r]>>,
                <<d.buffer[3], t * Net.top + r - 1, Residue(share[r] * Reciprocal(Total(share)))>>} :
                  r \in DOMAIN ranks}

RouterTopk(d, m, t) ==
    LET score == Table([e \in UpTo(Net.experts) |->
                           LaneSum(d.linear.input, Dot(d, m, d.linear, t * d.linear.input, e))])
    IN  IF t >= d.length THEN {} ELSE Routes(d, t, score, Ranked(score))

\* moe_gate_up_simd: input, indices, activation.
GateUp(d, m, t) ==
    LET feature == t % Net.expert
        selection == t \div Net.expert
        token == selection \div Net.top
        expert == At(m, d.buffer[2], selection)
        sum(name) == LaneSum(Net.hidden, Dot(d, m, Linears[<<d.layer, name, expert + 1>>],
                                             token * Net.hidden, feature))
    IN  IF t >= d.length * Net.top * Net.expert THEN {}
        ELSE {<<d.buffer[3], t, Residue(Silu(sum("gate")) * sum("up"))>>}

\* moe_down_simd: activation, weights, indices, output.
Down(d, m, t) ==
    LET feature == t % Net.hidden
        token == t \div Net.hidden
        part(rank) ==
            LET selection == token * Net.top + rank
                linear == Linears[<<d.layer, "down", At(m, d.buffer[3], selection) + 1>>]
            IN  At(m, d.buffer[2], selection)
                    * LaneSum(Net.expert, Dot(d, m, linear, selection * Net.expert, feature))
    IN  IF t >= d.length * Net.hidden THEN {}
        ELSE {<<d.buffer[4], t, Total([rank \in UpTo(Net.top) |-> part(rank)])>>}

\* decoder_argmax, a threadgroup as a thread: each lane the first of its
\* greatest, then by halves the lower lane of two that are equal.
Argmax(d, m, t) ==
    LET logit(i) == At(m, d.buffer[1], i)
        Better(best, i) == IF best = -1 \/ logit(i) > logit(best) THEN i ELSE best
        lane == Table([l \in UpTo(Threads) |->
                         FoldLeft(Better, -1, SelectSeq([i \in 1..Net.vocab |-> i - 1],
                                                        LAMBDA i : i % Threads = l))])
        Halve(best, stride) ==
            [l \in UpTo(Threads) |->
                IF l < stride /\ best[l + stride] # -1 /\ (best[l] = -1 \/ logit(best[l + stride]) > logit(best[l]))
                THEN best[l + stride] ELSE best[l]]
    IN  {<<d.buffer[2], 0, FoldLeft(Halve, lane, Halves(Threads))[0]>>}
=============================================================================
