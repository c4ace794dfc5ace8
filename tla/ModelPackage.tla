---------------------------- MODULE ModelPackage ----------------------------
(***************************************************************************)
(* A packed model as the forward path takes it: the package that           *)
(* ennx/src/forward_weights.rs opens, and the layers that forward_program  *)
(* .rs and forward_metal.rs accept.  Descriptors are records of the first  *)
(* byte, scale, bias and element of a linear, its widths, bits and group.  *)
(***************************************************************************)
EXTENDS DecoderKernels

\* KdaPackedLinear::validate
Valid(linear) ==
    /\ linear.input > 0 /\ linear.output > 0 /\ linear.group > 0
    /\ linear.bits \in {4, 8}

\* A row begins with a byte of its own.
RowBytes(linear) == DivCeil(linear.input * linear.bits, 8)
PackedBytes(linear) == RowBytes(linear) * linear.output

\* PackedModel::open: names are keys, so none is there twice.
Opened(bytes) ==
    \A key \in DOMAIN Linears :
        LET linear == Linears[key]
            groups == GroupsOf(linear) * linear.output
        IN  /\ Valid(linear)
            /\ linear.byte + PackedBytes(linear) <= bytes
            /\ linear.scale + groups <= Len(Scales)
            /\ linear.bias + groups <= Len(Biases)

\* trial_leaves: in the order of their elements the linears leave no gap, not
\* of elements and not of bytes.
Gapless ==
    \A key \in DOMAIN Linears :
        LET before == {x \in {Linears[other] : other \in DOMAIN Linears} : x.element < Linears[key].element}
        IN  /\ Linears[key].element = FoldSet(LAMBDA x, sum : sum + x.input * x.output, 0, before)
            /\ Linears[key].byte = FoldSet(LAMBDA x, sum : sum + PackedBytes(x), 0, before)

Shape(key, input, output) == Linears[key].input = input /\ Linears[key].output = output

\* KdaForwardRequest::validate and KdaControlRequest::validate
AttentionAccepted(l) ==
    LET width == Net.heads * Net.value
        conv == Linears[<<l, "qkv_conv", 0>>]
    IN  /\ Linears[<<l, "qkv", 0>>].input = Linears[<<l, "output", 0>>].input
        /\ Linears[<<l, "qkv", 0>>].output = 3 * Net.heads * Net.key
        /\ Shape(<<l, "qkv_conv", 0>>, 4, 3 * width) /\ conv.bits = 8 /\ conv.group = 4
        /\ Shape(<<l, "control", 0>>, Net.hidden, 2 * Net.rank + Net.heads)
        /\ Shape(<<l, "forget_b", 0>>, Net.rank, width)
        /\ Shape(<<l, "gate_b", 0>>, Net.rank, width)
        /\ Shape(<<l, "output", 0>>, width, Net.hidden)
        /\ Shape(<<l, "decay", 0>>, Net.heads, 1)
        /\ Shape(<<l, "time_bias", 0>>, width, 1)
        /\ Shape(<<l, "output_norm", 0>>, Net.value, 1)

\* KdaMoeLayerRequest::validate
ExpertsAccepted(l) ==
    /\ Shape(<<l, "attention_norm", 0>>, Net.hidden, 1)
    /\ Shape(<<l, "moe_norm", 0>>, Net.hidden, 1)
    /\ Net.top \in 1..Least(Net.experts, 8)
    /\ Shape(<<l, "router", 0>>, Net.hidden, Net.experts)
    /\ \A e \in 1..Net.experts :
          LET width == Linears[<<l, "gate", e>>].output
          IN  /\ Linears[<<l, "gate", e>>].input = Net.hidden
              /\ Shape(<<l, "up", e>>, Net.hidden, width)
              /\ Shape(<<l, "down", e>>, width, Net.hidden)

\* attach_causal_head
HeadAccepted ==
    /\ Shape(<<0, "embedding", 0>>, Net.hidden, Net.vocab)
    /\ Shape(<<0, "final_norm", 0>>, Net.hidden, 1)

\* What the kernels need beyond that: key and value of one width, which
\* PyNativeKdaModel passes, experts of one width, of which the layer takes the
\* first expert's, no more experts than the router has scores for, and heads
\* that a thread's copy of a column can hold.
Supported ==
    /\ Net.key = Net.value /\ Net.key <= LocalState
    /\ Net.experts <= 32
    /\ \A key \in DOMAIN Linears : key[2] = "gate" => Linears[key].output = Net.expert

-----------------------------------------------------------------------------
\* Writing a package: linears one after the other, each row in bytes of its
\* own, the first of two codes in the low bits.

\* The parts of a linear that the order decides.
Placed(linears) ==
    LET Place(acc, x) ==
            [byte |-> acc.byte + PackedBytes(x), group |-> acc.group + GroupsOf(x) * x.output,
             element |-> acc.element + x.input * x.output,
             done |-> Append(acc.done, [x EXCEPT !.byte = acc.byte, !.scale = acc.group,
                                                 !.bias = acc.group, !.element = acc.element])]
    IN  FoldLeft(Place, [byte |-> 0, group |-> 0, element |-> 0, done |-> <<>>], linears)

\* Byte i of a linear whose codes start at its element.
PackedByte(linear, codes, i) ==
    LET row == i \div RowBytes(linear)
        column == (i % RowBytes(linear)) * PerByte(linear)
        code(c) == IF c < linear.input THEN codes[linear.element + row * linear.input + c] ELSE 0
    IN  IF linear.bits = 4 THEN code(column) + 16 * code(column + 1) ELSE code(column)

Package(placed, codes) ==
    LET bytes(x) == [i \in 1..PackedBytes(x) |-> PackedByte(x, codes, i - 1)]
        all == FoldLeft(LAMBDA acc, x : acc \o bytes(x), <<>>, placed)
    IN  [i \in UpTo(Len(all)) |-> all[i + 1]]
=============================================================================
