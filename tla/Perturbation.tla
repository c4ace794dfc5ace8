---------------------------- MODULE Perturbation ----------------------------
(***************************************************************************)
(* What a seed does to one code of a quantized row: the trial search       *)
(* (ennx/src/trials.rs, the same in its kernels) writes it into a row, the *)
(* forward kernels (ennx/src/kda_moe.metal) make it up again while they    *)
(* read a weight.  A word is the sequence of its bytes, lowest first: the  *)
(* products of the hash do not fit TLC's integers.                         *)
(***************************************************************************)
EXTENDS Integers, Sequences, SequencesExt, Bitwise

Bytes == 1..4

Byte(word, i) == IF i \in Bytes THEN word[i] ELSE 0

Word(n) == [i \in Bytes |-> (n \div 256^(i - 1)) % 256]

XorWord(a, b) == [i \in Bytes |-> a[i] ^^ b[i]]

\* wrapping_mul
Times(a, b) ==
    LET Column(i) == FoldLeft(+, 0, [j \in 1..i |-> a[j] * b[i + 1 - j]])
        sum[i \in 0..4] == IF i = 0 THEN 0 ELSE Column(i) + sum[i - 1] \div 256
    IN  [i \in Bytes |-> sum[i] % 256]

\* >> 16 and >> 15
Shift16(a) == [i \in Bytes |-> Byte(a, i + 2)]
Shift15(a) == [i \in Bytes |-> (Byte(a, i + 2) * 2 + Byte(a, i + 1) \div 128) % 256]

\* (a >> 1) < (b >> 1)
HalfLess(a, b) ==
    LET high(w) == w[4] * 256 + w[3]
        low(w) == (w[2] * 256 + w[1]) \div 2
    IN  high(a) < high(b) \/ (high(a) = high(b) /\ low(a) < low(b))

Mixer1 == <<45, 53, 235, 127>>   \* 0x7feb352d
Mixer2 == <<139, 166, 108, 132>> \* 0x846ca68b
Spread == <<185, 121, 55, 158>>  \* 0x9e3779b9

\* The words the two hashes have in common.
Mixed(seed, element) ==
    LET start == XorWord(seed.low, Times(Word(element), Spread))
    IN  Times(XorWord(start, Shift16(start)), Mixer1)

\* The hash of the search: the high half of the seed goes in between.
TrialHash(seed, element) ==
    LET last == Times(XorWord(Mixed(seed, element), seed.high), Mixer2)
    IN  XorWord(last, Shift15(last))

\* The hash of the forward kernels: it goes in at the end, and the word is
\* shifted once more.
ForwardHash(seed, element) ==
    LET mixed == Mixed(seed, element)
        last == Times(XorWord(mixed, Shift15(mixed)), Mixer2)
    IN  XorWord(XorWord(last, Shift15(last)), seed.high)

\* perturb and perturb_code: a step down or up by the amount, the other way
\* where there is no room.
Step(code, random, bits, whole, threshold) ==
    LET amount == whole + (IF HalfLess(random, threshold) THEN 1 ELSE 0)
        top == 2^bits - 1
        down == random[1] % 2 = 0
    IN  IF amount = 0 THEN code
        ELSE IF down THEN (IF code >= amount THEN code - amount
                           ELSE IF code + amount <= top THEN code + amount ELSE top)
        ELSE IF code + amount <= top THEN code + amount
        ELSE IF code >= amount THEN code - amount ELSE 0
=============================================================================
