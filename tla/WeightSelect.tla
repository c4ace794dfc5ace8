---------------------------- MODULE WeightSelect ----------------------------
(***************************************************************************)
(* Selection among sparse moves of a large packed model (ennx/src/         *)
(* weights.rs, its engines in weights/, and the sparse functions of        *)
(* ennx-py/src/py_weights.rs).  A row is the model xor a move: a mask for  *)
(* each 32-bit word that it touches.  The caller holds the model's words   *)
(* only as far as some row has touched them, asks which to fetch, packs    *)
(* the rows into these words and lets an engine pick.                      *)
(*                                                                         *)
(* A sorted list of words with a mask each is a function, a word or a mask *)
(* is the set of its bits.  Distances and acquisition are integers.  Codes *)
(* are integers too, the only encoding the sparse functions of Python ask  *)
(* for.                                                                    *)
(***************************************************************************)
EXTENDS Workgroup

CONSTANTS
    WordBits,        \* 32
    Layout,          \* leaves: parameters from start to end, width, first word
    Batches,         \* bound: the candidates of a round, as their draws
    Outcomes,        \* what may be told
    FirstOutcome,    \* of the model the caller starts from
    NormalDraws,     \* thompson_draws
    Asks,            \* bound: neighbors, acquisition and backend of a call
    DeviceNeighbors, \* MAX_NEIGHBORS of a device
    MaxRounds        \* bound: rounds

ASSUME LayoutAssumption ==
    /\ Layout[1].start = 0
    /\ \A l \in DOMAIN Layout :
          /\ Layout[l].start < Layout[l].end /\ WordBits % Layout[l].width = 0
          /\ l > 1 => Layout[l].start = Layout[l - 1].end

VARIABLES
    build,      \* what the library was built for: "metal", "opencl" or "cpu"
    model,      \* all words of the model, out of the caller's reach
    cache,      \* the words the caller has, with their values
    observed,   \* observations: the move from the model and the outcome
    candidates, \* the moves of this round
    routes,     \* ROUTES: for a size of work, whether the device is used
    asked,      \* the last call
    picked,     \* what it returned
    stage,      \* what the caller does next
    rounds,     \* rounds begun
    dense       \* ghost: the model each observation was made with

weightVars == <<build, model, cache, observed, candidates, routes, asked, picked, stage,
                rounds, dense>>

-----------------------------------------------------------------------------
\* Words of the layout.

FieldsPerWord(l) == WordBits \div Layout[l].width

WordsOf(l) == Layout[l].word ..
              (Layout[l].word + DivCeil(Layout[l].end - Layout[l].start, FieldsPerWord(l)) - 1)

Words == UNION {WordsOf(l) : l \in DOMAIN Layout}

\* word_ends
WordEnd(l) == Layout[l].word + Cardinality(WordsOf(l))

\* partition_point: the first leaf that ends behind.
LeafOfParameter(p) ==
    CHOOSE l \in DOMAIN Layout : p < Layout[l].end /\ \A m \in 1..(l - 1) : Layout[m].end <= p

LeafOfWord(w) ==
    CHOOSE l \in DOMAIN Layout : w < WordEnd(l) /\ \A m \in 1..(l - 1) : WordEnd(m) <= w

Parameters == 0..(Layout[Len(Layout)].end - 1)

\* Where a parameter is: its word, and its first bit there.
Place(p) ==
    LET l == LeafOfParameter(p)
        at == p - Layout[l].start
    IN  [word |-> Layout[l].word + at \div FieldsPerWord(l),
         bit |-> (at % FieldsPerWord(l)) * Layout[l].width]

-----------------------------------------------------------------------------
\* Moves and cached words.

\* A move that changes nothing.
Still == [w \in {} |-> {}]

MaskAt(move, w) == IF w \in DOMAIN move THEN move[w] ELSE {}

\* sparse_xor: a word whose masks cancel is dropped.
Xor(left, right) ==
    [w \in {w \in DOMAIN left \cup DOMAIN right : MaskAt(left, w) # MaskAt(right, w)} |->
        SymDiff(MaskAt(left, w), MaskAt(right, w))]

\* draw_sparse: parameters with a code each, those of a word together.
Drawn(draws) ==
    LET Mask(d) == [w \in {Place(d[1]).word} |-> {Place(d[1]).bit + b : b \in d[2]}]
    IN  FoldLeft(LAMBDA move, d : Xor(move, Mask(d)), Still, draws)

\* sparse_union: the words of all rows.
Union(moves) == UNION {DOMAIN moves[i] : i \in DOMAIN moves}

\* missing_words
Missing(cached, query) == query \ DOMAIN cached

\* merge_values: of a word in both, the value that was fetched.
Merge(cached, fetched) == fetched @@ cached

\* take_words: every word has to be there.
Take(cached, query) == [w \in query |-> cached[w]]

\* apply_sparse: the move on the words that are cached.
ApplySparse(cached, move) == [w \in DOMAIN cached |-> SymDiff(cached[w], MaskAt(move, w))]

\* blocks_for_words: a block for words in a row of the same width.
Blocks(query) ==
    LET sorted == SetToSortSeq(query, <)
        width == [i \in DOMAIN sorted |-> Layout[LeafOfWord(sorted[i])].width]
        Extend(blocks, w) ==
            IF blocks # <<>> /\ blocks[Len(blocks)].bits = w
            THEN [blocks EXCEPT ![Len(blocks)].length = @ + WordBits \div w]
            ELSE Append(blocks, [length |-> WordBits \div w, bits |-> w])
    IN  FoldLeft(Extend, <<>>, width)

\* pack_sparse_rows: the words one after the other, the masks at the
\* positions of their words.
Packed(values, move) ==
    LET sorted == SetToSortSeq(DOMAIN values, <)
    IN  UNION {{(i - 1) * WordBits + b : b \in SymDiff(values[sorted[i]], MaskAt(move, sorted[i]))} :
                  i \in DOMAIN sorted}

-----------------------------------------------------------------------------
\* Distances of packed rows, on the CPU and on a device.

RowBits(block) == block.length * block.bits

BitBase(blocks, b) == FoldLeft(LAMBDA sum, k : sum + RowBits(k), 0, SubSeq(blocks, 1, b - 1))

Code(row, base, element, bits) ==
    MapThenSumSet(LAMBDA j : IF base + element * bits + j \in row THEN 2^j ELSE 0, 0..(bits - 1))

\* The squared difference of element e of block b.
Delta2(left, right, blocks, b, e) ==
    LET base == BitBase(blocks, b)
        delta == Code(left, base, e, blocks[b].bits) - Code(right, base, e, blocks[b].bits)
    IN  delta * delta

ElementsOf(blocks) == {<<b, e>> : b \in DOMAIN blocks,
                                  e \in 0..(Max({blocks[b].length : b \in DOMAIN blocks}) - 1)}

WeightDistance(left, right, blocks) ==
    MapThenSumSet(LAMBDA x : IF x[2] < blocks[x[1]].length
                             THEN Delta2(left, right, blocks, x[1], x[2]) ELSE 0,
                  ElementsOf(blocks))

\* Mutant: a thread takes one element of a block.
OneElementEach(left, right, blocks) ==
    HalvingSum([t \in 0..(Threads - 1) |->
        MapThenSumSet(LAMBDA b : IF t < blocks[b].length
                                 THEN Delta2(left, right, blocks, b, t) ELSE 0,
                      DOMAIN blocks)])

\* Each thread every Threads-th element of a block, then the sum by halves.
KernelDistance(left, right, blocks) ==
    HalvingSum([t \in 0..(Threads - 1) |->
        MapThenSumSet(LAMBDA x : IF x[2] < blocks[x[1]].length /\ x[2] % Threads = t
                                 THEN Delta2(left, right, blocks, x[1], x[2]) ELSE 0,
                      ElementsOf(blocks))])

\* weighted_prediction and the acquisition, as an integer of the same
\* arguments: what is near, how near it is, and a draw or the confidence.
Acquisition(nearest, outcomes, ask, draw) ==
    FoldLeft(LAMBDA sum, n : sum + 3 * outcomes[n[2]] - 2 * n[1], 0, nearest)
        + nearest[1][1] * (CASE ask.acquisition = "ucb" -> 3
                             [] ask.acquisition = "pareto" -> 1
                             [] ask.acquisition = "thompson" -> draw)

\* predict_candidate_cpu and score_weight_neighbors from the distances on.
ScoreAt(distances, input, c) ==
    LET Add(nearest, o) == Insert(nearest, input.ask.neighbors, distances[o], o)
    IN  Acquisition(FoldLeft(Add, <<>>, [o \in DOMAIN distances |-> o]), input.outcomes,
                    input.ask, NormalDraws[c])

\* select_weight_cpu
CpuSelect(input) ==
    LET score == [c \in DOMAIN input.candidates |->
                    ScoreAt([o \in DOMAIN input.rows |->
                                WeightDistance(input.candidates[c], input.rows[o], input.blocks)],
                            input, c)]
    IN  FirstBest(score, DOMAIN score)

\* What a call returns besides an index.
Refused == 0

\* score_weight_neighbors: one workgroup for a candidate.
KernelScore(input, c) ==
    ScoreAt([o \in DOMAIN input.rows |->
                KernelDistance(input.candidates[c], input.rows[o], input.blocks)],
            input, c)

\* The host picks among the scores.
MetalSelect(input) ==
    IF input.ask.neighbors > DeviceNeighbors THEN Refused
    ELSE LET score == [c \in DOMAIN input.candidates |-> KernelScore(input, c)]
         IN  FirstBest(score, DOMAIN score)

\* Kernel and host are written again for OpenCL, with the same steps.
OpenClScore(input, c) == KernelScore(input, c)

OpenClSelect(input) ==
    IF input.ask.neighbors > DeviceNeighbors THEN Refused
    ELSE LET score == [c \in DOMAIN input.candidates |-> OpenClScore(input, c)]
         IN  FirstBest(score, DOMAIN score)

\* check_weight_inputs: k among the observations.
Checked(input) == input.ask.neighbors \in 1..Len(input.rows)

\* The size of the work, as a power of two.
Bucket(input) ==
    LET work == Len(input.rows) * Len(input.candidates)
                    * DivCeil(BitBase(input.blocks, Len(input.blocks) + 1), 8)
    IN  CHOOSE k \in 0..work : 2^k <= Max({1, work}) /\ Max({1, work}) < 2^(k + 1)

\* select_weights besides Auto on Metal.
SelectOn(backend, input) ==
    CASE ~Checked(input) -> Refused
      [] backend = "cpu" \/ (backend = "auto" /\ build = "cpu") -> CpuSelect(input)
      [] backend \in {"metal", "agx"} /\ build = "metal" -> MetalSelect(input)
      [] backend \in {"opencl", "auto"} /\ build = "opencl" -> OpenClSelect(input)
      [] OTHER -> Refused

-----------------------------------------------------------------------------
\* The caller.  The calls of a round follow each other, so that what it does
\* between two looks at the result is one action.

WeightInit ==
    /\ build \in {"metal", "opencl", "cpu"}
    /\ model = [w \in Words |-> {b \in 0..(WordBits - 1) : (w + b) % 2 = 0}]
    /\ cache = Still
    /\ observed = << [move |-> Still, outcome |-> FirstOutcome] >>
    /\ dense = <<model>>
    /\ candidates = <<>>
    /\ routes = [b \in {} |-> FALSE]
    /\ asked = [neighbors |-> 1, acquisition |-> "ucb", backend |-> "cpu"]
    /\ picked = Refused
    /\ stage = "draw"
    /\ rounds = 0

Moves == [i \in DOMAIN observed |-> observed[i].move] \o candidates

\* sparse_draw
Draw ==
    /\ stage = "draw" /\ rounds < MaxRounds
    /\ \E batch \in Batches : candidates' = [c \in DOMAIN batch |-> Drawn(batch[c])]
    /\ rounds' = rounds + 1
    /\ stage' = "fetch"
    /\ UNCHANGED <<build, model, cache, observed, routes, asked, picked, dense>>

\* sparse_union, sparse_missing, what the caller reads of its model, and
\* sparse_merge.
Fetch ==
    /\ stage = "fetch"
    /\ cache' = Merge(cache, [w \in Missing(cache, Union(Moves)) |-> model[w]])
    /\ stage' = "select"
    /\ UNCHANGED <<build, model, observed, candidates, routes, asked, picked, rounds, dense>>

\* sparse_take, sparse_blocks, pack_sparse_rows
Input(ask) ==
    LET values == Take(cache, Union(Moves))
    IN  [rows |-> [i \in DOMAIN observed |-> Packed(values, observed[i].move)],
         candidates |-> [c \in DOMAIN candidates |-> Packed(values, candidates[c])],
         outcomes |-> [i \in DOMAIN observed |-> observed[i].outcome],
         blocks |-> Blocks(DOMAIN values),
         ask |-> ask]

\* A selection needs a block: some row has to touch a word.
Selectable(ask) ==
    /\ stage \in {"select", "selected"}
    /\ Union(Moves) # {}
    /\ asked' = ask
    /\ stage' = "selected"
    /\ UNCHANGED <<build, model, cache, observed, candidates, rounds, dense>>

Select(ask) ==
    /\ ~(ask.backend = "auto" /\ build = "metal")
    /\ Selectable(ask)
    /\ picked' = SelectOn(ask.backend, Input(ask))
    /\ UNCHANGED routes

\* select_weights_auto on a size that has a route.
SelectRouted(ask) ==
    /\ ask.backend = "auto" /\ build = "metal"
    /\ Selectable(ask)
    /\ Bucket(Input(ask)) \in DOMAIN routes
    /\ picked' = SelectOn(IF routes[Bucket(Input(ask))] THEN "agx" ELSE "cpu", Input(ask))
    /\ UNCHANGED routes

\* And on one that has none: the answers of both.  The device is kept if it was
\* faster and agreed.  What the device refuses is refused.
Settle(bucket, cpu, gpu) ==
    /\ bucket \notin DOMAIN routes
    /\ IF Refused \in {cpu, gpu}
       THEN picked' = Refused /\ UNCHANGED routes
       ELSE \E faster \in BOOLEAN :
              /\ routes' = [b \in {bucket} |-> cpu = gpu /\ faster] @@ routes
              /\ picked' = IF cpu = gpu /\ faster THEN gpu ELSE cpu

Calibrate(ask) ==
    /\ ask.backend = "auto" /\ build = "metal"
    /\ Selectable(ask)
    /\ \E input \in {Input(ask)} :
          Settle(Bucket(input), SelectOn("cpu", input), SelectOn("agx", input))

\* The outcome of the picked candidate.  If it becomes the model, the cached
\* words and all moves follow: sparse_apply and sparse_xor.
Observe(accept, outcome) ==
    /\ stage = "selected" /\ picked # Refused
    /\ LET move == candidates[picked]
           all == Append(observed, [move |-> move, outcome |-> outcome])
           changed == ApplySparse(model, move)
       IN  /\ observed' = IF accept
                          THEN [i \in DOMAIN all |-> [all[i] EXCEPT !.move = Xor(@, move)]]
                          ELSE all
           /\ cache' = IF accept THEN ApplySparse(cache, move) ELSE cache
           /\ model' = IF accept THEN changed ELSE model
           /\ dense' = Append(dense, changed)
    /\ candidates' = <<>>
    /\ stage' = "draw"
    /\ picked' = Refused
    /\ UNCHANGED <<build, routes, asked, rounds>>

WeightNext == \/ Draw \/ Fetch
              \/ \E ask \in Asks : Select(ask) \/ SelectRouted(ask) \/ Calibrate(ask)
              \/ \E accept \in BOOLEAN, outcome \in Outcomes : Observe(accept, outcome)

-----------------------------------------------------------------------------
\* The choice by the models in full: every parameter, read from the layout.

ParameterAt(m, p) ==
    MapThenSumSet(LAMBDA j : IF Place(p).bit + j \in m[Place(p).word] THEN 2^j ELSE 0,
                  0..(Layout[LeafOfParameter(p)].width - 1))

ModelDistance(m, n) ==
    MapThenSumSet(LAMBDA p : (ParameterAt(m, p) - ParameterAt(n, p))
                             * (ParameterAt(m, p) - ParameterAt(n, p)), Parameters)

DenseScore(c) ==
    LET m == ApplySparse(model, candidates[c])
        ranked == SetToSortSeq({<<ModelDistance(m, dense[o]), o>> : o \in DOMAIN dense},
                               LAMBDA x, y : x[1] < y[1] \/ (x[1] = y[1] /\ x[2] < y[2]))
    IN  Acquisition(SubSeq(ranked, 1, asked.neighbors),
                    [o \in DOMAIN observed |-> observed[o].outcome], asked, NormalDraws[c])

\* Whatever is picked among the packed words that some row touches is what
\* the models in full would pick: on every engine and route, with words
\* fetched in several rounds, leaves of both widths next to each other, moves
\* that cancel, and after the model itself has moved under the cache and the
\* observations (sparse_select_impl, select_weights).
SparseChoiceIsDense ==
    stage = "selected" /\ picked # Refused =>
        picked = FirstBest([c \in DOMAIN candidates |-> DenseScore(c)], DOMAIN candidates)
=============================================================================
