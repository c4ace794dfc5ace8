---------------------------- MODULE TrialKernels ----------------------------
(***************************************************************************)
(* A scoring pass of the trial search on a device (ennx/src/trials/        *)
(* metal.rs and opencl.rs with their kernels) beside the one on the CPU    *)
(* (ennx/src/trials.rs, trials/tree.rs).  Workgroups of a dispatch run in  *)
(* any order, dispatches one after the other.  The engine keeps buffers    *)
(* and what it believes they hold from call to call.                       *)
(*                                                                         *)
(* A row is a code per element.  A seed moves a code by one, up, down or   *)
(* not at all: Perturbation says how in full.  What a code stands for is a *)
(* whole number of the smallest steps of its encoding; the weight of a     *)
(* leaf is that of its scale too.  Distances and scores are integers;      *)
(* Score stands for a function of the same arguments.                      *)
(***************************************************************************)
EXTENDS Workgroup

CONSTANTS
    Leaves,       \* leaves of a row: offset, length, packed (4 bits), weight
    TileElements, \* TILE_ELEMENTS
    SimdWidth,    \* lanes that shuffle with each other
    HistoryBatch, \* records a Metal workgroup compares with
    MaxDepth,     \* MAX_DEPTH of a chain of centers
    Nudge,        \* where a seed moves an element: -1, 0 or 1
    Draws,        \* thompson_draws
    Base,         \* the slot of the center
    History,      \* the records: a slot and a value
    Runs,         \* bound: searches: an encoding per leaf, a row per slot, calls
    Garbage,      \* what a new buffer holds
    NaN           \* what is no number, or none that is finite

ASSUME TrialKernelsAssumption ==
    /\ TileElements % 2 = 0 /\ TileElements > 0
    /\ SimdWidth \in Nat
    /\ Threads % SimdWidth = 0 /\ Threads \div SimdWidth <= SimdWidth
    /\ Garbage \notin Int /\ NaN \notin Int

\* Leaf::new_with_encoding: no leaf is empty or weighs nothing.
LeafFits(leaf) == leaf.length > 0 /\ leaf.weight > 0

\* check_layout: leaves follow each other without a gap.
CheckLayout(leaves) ==
    /\ leaves # <<>>
    /\ \A l \in DOMAIN leaves :
          /\ LeafFits(leaves[l])
          /\ leaves[l].offset = MapThenSumSet(LAMBDA k : leaves[k].length, 1..(l - 1))

ASSUME LeavesAssumption == CheckLayout(Leaves)

\* EncodingType::parse: int4 or fp4, int8 or one of the two fp8.
EncodingsFor(leaf) == IF leaf.packed THEN {"int", "e2m1"} ELSE {"int", "e4m3", "e5m2"}

ASSUME EncodingsAssumption ==
    \A run \in Runs : \A l \in DOMAIN Leaves : run.encodings[l] \in EncodingsFor(Leaves[l])

VARIABLES
    device,   \* which engine: Metal or OpenCL
    encodings,\* what the codes of each leaf are
    rows,     \* the arena
    capacity, \* candidate_capacity
    centers,  \* the buffer of center steps
    owners,   \* the buffer of candidate centers
    draws,    \* the buffer of Thompson draws
    resident, \* Metal: what it believes is in the buffers of the tree
    partials, \* the buffer of partial distances
    scores, choice, selected, \* and those of what came of them
    whole,    \* the call of the search under way
    call,     \* the call of the engine it makes
    pc,       \* its dispatch
    done,     \* the workgroups that have run
    result,   \* what it returned, or has to return so far
    before,   \* ghost: the arena when the call began
    torn,     \* ghost: OpenCL read the centers after the host had freed them
    todo      \* the calls to come

made == <<device, encodings>>
buffers == <<capacity, centers, owners, draws, resident>>
host == <<whole, before, torn, todo>>
vars == <<made, rows, buffers, partials, scores, choice, selected, call, pc, done, result,
          host>>

NextPowerOfTwo(n) == CHOOSE p \in {2^i : i \in 0..n} : p >= n /\ (p = 1 \/ p \div 2 < n)

Elements == 0..(Leaves[Len(Leaves)].offset + Leaves[Len(Leaves)].length - 1)

LeafElements(leaf) == leaf.offset..(leaf.offset + leaf.length - 1)

LeafOf == [e \in Elements |-> CHOOSE l \in DOMAIN Leaves : e \in LeafElements(Leaves[l])]

Weight == [e \in Elements |-> Leaves[LeafOf[e]].weight]

MaxCode == [e \in Elements |-> IF Leaves[LeafOf[e]].packed THEN 15 ELSE 255]

-----------------------------------------------------------------------------
\* What a code stands for.

\* FP4_E2M1_LUT in halves, without its sign.
Fp4 == <<0, 1, 2, 3, 4, 6, 8, 12>>

Signed(code, half, Magnitude(_)) ==
    IF code >= half THEN -Magnitude(code - half) ELSE Magnitude(code)

\* An exponent above so many bits of a mantissa, in steps of a subnormal.
Fp8(code, bits) ==
    LET exponent == code \div 2^bits
        mantissa == code % 2^bits
    IN  IF exponent = 0 THEN mantissa ELSE (2^bits + mantissa) * 2^(exponent - 1)

\* decode_code: the last code of e4m3 is not a number, nor are those of the
\* last exponent of e5m2, or they are infinite.
Decode(encoding, code) ==
    CASE encoding = "int" -> code
      [] encoding = "e2m1" -> Signed(code, 8, LAMBDA c : Fp4[c + 1])
      [] encoding = "e4m3" -> IF code % 128 = 127 THEN NaN
                              ELSE Signed(code, 128, LAMBDA c : Fp8(c, 3))
      [] encoding = "e5m2" -> IF code % 128 >= 124 THEN NaN
                              ELSE Signed(code, 128, LAMBDA c : Fp8(c, 2))

\* decode_fp8_e4m3 and decode_fp8_e5m2 of the kernels: below the first
\* exponent the mantissa, above it one bit more, twice as much each time.
DeviceFp8(code, bits) ==
    IF code < 2^bits THEN code
    ELSE (2^bits + (code % 2^bits)) * 2^(code \div 2^bits - 1)

\* decode_code of the kernels: every code is a finite number.
DeviceDecode(encoding, code) ==
    CASE encoding = "int" -> code
      [] encoding = "e2m1" -> Signed(code, 8, LAMBDA c : Fp4[c + 1])
      [] encoding = "e4m3" -> Signed(code, 128, LAMBDA c : DeviceFp8(c, 3))
      [] encoding = "e5m2" -> Signed(code, 128, LAMBDA c : DeviceFp8(c, 2))

-----------------------------------------------------------------------------
\* What both do: perturb, insert_neighbor and score.

\* A step the other way where there is no room.
Perturb(code, seed, e) ==
    CASE Nudge[seed][e] = 0 -> code
      [] Nudge[seed][e] < 0 -> IF code >= 1 THEN code - 1 ELSE Least(code + 1, MaxCode[e])
      [] Nudge[seed][e] > 0 -> IF code + 1 <= MaxCode[e] THEN code + 1 ELSE code - 1

Squared(e, value, observed) == Weight[e] * (value - observed) * (value - observed)

\* Nothing is known of a candidate that nothing is near.
Unknown == 1000000

\* The value of what is near, and the more the less is known; Thompson draws.
Score(nearest, draw, thompson) ==
    IF nearest = <<>> THEN Unknown * (IF thompson THEN draw ELSE 1)
    ELSE FoldLeft(LAMBDA sum, n : sum + 2 * History[n[2]].value - n[1], 0, nearest)
             + (IF thompson THEN draw ELSE 2 * nearest[1][1])

\* A distance that is no number, or infinite, is before none.
NearestOf(distances, k) ==
    FoldLeft(LAMBDA nearest, h : IF distances[h] = NaN THEN nearest
                                 ELSE Insert(nearest, k, distances[h], h),
             <<>>, [h \in DOMAIN History |-> h])

-----------------------------------------------------------------------------
\* The pass on the CPU.

Materialize(row, seed) == [e \in Elements |-> Perturb(row[e], seed, e)]

Decoded(row) == [e \in Elements |-> Decode(encodings[LeafOf[e]], row[e])]

Apart(trial, observed) ==
    IF NaN \in Range(trial) \cup Range(observed) THEN NaN
    ELSE MapThenSumSet(LAMBDA e : Squared(e, trial[e], observed[e]), Elements)

TrialDistance(row, observation, seed) ==
    Apart(Decoded(Materialize(row, seed)), Decoded(observation))

CpuScore(arena, row, c, i) ==
    Score(NearestOf([h \in DOMAIN History |->
                        TrialDistance(row, arena[History[h].slot], c.seeds[i])], c.neighbors),
          Draws[i], c.thompson)

\* The best of the candidates is, from 0, and its score.
Chosen(score, best) == <<best - 1, score[best]>>
BestOf(score) == Chosen(score, FirstBest(score, DOMAIN score))

CpuBest(arena, row, c, is) == BestOf([i \in is |-> CpuScore(arena, row, c, i)])

\* All that these candidates are compared with is at a distance from them.
Numbers(arena, row, c, is) ==
    \A i \in is, h \in DOMAIN History :
        TrialDistance(row, arena[History[h].slot], c.seeds[i]) # NaN

\* The rows after a call, what it returns and whether it met only numbers.
CpuTaken(arena, c, best) ==
    [rows |-> IF c.materialize
              THEN [arena EXCEPT ![c.trial] = Materialize(arena[Base], c.seeds[best[1] + 1])]
              ELSE arena,
     result |-> <<best>>,
     numbers |-> Numbers(arena, arena[Base], c, DOMAIN c.seeds)]

CpuAsk(arena, c) == CpuTaken(arena, c, CpuBest(arena, arena[Base], c, DOMAIN c.seeds))

\* Every center is a row of its own, made of its parent's.
CenterRows(root, tree) ==
    LET row[n \in DOMAIN tree] ==
            Materialize(IF tree[n].parent = 0 THEN root ELSE row[tree[n].parent], tree[n].seed)
    IN  row

Region(c, r) == ((r - 1) * c.per_region + 1)..(r * c.per_region)

CpuTree(arena, c) ==
    LET center == CenterRows(arena[Base], c.tree)
    IN  [rows |-> arena,
         result |-> [r \in DOMAIN c.region_centers |->
                        CpuBest(arena, center[c.region_centers[r]], c, Region(c, r))],
         numbers |-> \A r \in DOMAIN c.region_centers :
                         Numbers(arena, center[c.region_centers[r]], c, Region(c, r))]

-----------------------------------------------------------------------------
\* The search.

\* check_ask
CheckAsk(c) == c.seeds # <<>> /\ c.neighbors \in 1..Len(History)

\* As many seeds as the regions need.
SeedsFit(c) == c.regions > 0 /\ c.per_region > 0 /\ Len(c.seeds) = c.regions * c.per_region

\* How many steps lead to a center whose parents come before it.
DepthOf(tree, n) ==
    LET depth[k \in 0..n] == IF k = 0 THEN 0 ELSE 1 + depth[tree[k].parent]
    IN  depth[n]

\* tree::check
CheckTree(c) ==
    /\ c.regions > 0 /\ Len(c.region_centers) = c.regions
    /\ \A n \in DOMAIN c.tree : c.tree[n].parent < n
    /\ \A n \in DOMAIN c.tree : DepthOf(c.tree, n) <= MaxDepth
    /\ \A r \in DOMAIN c.region_centers : c.region_centers[r] \in DOMAIN c.tree

Admitted(c) ==
    CASE c.kind = "ask" -> CheckAsk(c)
      [] c.kind = "regions" -> SeedsFit(c) /\ CheckAsk(c)
      [] c.kind = "tree" -> CheckTree(c) /\ SeedsFit(c) /\ CheckAsk(c)
      [] OTHER -> TRUE

\* The regions of an engine that has no kernel for them are asked one by one,
\* each with draws of its own and its choice written to the first slot.
RegionAsk(c, r) ==
    [c EXCEPT !.kind = "ask", !.seeds = SubSeq(c.seeds, (r - 1) * c.per_region + 1, r * c.per_region),
              !.trial = 1, !.materialize = TRUE]

\* A choice among the seeds of region r, as one among all.
Shifted(c, r, answer) == <<(r - 1) * c.per_region + answer[1], answer[2]>>

CpuRegions(arena, c) ==
    LET Answered(at, r, asked) ==
            [rows |-> asked.rows, result |-> Append(at.result, Shifted(c, r, asked.result[1])),
             numbers |-> at.numbers /\ asked.numbers]
        AskNext(at, r) == Answered(at, r, CpuAsk(at.rows, RegionAsk(c, r)))
    IN  FoldLeft(AskNext, [rows |-> arena, result |-> <<>>, numbers |-> TRUE],
                 [r \in 1..c.regions |-> r])

\* Regions around the center as it is: a search of its own for each.
IndependentRegions(arena, c) ==
    [rows |-> arena, result |-> [r \in 1..c.regions |-> CpuBest(arena, arena[Base], c, Region(c, r))],
     numbers |-> Numbers(arena, arena[Base], c, DOMAIN c.seeds)]

-----------------------------------------------------------------------------
\* Tiles, workgroups and how threads add up.

TilesOf(leaf) == DivCeil(leaf.length, TileElements)

\* A leaf is cut into tiles of an even number of elements, besides the last.
Tiles ==
    LET OfLeaf(l) == [t \in 1..TilesOf(Leaves[l]) |->
                        [leaf |-> l, start |-> (t - 1) * TileElements,
                         length |-> Least(Leaves[l].length - (t - 1) * TileElements, TileElements)]]
    IN  FlattenSeq([l \in DOMAIN Leaves |-> OfLeaf(l)])

TileCount == Len(Tiles)

\* The elements a thread visits of a tile, in the leaf: byte by byte of a
\* packed leaf, both halves of a byte unless the leaf ends between them.
Visits(tile, thread) ==
    LET leaf == Leaves[tile.leaf]
        firsts == IF leaf.packed
                  THEN {tile.start + 2 * b : b \in {b \in 0..(DivCeil(tile.length, 2) - 1) :
                                                        b % Threads = thread}}
                  ELSE {e \in tile.start..(tile.start + tile.length - 1) :
                            (e - tile.start) % Threads = thread}
        seconds == IF leaf.packed THEN {f + 1 : f \in {f \in firsts : f + 1 < leaf.length}} ELSE {}
    IN  {leaf.offset + e : e \in firsts \cup seconds}

Visited == [t \in 1..TileCount |-> [thread \in 0..(Threads - 1) |-> Visits(Tiles[t], thread)]]

\* simd_sum and a sum over the simd groups.
SimdSum(parts) ==
    LET OfSimd(s) == MapThenSumSet(LAMBDA lane : parts[s * SimdWidth + lane], 0..(SimdWidth - 1))
    IN  MapThenSumSet(OfSimd, 0..(Threads \div SimdWidth - 1))

Reduced(parts) == IF device = "metal" THEN SimdSum(parts) ELSE HalvingSum(parts)

-----------------------------------------------------------------------------
\* distance_trials

Candidates == DOMAIN call.seeds

HistoryGroups == IF device = "metal" THEN DivCeil(Len(History), HistoryBatch) ELSE 1

DistanceGroups == 0..(DivCeil(Len(call.seeds), 2) * HistoryGroups * TileCount - 1)

\* The chain of a candidate's center, root first, at most MaxDepth steps.
ChainOf(center) ==
    LET chain[n \in 0..Len(call.tree)] ==
            IF n = 0 THEN <<>> ELSE Append(chain[centers[n].parent], centers[n].seed)
        steps == chain[center]
    IN  SubSeq(steps, Len(steps) - Least(Len(steps), MaxDepth) + 1, Len(steps))

\* resolve_center: a code along the chain.
ResolveCenter(code, center, e) ==
    FoldLeft(LAMBDA at, seed : Perturb(at, seed, e), code, ChainOf(center))

\* No tree, no chain.
CenterOf(c) == IF call.tree = <<>> THEN 0 ELSE owners[c]

TileDistance(c, h, t) ==
    LET trial(e) == Perturb(ResolveCenter(rows[Base][e], CenterOf(c), e), call.seeds[c], e)
        Value(e, code) == DeviceDecode(encodings[LeafOf[e]], code)
        Of(e) == Squared(e, Value(e, trial(e)), Value(e, rows[History[h].slot][e]))
    IN  Reduced([thread \in 0..(Threads - 1) |-> MapThenSumSet(Of, Visited[t][thread])])

Offset(c, h, t) == ((c - 1) * Len(History) + (h - 1)) * TileCount + (t - 1)

\* A Metal group: a pair of candidates, a batch of records, a tile.
MetalGroup(g) ==
    LET work == g \div TileCount
        pair == work \div HistoryGroups
        start == (work % HistoryGroups) * HistoryBatch
    IN  [tile |-> (g % TileCount) + 1,
         candidates |-> {2 * pair + 1, 2 * pair + 2} \cap Candidates,
         records |-> (start + 1)..(start + Least(HistoryBatch, Len(History) - start))]

\* An OpenCL group compares with all records.
OpenClGroup(g) ==
    LET pair == g \div TileCount
    IN  [tile |-> g - pair * TileCount + 1,
         candidates |-> {2 * pair + 1, 2 * pair + 2} \cap Candidates,
         records |-> DOMAIN History]

Group(g) == IF device = "metal" THEN MetalGroup(g) ELSE OpenClGroup(g)

\* What a group writes: an offset and a distance each.
Written(g) ==
    LET w == Group(g)
    IN  {<<Offset(c, h, w.tile), TileDistance(c, h, w.tile)>> :
            c \in w.candidates, h \in w.records}

-----------------------------------------------------------------------------
\* score_trials and the picks

\* The sum over the tiles, a thread taking every Threads-th.
Summed(c, h) ==
    LET Of(t) == partials[Offset(c, h, t)]
    IN  Reduced([thread \in 0..(Threads - 1) |->
                    MapThenSumSet(Of, {t \in 1..TileCount : (t - 1) % Threads = thread})])

ScoreOf(c) ==
    Score(NearestOf([h \in DOMAIN History |-> Summed(c, h)], call.neighbors),
          IF call.thompson THEN draws[c] ELSE 0, call.thompson)

\* No candidate: below all scores, behind all candidates.
NoPick == <<-2000000000, 1000000>>

\* Mutant: of equal scores the one seen last stays.
BetterLast(a, b) == IF b[1] >= a[1] THEN b ELSE a

Better(a, b) == IF b[1] > a[1] \/ (b[1] = a[1] /\ b[2] < a[2]) THEN b ELSE a

\* simd_shuffle_down by halves of the width; lane 0 ends with the best.
Shuffled(lanes) ==
    LET Down(at, offset) == [lane \in 0..(SimdWidth - 1) |->
                                IF lane + offset < SimdWidth
                                THEN Better(at[lane], at[lane + offset]) ELSE at[lane]]
    IN  FoldLeft(Down, lanes, Halves(SimdWidth))[0]

SelectionThreads(n) ==
    LET p == NextPowerOfTwo(n)
    IN  IF p < SimdWidth THEN SimdWidth ELSE Least(p, Threads)

\* pick_trial and multi_tr_pick_trials: each thread its own candidates, each
\* simd group its lanes, the first one what the groups found.
MetalPick(first, n) ==
    LET width == SelectionThreads(n)
        own == [t \in 0..(width - 1) |->
                   FoldLeft(LAMBDA best, i : IF (i - 1) % width = t
                                             THEN Better(best, <<scores[first + i - 1], i - 1>>)
                                             ELSE best,
                            NoPick, [i \in 1..n |-> i])]
        groups == [s \in 0..(width \div SimdWidth - 1) |->
                      Shuffled([lane \in 0..(SimdWidth - 1) |-> own[s * SimdWidth + lane]])]
    IN  Shuffled([lane \in 0..(SimdWidth - 1) |->
                     IF lane < width \div SimdWidth THEN groups[lane] ELSE NoPick])

\* One thread goes through all scores.
OpenClPick(n) ==
    FoldLeft(LAMBDA best, i : IF scores[i] > best[1] THEN <<scores[i], i - 1>> ELSE best,
             <<scores[1], 0>>, [i \in 1..n |-> i])

\* The regions' best among the scores the host has read: max_by.
HostPick(r) ==
    LET best == FirstBest(scores, Region(call, r))
    IN  <<scores[best], best - 1>>

-----------------------------------------------------------------------------
\* The engine.

Empty(n) == [i \in 1..n |-> Garbage]

NoResident == [tree |-> <<>>, region_centers |-> <<>>, per_region |-> 0]

\* The engines a search may get for a backend, with what the build has.
EngineFor(backend, built) ==
    CASE backend = "cpu" -> {"cpu"}
      [] backend \in {"metal", "agx"} -> {"metal"} \cap built
      [] backend = "opencl" -> {"opencl"} \cap built
      [] backend = "auto" -> IF "metal" \in built THEN {"metal"}
                             ELSE IF "opencl" \in built THEN {"opencl"} ELSE {"cpu"}

\* Buffers for one candidate, and no tree on the device.
MetalEngine == device = "metal" /\ choice = Empty(1) /\ selected = Empty(1)

\* OpenCL has no buffer for the scores of regions.
OpenClEngine == device = "opencl" /\ choice = Empty(1) /\ selected = <<>>

Init ==
    /\ device \in UNION {EngineFor(backend, built) :
                            backend \in {"metal", "agx", "opencl", "auto"},
                            built \in SUBSET {"metal", "opencl"}} \ {"cpu"}
    /\ MetalEngine \/ OpenClEngine
    /\ capacity = 1
    /\ centers = Empty(1) /\ owners = Empty(1) /\ draws = Empty(1)
    /\ resident = NoResident
    /\ partials = [o \in 0..(Len(History) * TileCount - 1) |-> Garbage]
    /\ scores = Empty(1)
    /\ \E run \in Runs : encodings = run.encodings /\ rows = run.rows /\ todo = run.calls
    /\ whole = todo[1] /\ call = todo[1]
    /\ pc = "idle" /\ done = {} /\ result = <<>>
    /\ before = rows /\ torn = FALSE

\* A buffer with values at its start.
Filled(buffer, values) ==
    [i \in DOMAIN buffer |-> IF i \in DOMAIN values THEN values[i] ELSE buffer[i]]

Grown(c) == Len(c.seeds) > capacity
CapacityFor(c) == IF Grown(c) THEN NextPowerOfTwo(Len(c.seeds)) ELSE capacity

\* What ensure_candidates leaves of a buffer: a larger one is a new one.
Held(buffer, c) == IF Grown(c) THEN Empty(CapacityFor(c)) ELSE buffer

OpenClEnsureCandidates(c) ==
    /\ capacity' = CapacityFor(c)
    /\ scores' = Held(scores, c)
    /\ partials' = IF Grown(c)
                   THEN [o \in 0..(CapacityFor(c) * Len(History) * TileCount - 1) |-> Garbage]
                   ELSE partials

\* The owners are to be written again.
ResidentAfter(c) == IF Grown(c) THEN [resident EXCEPT !.region_centers = <<>>] ELSE resident

MetalEnsureCandidates(c) ==
    /\ OpenClEnsureCandidates(c)
    /\ selected' = Held(selected, c)

\* The tree and the center of each candidate, where there is room for them.
CentersWith(c) ==
    LET size == Len(c.tree)
    IN  Filled(IF size > Len(centers) THEN Empty(NextPowerOfTwo(size)) ELSE centers, c.tree)

OwnersWith(c) ==
    Filled(Held(owners, c), [i \in 1..(Len(c.region_centers) * c.per_region) |->
                                c.region_centers[(i - 1) \div c.per_region + 1]])

KeepCenters(c) == owners' = Held(owners, c) /\ UNCHANGED centers

\* write_centers of Metal: only what has changed.
MetalWriteCenters(c) ==
    LET want == [tree |-> c.tree, region_centers |-> c.region_centers,
                 per_region |-> c.per_region]
    IN  IF c.kind # "tree" \/ ResidentAfter(c) = want
        THEN resident' = ResidentAfter(c) /\ KeepCenters(c)
        ELSE resident' = want /\ centers' = CentersWith(c) /\ owners' = OwnersWith(c)

\* write_centers of OpenCL enqueues writes that do not block and frees what
\* they are to read, so that the device may score anything.
OpenClWriteCenters(c) ==
    /\ centers' = CentersWith(c) /\ owners' = OwnersWith(c)
    /\ torn' \in BOOLEAN

\* sync_draws: Metal writes them when they are used.
SyncDraws(c) == draws' = IF c.thompson THEN Filled(Held(draws, c), SubSeq(Draws, 1, Len(c.seeds)))
                         ELSE Held(draws, c)

WriteInputs(c) == draws' = Filled(Held(draws, c), SubSeq(Draws, 1, Len(c.seeds)))

-----------------------------------------------------------------------------
\* Calls of an engine, up to its first dispatch.

MetalAsk(c) ==
    /\ device = "metal" /\ c.kind = "ask"
    /\ MetalEnsureCandidates(c) /\ choice' = Held(choice, c)
    /\ resident' = ResidentAfter(c) /\ KeepCenters(c)
    /\ SyncDraws(c)
    /\ pc' = "distance" /\ torn' = FALSE

MetalAskMultiTr(c) ==
    /\ device = "metal" /\ c.kind \in {"regions", "tree"}
    /\ MetalEnsureCandidates(c) /\ choice' = Held(choice, c)
    /\ MetalWriteCenters(c)
    /\ SyncDraws(c)
    /\ pc' = "distance" /\ torn' = FALSE

\* The only seed is the choice.
MetalMaterialize(c) ==
    /\ device = "metal" /\ c.kind = "write"
    /\ MetalEnsureCandidates(c) /\ choice' = [Held(choice, c) EXCEPT ![1] = 0]
    /\ resident' = ResidentAfter(c) /\ KeepCenters(c)
    /\ draws' = Held(draws, c)
    /\ pc' = "write" /\ torn' = FALSE

OpenClAsk(c) ==
    /\ device = "opencl" /\ c.kind = "ask"
    /\ OpenClEnsureCandidates(c)
    /\ WriteInputs(c) /\ KeepCenters(c)
    /\ pc' = "distance" /\ torn' = FALSE
    /\ UNCHANGED <<resident, choice, selected>>

OpenClAskTree(c) ==
    /\ device = "opencl" /\ c.kind = "tree"
    /\ OpenClEnsureCandidates(c)
    /\ WriteInputs(c) /\ OpenClWriteCenters(c)
    /\ pc' = IF torn' THEN "torn" ELSE "distance"
    /\ UNCHANGED <<resident, choice, selected>>

OpenClMaterialize(c) ==
    /\ device = "opencl" /\ c.kind = "write"
    /\ OpenClEnsureCandidates(c)
    /\ draws' = Held(draws, c) /\ KeepCenters(c)
    /\ choice' = [choice EXCEPT ![1] = 0]
    /\ pc' = "write" /\ torn' = FALSE
    /\ UNCHANGED <<resident, selected>>

EngineCall(c) ==
    /\ call' = c
    /\ \/ MetalAsk(c) \/ MetalAskMultiTr(c) \/ MetalMaterialize(c)
       \/ OpenClAsk(c) \/ OpenClAskTree(c) \/ OpenClMaterialize(c)
    /\ UNCHANGED <<made, rows, done>>

\* OpenCL has no kernel for regions.
OneByOne(c) == c.kind = "regions" /\ device = "opencl"

\* What a refused call returns, and what a device may make of freed centers.
Err == <<Garbage>>

\* The search takes up a call.
Begin(c) ==
    /\ pc \in {"idle", "returned"}
    /\ whole' = c /\ todo' = Tail(todo)
    /\ before' = rows
    /\ Admitted(c) /\ c.kind # "load"
    /\ result' = <<>>
    /\ EngineCall(IF OneByOne(c) THEN RegionAsk(c, 1) ELSE c)

Refuse(c) ==
    /\ pc \in {"idle", "returned"}
    /\ whole' = c /\ todo' = Tail(todo)
    /\ before' = rows
    /\ ~Admitted(c)
    /\ result' = Err /\ pc' = "returned" /\ torn' = FALSE
    /\ UNCHANGED <<made, rows, buffers, partials, scores, choice, selected, call, done>>

\* A row of the caller's, read back as it was written.
WriteRow(c) ==
    /\ pc \in {"idle", "returned"}
    /\ whole' = c /\ todo' = Tail(todo)
    /\ before' = rows
    /\ c.kind = "load"
    /\ rows' = [rows EXCEPT ![c.trial] = c.row]
    /\ result' = <<rows'[c.trial]>> /\ pc' = "returned" /\ torn' = FALSE
    /\ UNCHANGED <<made, buffers, partials, scores, choice, selected, call, done>>

NextRegion ==
    /\ pc = "again"
    /\ EngineCall(RegionAsk(whole, Len(result) + 1))
    /\ UNCHANGED <<whole, todo, before, result>>

-----------------------------------------------------------------------------
\* Dispatches.

\* A workgroup of a dispatch runs; the last one ends it.
RunGroup(g, all, next) ==
    /\ g \in all \ done
    /\ IF done \cup {g} = all THEN done' = {} /\ pc' = next
       ELSE done' = done \cup {g} /\ UNCHANGED pc

Overwritten(buffer, written) ==
    [o \in DOMAIN buffer |-> IF \E w \in written : w[1] = o
                             THEN (CHOOSE w \in written : w[1] = o)[2] ELSE buffer[o]]

DistanceGroup(g) ==
    /\ pc = "distance"
    /\ RunGroup(g, DistanceGroups, "score")
    /\ partials' = Overwritten(partials, Written(g))
    /\ UNCHANGED <<made, rows, buffers, scores, choice, selected, call, result, host>>

\* The host picks the regions of an OpenCL tree.
ScoreGroup(c) ==
    /\ pc = "score"
    /\ RunGroup(c, Candidates, IF device = "opencl" /\ call.kind = "tree" THEN "read" ELSE "pick")
    /\ scores' = [scores EXCEPT ![c] = ScoreOf(c)]
    /\ UNCHANGED <<made, rows, buffers, partials, choice, selected, call, result, host>>

PickTrial ==
    /\ pc = "pick" /\ call.kind = "ask"
    /\ choice' = [choice EXCEPT ![1] = IF device = "metal" THEN MetalPick(1, Len(call.seeds))[2]
                                       ELSE OpenClPick(Len(call.seeds))[2]]
    /\ pc' = IF call.materialize THEN "write" ELSE "read"
    /\ UNCHANGED <<made, rows, buffers, partials, scores, selected, call, done, result, host>>

PickRegion(r) ==
    /\ pc = "pick" /\ call.kind # "ask"
    /\ RunGroup(r, 1..call.regions, "read")
    /\ LET first == (r - 1) * call.per_region + 1
           pick == MetalPick(first, call.per_region)
       IN  /\ choice' = [choice EXCEPT ![r] = first - 1 + pick[2]]
           /\ selected' = [selected EXCEPT ![r] = pick[1]]
    /\ UNCHANGED <<made, rows, buffers, partials, scores, call, result, host>>

\* write_trial, the row may be the center's.
WriteTile(t) ==
    /\ pc = "write"
    /\ RunGroup(t, 1..TileCount, "read")
    /\ LET seed == call.seeds[choice[1] + 1]
           written == UNION {Visited[t][thread] : thread \in 0..(Threads - 1)}
       IN  rows' = [rows EXCEPT ![call.trial] =
                       [e \in Elements |-> IF e \in written THEN Perturb(rows[Base][e], seed, e)
                                           ELSE @[e]]]
    /\ UNCHANGED <<made, buffers, partials, scores, choice, selected, call, result, host>>

-----------------------------------------------------------------------------
\* What the host reads.

\* The choice of an ask and its score; of a region among all candidates.
ReadChoice ==
    LET answer == <<choice[1], scores[choice[1] + 1]>>
    IN  <<IF OneByOne(whole) THEN Shifted(whole, Len(result) + 1, answer) ELSE answer>>

ReadRegions == [r \in 1..call.regions |-> <<choice[r], selected[r]>>]

\* run_scores: the scores come to the host, which picks.
ReadScores == [r \in 1..call.regions |-> <<HostPick(r)[2], HostPick(r)[1]>>]

Return ==
    /\ pc = "read"
    /\ result' = result \o CASE call.kind = "write" -> <<>>
                             [] call.kind = "ask" -> ReadChoice
                             [] OTHER -> IF device = "metal" THEN ReadRegions ELSE ReadScores
    /\ pc' = IF OneByOne(whole) /\ Len(result') < whole.regions THEN "again" ELSE "returned"
    /\ UNCHANGED <<made, rows, buffers, partials, scores, choice, selected, call, done, host>>

\* What came of centers that were freed.
ReturnTorn ==
    /\ pc = "torn"
    /\ pc' = "returned"
    /\ result' = Err
    /\ UNCHANGED <<made, rows, buffers, partials, scores, choice, selected, call, done, host>>

Next == \/ todo # <<>> /\ LET c == Head(todo) IN Begin(c) \/ Refuse(c) \/ WriteRow(c)
        \/ NextRegion
        \/ \E g \in DistanceGroups : DistanceGroup(g)
        \/ \E c \in Candidates : ScoreGroup(c)
        \/ PickTrial
        \/ \E r \in 1..call.regions : PickRegion(r)
        \/ \E t \in 1..TileCount : WriteTile(t)
        \/ Return \/ ReturnTorn

Spec == Init /\ [][Next]_vars

-----------------------------------------------------------------------------
\* The call on the CPU.
OnCpu(arena, c) ==
    CASE ~Admitted(c) -> [rows |-> arena, result |-> Err, numbers |-> TRUE]
      [] c.kind = "ask" -> CpuAsk(arena, c)
      [] c.kind = "regions" -> IF OneByOne(c) THEN CpuRegions(arena, c)
                               ELSE IndependentRegions(arena, c)
      [] c.kind = "tree" -> CpuTree(arena, c)
      [] c.kind = "write" -> [rows |-> [arena EXCEPT ![c.trial] =
                                           Materialize(arena[Base], c.seeds[1])],
                              result |-> <<>>, numbers |-> TRUE]
      [] c.kind = "load" -> [rows |-> [arena EXCEPT ![c.trial] = c.row],
                             result |-> <<c.row>>, numbers |-> TRUE]

AgreesWith(cpu) ==
    cpu.numbers => /\ rows = cpu.rows
                   /\ ~torn => result = cpu.result

\* A pass on the device that meets no code the CPU decodes to NaN or an
\* infinity is the pass on the CPU: for integers and FP4 always, for FP8 as
\* long as neither a record nor a candidate holds one of those codes, which
\* the kernels take for numbers.  It chooses the candidates the CPU chooses,
\* with their scores, for any order of workgroups, number of candidates and
\* history that does not fill the last batch, and whatever earlier calls left
\* in the buffers (metal_matches_cpu_trial_bytes).  Metal chooses for regions
\* what a search of its own would (metal_multi_tr_matches_independent_cpu_
\* regions), OpenCL what the CPU does, region after region.  And it changes no
\* row, besides that of a trial that is to be written: the center as it was,
\* perturbed by the chosen seed, also when it takes the center's own place
\* (write_trial, materialize).  The choice of OpenCL's tree is left out where
\* it reads freed centers.
PassIsTheCpus == pc = "returned" => AgreesWith(OnCpu(before, whole))
=============================================================================
