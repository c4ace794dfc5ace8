------------------------------- MODULE KnnScan -------------------------------
(***************************************************************************)
(* The engines of the in-memory index (ennx/src/knn): the exact search on  *)
(* the CPU, the scan of tiles of rows on Metal and OpenCL with its kernels *)
(* (metal_index.metal, opencl_index.cl), the search that tries both and    *)
(* keeps the faster, and the search through an approximate shortlist.      *)
(* They keep rows, buffers and choices from call to call.  Calls are those *)
(* of ENNIndex (index.rs).                                                 *)
(*                                                                         *)
(* Rows and queries are tuples of integers: no rounding, no overflow.  Row *)
(* ids are from 0.  What Faiss and USearch compute is external.            *)
(***************************************************************************)
EXTENDS Workgroup

CONSTANTS
    TileRows,   \* TILE_ROWS
    MaxK,       \* MAX_K
    Dim,        \* num_dim
    Expansion,  \* USearch: expansion_search
    Infinite,   \* INFINITY, and the id 0xffffffff that goes with it
    KnnScripts  \* bound: sequences of calls

ASSUME KnnScanAssumption ==
    /\ TileRows % Threads = 0 /\ MaxK \in 1..TileRows
    /\ Dim \in Nat \ {0} /\ Infinite \in Nat

MergeRows == 2 * TileRows

VARIABLES
    engine,    \* the engine the index has
    hostRows,  \* its rows, on the host
    deviceRows,\* the buffer of rows
    scratch,   \* Metal: query_capacity and k_capacity
    tileDistances, locals, results, \* the buffers of a search, by offset
    schedule,  \* Metal: which distance kernel it runs, 0 for not measured
    decisions, \* Auto: for a size of work, whether the GPU is used
    knnCalls,    \* the calls to come
    request,    \* the call under way
    phase,     \* its dispatch
    tile,      \* tile_start of the dispatch
    ran,       \* the workgroups that have run
    cpuAnswer, \* Auto: what the CPU found
    found      \* what the call returned

knnVars == <<engine, hostRows, deviceRows, scratch, tileDistances, locals, results, schedule,
             decisions, knnCalls, request, phase, tile, ran, cpuAnswer, found>>
store == <<hostRows, deviceRows>>
pass == <<tileDistances, locals, results>>
choices == <<schedule, decisions>>

Metals == {"metal", "agx"}
OnGpu == engine \in Metals \cup {"opencl", "auto"}

-----------------------------------------------------------------------------
\* Distances and their order.  A neighbor is a distance and an id.

\* squared_l2
SquaredL2(row, query) == MapThenSumSet(LAMBDA d : (row[d] - query[d]) * (row[d] - query[d]), 1..Dim)

\* distance_rows, distance_rows_2 and distance_rows_4: as many sums as lanes,
\* and the dimensions that do not fill all of them.
LaneDistance(lanes, row, query) ==
    LET full == (Dim \div lanes) * lanes
        Delta(d) == (row[d] - query[d]) * (row[d] - query[d])
        OfLane(lane) == MapThenSumSet(Delta, {d \in 1..full : d % lanes = lane})
    IN  MapThenSumSet(OfLane, 0..(lanes - 1)) + MapThenSumSet(Delta, (full + 1)..Dim)

\* before
Nearer(a, b) == a[1] < b[1] \/ (a[1] = b[1] /\ a[2] < b[2])

\* Of equal ones the later.
NearerOrLater(a, b) == a[1] < b[1] \/ (a[1] = b[1] /\ a[2] > b[2])

\* The k nearest of ids in an order.
NearestIn(Before(_, _), ids, query, k) ==
    LET all == {<<SquaredL2(hostRows[i + 1], query), i>> : i \in ids}
    IN  [n \in 1..Least(k, Cardinality(all)) |->
            CHOOSE a \in all : Cardinality({b \in all : Before(b, a)}) = n - 1]

NearestRows(ids, query, k) == NearestIn(Nearer, ids, query, k)

RowIds == 0..(Len(hostRows) - 1)

\* pad_neighbor_cols_to_search_k
PadNeighbors(list, searchK) ==
    [i \in 1..(IF Len(list) < searchK THEN searchK ELSE Len(list)) |->
        IF i <= Len(list) THEN list[i]
        ELSE <<Infinite, IF list = <<>> THEN 0 ELSE list[Len(list)][2]>>]

-----------------------------------------------------------------------------
\* Kernels.  Buffers are functions of offsets from 0.

QueryCount == Len(request.queries)
\* Never more than there are rows.
K == Least(request.searchK, Len(hostRows))

\* What does not hold a row any more, or not yet.
Nowhere == <<Infinite, Infinite>>

Fresh(n) == [o \in 0..(n - 1) |-> Nowhere]

\* A compare and exchange for each pair of a distance in the network.
ExchangeAll(values, size, stride) ==
    LET Lower(i) == (i \div stride) % 2 = 0
        Ascending(i) == (i \div size) % 2 = 0
        Swaps(i) == IF Ascending(i) THEN Nearer(values[i + stride], values[i])
                    ELSE Nearer(values[i], values[i + stride])
    IN  [i \in DOMAIN values |->
            IF Lower(i) THEN IF Swaps(i) THEN values[i + stride] ELSE values[i]
            ELSE IF Swaps(i - stride) THEN values[i - stride] ELSE values[i]]

\* The sorting network of local_topk and merge_topk.
BitonicSort(values, width) ==
    LET Sorted(at, size) == FoldLeft(LAMBDA now, stride : ExchangeAll(now, size, stride), at, Halves(size))
    IN  FoldLeft(Sorted, values, SelectSeq(Reverse(Halves(2 * width)), LAMBDA size : size >= 2))

\* distance_rows: a cell for each row a tile has room for.
CellDistance(cell, lanes) ==
    LET query == request.queries[cell \div TileRows + 1]
        row == tile + (cell % TileRows)
    IN  IF row < Len(hostRows) THEN LaneDistance(lanes, deviceRows[row], query) ELSE Infinite

LanesOf(kernel) == <<1, 2, 4>>[kernel]

\* local_topk of a query, counted from 0.
LocalTopK(q) ==
    LET filled(i) == tile + i < Len(hostRows)
        values == [i \in 0..(TileRows - 1) |->
                      IF filled(i) THEN <<tileDistances[q * TileRows + i], tile + i>> ELSE Nowhere]
    IN  BitonicSort(values, TileRows)

\* The width for n values, a power of two.
PowerFor(n) == CHOOSE w \in {2^i : i \in 0..n} : w >= n /\ (w = 1 \/ w \div 2 < n)

\* Mutant: room for the neighbors of one of the two lists.
NarrowMerge(k) == IF engine = "opencl" THEN MergeRows ELSE PowerFor(k)

\* merge_width; OpenCL always sorts all there is room for.
MergeWidth(k) == IF engine = "opencl" THEN MergeRows ELSE PowerFor(2 * k)

\* merge_topk
Merged(q) ==
    LET values == [i \in 0..(MergeWidth(K) - 1) |->
                      IF i < K THEN results[q * K + i]
                      ELSE IF i < 2 * K THEN locals[q * K + i - K] ELSE Nowhere]
    IN  BitonicSort(values, MergeWidth(K))

\* The first k of a group's values go to its part of a buffer.
WithFirst(buffer, q, values) ==
    [o \in DOMAIN buffer |-> IF o \div K = q /\ o < QueryCount * K THEN values[o % K] ELSE buffer[o]]

-----------------------------------------------------------------------------
\* Rows.

\* next_capacity
NextCapacity(n) == PowerFor(n)

\* The engines a driver stands for, with what the build has: KnnBackend::new.
KnnEngines(driver, built) ==
    CASE driver = "exact" -> {"faiss"}
      [] driver = "auto" -> IF "metal" \in built THEN {"auto"} ELSE {"faiss"}
      [] driver \in Metals -> IF "metal" \in built THEN {driver} ELSE {}
      [] driver \in {"opencl", "usearch"} -> {driver} \cap built

\* upload_rows
MetalUpload(rows) ==
    [i \in 0..(NextCapacity(Len(rows)) - 1) |-> IF i < Len(rows) THEN rows[i + 1] ELSE Nowhere]

OpenClUpload(rows) == [i \in 0..(Len(rows) - 1) |-> rows[i + 1]]

Upload(rows) == IF engine = "opencl" THEN OpenClUpload(rows) ELSE MetalUpload(rows)

KnnInit ==
    /\ engine \in UNION {KnnEngines(driver, built) :
                            driver \in {"exact", "auto", "metal", "agx", "opencl", "usearch"},
                            built \in SUBSET {"metal", "opencl", "usearch"}}
    /\ hostRows = <<>> /\ deviceRows = Upload(<<>>)
    /\ scratch = [queries |-> 0, k |-> 0]
    /\ tileDistances = <<>> /\ locals = <<>> /\ results = <<>>
    \* Auto falls back on the engine that has but one kernel.
    /\ schedule \in CASE engine = "metal" -> {1} [] engine = "auto" -> {0, 1} [] OTHER -> {0}
    /\ decisions = [b \in {} |-> FALSE]
    /\ knnCalls \in KnnScripts
    /\ request = Head(knnCalls)
    /\ phase = "idle" /\ tile = 0 /\ ran = {} /\ cpuAnswer = <<>> /\ found = <<>>

\* No answer.
Refusal == <<>>

\* check_rows: rows of another length.
Fits(c) == \A r \in DOMAIN c.queries : Len(c.queries[r]) = Dim

NextCall(kind) ==
    /\ phase \in {"idle", "returned"} /\ knnCalls # <<>>
    /\ Head(knnCalls).kind = kind
    /\ request' = Head(knnCalls) /\ knnCalls' = Tail(knnCalls)

RefuseRows ==
    /\ \E kind \in {"rebuild", "add", "search"} : NextCall(kind)
    /\ ~Fits(request')
    /\ phase' = "returned" /\ found' = Refusal
    /\ UNCHANGED <<engine, store, scratch, pass, choices, tile, ran, cpuAnswer>>

\* Reset, and rows again from the first id on.
Refilled(rows) == rows

\* Ids go on from the number of rows.
Appended(rows) == hostRows \o rows

\* Auto forgets what it has decided.
RebuildRows ==
    /\ NextCall("rebuild") /\ Fits(request')
    /\ hostRows' = Refilled(request'.queries)
    /\ deviceRows' = IF OnGpu THEN Upload(hostRows') ELSE deviceRows
    /\ decisions' = [b \in {} |-> FALSE]
    /\ phase' = "returned" /\ found' = <<>>
    /\ UNCHANGED <<engine, scratch, pass, schedule, tile, ran, cpuAnswer>>

\* MetalIndex::add: behind the rows there are, while there is room.
MetalAdded(all) ==
    IF Len(all) > Cardinality(DOMAIN deviceRows) THEN MetalUpload(all)
    ELSE [i \in DOMAIN deviceRows |->
             IF i \in Len(hostRows)..(Len(all) - 1) THEN all[i + 1] ELSE deviceRows[i]]

\* OpenClIndex::add
OpenClAdded(all) == OpenClUpload(all)

AddRows ==
    /\ NextCall("add") /\ Fits(request')
    /\ hostRows' = Appended(request'.queries)
    /\ deviceRows' = CASE ~OnGpu -> deviceRows
                       [] engine = "opencl" -> OpenClAdded(hostRows')
                       [] OTHER -> MetalAdded(hostRows')
    /\ phase' = "returned" /\ found' = <<>>
    /\ UNCHANGED <<engine, scratch, pass, choices, tile, ran, cpuAnswer>>

-----------------------------------------------------------------------------
\* Searches.

\* The neighbors an engine is asked for: K of the call that comes.
Asked == Least(request'.searchK, Len(hostRows))

\* A search that has rows to look through.
NextSearch == NextCall("search") /\ Fits(request') /\ hostRows # <<>>

\* No row: no engine is asked.
EmptySearch ==
    /\ NextCall("search") /\ Fits(request') /\ hostRows = <<>>
    /\ found' = [q \in DOMAIN request'.queries |-> PadNeighbors(<<>>, request'.searchK)]
    /\ phase' = "returned"
    /\ UNCHANGED <<engine, store, scratch, pass, choices, tile, ran, cpuAnswer>>

\* FaissBackend::search: of rows that tie the earlier or the later ones.
FaissLists(c, k) ==
    {[q \in DOMAIN c.queries |->
        PadNeighbors(IF later[q] THEN NearestIn(NearerOrLater, RowIds, c.queries[q], k)
                     ELSE NearestRows(RowIds, c.queries[q], k), c.searchK)] :
        later \in [DOMAIN c.queries -> BOOLEAN]}

FaissSearch ==
    /\ engine = "faiss" /\ NextSearch
    /\ found' \in FaissLists(request', Asked)
    /\ phase' = "returned"
    /\ UNCHANGED <<engine, store, scratch, pass, choices, tile, ran, cpuAnswer>>

\* shortlist_len
ShortlistLen(k) == Least(IF k > Expansion THEN k ELSE Expansion, Len(hostRows))

\* What the approximate index may find: the nearest rows, all of them when it
\* is exact, otherwise one may be missed or replaced by the next.
Shortlists(query, count) ==
    LET near == [i \in 1..Len(hostRows) |-> NearestRows(RowIds, query, Len(hostRows))[i][2]]
        first == {near[i] : i \in 1..count}
    IN  IF count = Len(hostRows) THEN {RowIds}
        ELSE {first} \cup UNION {{first \ {id}, (first \ {id}) \cup {near[count + 1]}} : id \in first}

\* rerank, and what has too few keys is an error.
Reranked(c, keys, k) ==
    IF \A q \in DOMAIN keys : Cardinality(keys[q]) >= k
    THEN [q \in DOMAIN keys |-> PadNeighbors(NearestRows(keys[q], c.queries[q], k), c.searchK)]
    ELSE Refusal

USearchSearch ==
    /\ engine = "usearch" /\ NextSearch
    /\ LET lists == [q \in DOMAIN request'.queries |->
                        Shortlists(request'.queries[q], ShortlistLen(Asked))]
       IN  \E keys \in [DOMAIN lists -> UNION Range(lists)] :
               /\ \A q \in DOMAIN lists : keys[q] \in lists[q]
               /\ found' = Reranked(request', keys, Asked)
    /\ phase' = "returned"
    /\ UNCHANGED <<engine, store, scratch, pass, choices, tile, ran, cpuAnswer>>

\* The size of the work as a power of two.
WorkBucket(c) ==
    LET work == Len(hostRows) * Len(c.queries) * Dim
    IN  CHOOSE b \in 0..work : 2^b <= work /\ work < 2^(b + 1)

\* Scratch::ensure: both capacities are set when one is too small.
ScratchFor(c, k) ==
    IF Len(c.queries) <= scratch.queries /\ k <= scratch.k THEN scratch
    ELSE [queries |-> NextCapacity(Len(c.queries)), k |-> NextCapacity(k)]

\* Runtime::schedule: all kernels agree, and any may be the fastest.
Fastest == 1..3

\* calibrate_distance
Calibrated == IF schedule = 0 THEN Fastest ELSE {schedule}

\* The buffers of MetalIndex::search: new ones when they have to be larger,
\* with init_results over the results.
MetalBuffers(c, k) ==
    LET cells == k * Len(c.queries)
        room == ScratchFor(c, k)
        Kept(buffer, n) == IF room = scratch THEN buffer ELSE Fresh(n)
        kept == Kept(results, room.queries * room.k)
    IN  /\ scratch' = room
        /\ tileDistances' = IF room = scratch THEN tileDistances
                            ELSE [o \in 0..(room.queries * TileRows - 1) |-> Infinite]
        /\ locals' = Kept(locals, room.queries * room.k)
        /\ results' = [o \in DOMAIN kept |-> IF o < cells THEN Nowhere ELSE kept[o]]

\* The buffers of OpenClIndex::search, new for every search.
OpenClBuffers(c, k) ==
    LET cells == k * Len(c.queries)
    IN  /\ tileDistances' = [o \in 0..(Len(c.queries) * TileRows - 1) |-> Infinite]
        /\ locals' = Fresh(cells)
        /\ results' = [o \in 0..(cells - 1) |-> <<Infinite, 0>>]

\* More neighbors than a workgroup sorts.
TooMany == OnGpu /\ Asked > MaxK

RefuseK ==
    /\ NextSearch /\ TooMany
    /\ engine = "auto" => ~(WorkBucket(request') \in DOMAIN decisions /\ ~decisions[WorkBucket(request')])
    /\ phase' = "returned" /\ found' = Refusal
    /\ UNCHANGED <<engine, store, scratch, pass, choices, tile, ran, cpuAnswer>>

FirstTile == phase' = "distance" /\ tile' = 0 /\ ran' = {}

MetalStart == MetalBuffers(request', Asked) /\ schedule' \in Calibrated /\ FirstTile

MetalSearch ==
    /\ engine \in Metals /\ NextSearch /\ ~TooMany
    /\ MetalStart
    /\ found' = <<>>
    /\ UNCHANGED <<engine, store, decisions, cpuAnswer>>

OpenClSearch ==
    /\ engine = "opencl" /\ NextSearch /\ ~TooMany
    /\ OpenClBuffers(request', Asked) /\ FirstTile
    /\ found' = <<>>
    /\ UNCHANGED <<engine, store, scratch, choices, cpuAnswer>>

\* Auto: as it was decided for work of that size, or both to decide.
AutoSearch ==
    /\ engine = "auto" /\ NextSearch
    /\ LET bucket == WorkBucket(request')
           decided == bucket \in DOMAIN decisions
       IN  IF decided /\ ~decisions[bucket]
           THEN /\ found' \in FaissLists(request', Asked)
                /\ phase' = "returned"
                /\ UNCHANGED <<scratch, pass, schedule, tile, ran, cpuAnswer>>
           ELSE /\ ~TooMany
                /\ cpuAnswer' \in IF decided THEN {<<>>} ELSE FaissLists(request', Asked)
                /\ MetalStart
                /\ found' = <<>>
    /\ UNCHANGED <<engine, store, decisions>>

\* A workgroup of a dispatch runs; the last one ends it.
RunOf(g, all, next, start) ==
    /\ g \in all \ ran
    /\ IF ran \cup {g} = all THEN ran' = {} /\ phase' = next /\ tile' = start
       ELSE ran' = ran \cup {g} /\ UNCHANGED <<phase, tile>>

CellGroups == 0..((QueryCount * TileRows) \div Threads - 1)

ScanGroup(g) ==
    /\ phase = "distance"
    /\ RunOf(g, CellGroups, "local", tile)
    /\ tileDistances' = [o \in DOMAIN tileDistances |->
                            IF o \div Threads = g
                            THEN CellDistance(o, LanesOf(IF engine = "opencl" THEN 1 ELSE schedule))
                            ELSE tileDistances[o]]
    /\ UNCHANGED <<engine, store, scratch, locals, results, choices, knnCalls, request,
                   cpuAnswer, found>>

LocalGroup(q) ==
    /\ phase = "local"
    /\ RunOf(q, 0..(QueryCount - 1), "merge", tile)
    /\ locals' = WithFirst(locals, q, LocalTopK(q))
    /\ UNCHANGED <<engine, store, scratch, tileDistances, results, choices, knnCalls,
                   request, cpuAnswer, found>>

\* The next tile, if rows are left.
MergeGroup(q) ==
    /\ phase = "merge"
    /\ LET after == tile + TileRows
       IN  RunOf(q, 0..(QueryCount - 1), IF after < Len(hostRows) THEN "distance" ELSE "read",
                 IF after < Len(hostRows) THEN after ELSE tile)
    /\ results' = WithFirst(results, q, Merged(q))
    /\ UNCHANGED <<engine, store, scratch, tileDistances, locals, choices, knnCalls,
                   request, cpuAnswer, found>>

\* What is read back, with columns up to search_k.
GpuAnswer == [q \in DOMAIN request.queries |->
                 PadNeighbors([i \in 1..K |-> results[(q - 1) * K + i - 1]], request.searchK)]

IdsOf(answer) == [q \in DOMAIN answer |-> [i \in DOMAIN answer[q] |-> answer[q][i][2]]]

\* Auto keeps the GPU for work of that size if it finds the same rows faster.
ReadScan ==
    /\ phase = "read" /\ phase' = "returned"
    /\ IF cpuAnswer = <<>> THEN found' = GpuAnswer /\ UNCHANGED decisions
       ELSE \E faster \in BOOLEAN :
               LET useGpu == IdsOf(cpuAnswer) = IdsOf(GpuAnswer) /\ faster
               IN  /\ decisions' = [b \in DOMAIN decisions \cup {WorkBucket(request)} |->
                                       IF b = WorkBucket(request) THEN useGpu ELSE decisions[b]]
                   /\ found' = IF useGpu THEN GpuAnswer ELSE cpuAnswer
    /\ cpuAnswer' = <<>>
    /\ UNCHANGED <<engine, store, scratch, pass, schedule, knnCalls, request, tile, ran>>

KnnNext ==
    \/ RefuseRows \/ RefuseK \/ RebuildRows \/ AddRows
    \/ EmptySearch \/ FaissSearch \/ USearchSearch \/ MetalSearch \/ OpenClSearch \/ AutoSearch
    \/ \E g \in CellGroups : ScanGroup(g)
    \/ \E q \in 0..(QueryCount - 1) : LocalGroup(q) \/ MergeGroup(q)
    \/ ReadScan

-----------------------------------------------------------------------------
\* Every engine answers a search with k rows that no other row is nearer
\* than, with their distances, however often rows were added in place,
\* replaced or uploaded again, whatever earlier and larger searches left in
\* the buffers, and whichever engine Auto has chosen for work of that size.
\* The kernels also take the earlier of rows that tie, across tiles too.  Of
\* USearch it holds when the shortlist is long enough to be all rows; the
\* columns beyond the rows repeat the last one (knn_backend_faiss_exact,
\* search_reranks_with_original_f64_rows).
NearestRowsFound ==
    (phase = "returned" /\ request.kind = "search" /\ found # Refusal) =>
        \A q \in DOMAIN request.queries :
            LET query == request.queries[q]
                exact == NearestRows(RowIds, query, K)
                ids == [i \in 1..K |-> found[q][i][2]]
            IN  /\ \A i, j \in 1..K : i # j => ids[i] # ids[j]
                /\ \A i \in 1..K : found[q][i] = <<SquaredL2(hostRows[ids[i] + 1], query), ids[i]>>
                /\ engine = "usearch" => \A i \in 2..K : Nearer(found[q][i - 1], found[q][i])
                /\ engine # "usearch" \/ ShortlistLen(K) = Len(hostRows) =>
                       \A i \in 1..K : found[q][i][1] = exact[i][1]
                /\ engine \in Metals \cup {"opencl"} => SubSeq(found[q], 1, K) = exact
                /\ Len(found[q]) = request.searchK
                /\ \A i \in (K + 1)..request.searchK :
                       found[q][i] = <<Infinite, IF K = 0 THEN 0 ELSE ids[K]>>
=============================================================================
