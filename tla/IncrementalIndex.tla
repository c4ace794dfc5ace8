--------------------------- MODULE IncrementalIndex ---------------------------
(***************************************************************************)
(* The rows of a disk backend, the fragments that index a prefix of them   *)
(* and the search over both (bpann/src: backend.rs, index/sync.rs,         *)
(* small_n_search.rs, large_n_search.rs).  Row r is x[r + 1].  One handle, *)
(* one caller; FlushController has the threads, DiskStore the files.       *)
(***************************************************************************)
EXTENDS PageTree

CONSTANTS Points,            \* where rows and queries may lie
          Scales,            \* the column scales a caller may set
          MaxRows,           \* bound: rows of a model
          MaxBatch,          \* bound: rows of one append
          RowLimit,          \* span indexed as one leaf (1024); twice that, as one tree
          MidMax,            \* largest span indexed as a forest with vectors (10000)
          MidLeaf,           \* rows of its leaves (256)
          SoftThreshold, HardThreshold,  \* pending rows that trigger a sync (250, 3000)
          CompactSmall,      \* rows up to which one fragment is wanted (1000)
          CompactRows, CompactMin, CompactMax,  \* rows per fragment and its clamp
          MergeSmall,        \* rows of a fragment that is cheap to merge (15000)
          SearchRows, SearchBudget,  \* rows per searched fragment, fragments searched
          SmallN             \* rows up to which a search scans a cache (8192)

ASSUME IncrementalIndexAssumption ==
    /\ Points \subseteq Nat /\ Points # {} /\ Scales \subseteq Nat \ {0} /\ Scales # {}
    /\ MaxRows \in Nat /\ SmallN \in Nat
    /\ {MaxBatch, RowLimit, MidLeaf, CompactRows, MergeSmall, SearchRows, SearchBudget}
           \subseteq Nat \ {0}
    /\ SoftThreshold \in Nat \ {0} /\ HardThreshold \in Nat /\ HardThreshold >= SoftThreshold
    /\ CompactMin \in Nat \ {0} /\ CompactMax \in Nat /\ CompactMax >= CompactMin

VARIABLES x,             \* the rows stored
          scale,         \* the column scale; 1 is scale_x = false
          indices,       \* the fragments, in row order
          indexed_rows,  \* the prefix they cover
          pending,       \* the rows summed up in the pending centroid
          pending_unindexed,
          cache,         \* the scaled rows of the last small search
          defer          \* appends leave the soft threshold to the flush worker

vars == <<x, scale, indices, indexed_rows, pending, pending_unindexed, cache, defer>>

NoCache == <<>>

Val(rows, s) == [r \in 0..(Len(rows) - 1) |-> rows[r + 1] \div s]

-----------------------------------------------------------------------------
\* Compaction.

IndexCompactThreshold(rows) ==
    IF rows <= CompactSmall THEN 1
    ELSE Max({CompactMin, Min({CompactMax, rows \div CompactRows})})

\* The run of n fragments with the fewest rows, runs of small ones first.
SmallestRun(frags, n) ==
    LET starts == 1..(Len(frags) - n + 1)
        upTo == Sums([j \in DOMAIN frags |-> frags[j].rows])
        Rows(i) == upTo[i + n - 1] - upTo[i - 1]
        Small(i) == \A j \in i..(i + n - 1) : frags[j].rows <= MergeSmall
        Before(i, j) == \/ Small(i) /\ ~Small(j)
                        \/ Small(i) = Small(j) /\ Rows(i) < Rows(j)
    IN  CHOOSE i \in starts : /\ \A j \in starts : ~Before(j, i)
                              /\ \A j \in 1..(i - 1) : Before(i, j)

\* One round of compaction.
AmalgamateSmallestRun(frags, n, val) ==
    LET i == SmallestRun(frags, n)
    IN  SubSeq(frags, 1, i - 1) \o <<ConcatMerge(SubSeq(frags, i, i + n - 1), val)>>
          \o SubSeq(frags, i + n, Len(frags))

\* The rounds of the loop: each leaves fewer fragments, as long as there are
\* more than max.
Compact(frags, max, val) ==
    LET MergeN(over) == Min({Max({2, Min({4, over - max})}), over})
        round[r \in 0..Len(frags)] ==
            IF r = 0 THEN frags
            ELSE IF Len(round[r - 1]) <= max THEN round[r - 1]
            ELSE AmalgamateSmallestRun(round[r - 1], MergeN(Len(round[r - 1])), val)
    IN  round[Len(frags)]

\* Mutant: the slack above the limit is off by one.
MaybeCompactLate(frags, rows, val) ==
    LET max == IndexCompactThreshold(rows)
    IN  IF Len(frags) > Max({2 * max, max + 1}) + 1 THEN Compact(frags, max, val) ELSE frags

MaybeCompact(frags, rows, val) ==
    LET max == IndexCompactThreshold(rows)
    IN  IF Len(frags) > Max({2 * max, max + 1}) THEN Compact(frags, max, val) ELSE frags

-----------------------------------------------------------------------------
\* Soft sync.

\* The fragments that may be built for rows start..end-1; noted are the rows
\* in the pending centroid, which places a single leaf.
BuildSpan(start, end, noted, val) ==
    LET ids == [i \in 1..(end - start) |-> start + i - 1]
        span == end - start
    IN  IF span <= RowLimit
          THEN {BuildRowIdsLeaf(ids, IF noted = {} THEN ToSet(ids) ELSE noted)}
        ELSE IF span <= 2 * RowLimit THEN BuildFromRows(ids, val)
        ELSE IF span <= MidMax THEN {BuildForest(start, end, MidLeaf, TRUE, val)}
        ELSE {BuildForest(start, end, RowLimit, FALSE, val)}

\* What the fragments become when rows from..Len(rows)-1 are indexed.
Synced(frags, from, noted, rows, s) ==
    LET val == Val(rows, s)
    IN  {MaybeCompact(Append(frags, f), Len(rows), val) :
            f \in BuildSpan(from, Len(rows), noted, val)}

\* Mutant: only the single-leaf path drains the pending centroid.
SyncLeavesPending(frags, from, noted, rows, s) ==
    /\ indexed_rows' = Len(rows)
    /\ pending_unindexed' = 0
    /\ IF from >= Len(rows) THEN indices' = frags /\ pending' = noted
       ELSE /\ indices' \in Synced(frags, from, noted, rows, s)
            /\ pending' = IF Len(rows) - from <= RowLimit THEN {} ELSE noted

\* The live index follows the rows: a sync of the whole tail, or nothing new.
EnsureSync(frags, from, noted, rows, s) ==
    /\ indexed_rows' = Len(rows)
    /\ pending_unindexed' = 0
    /\ IF from >= Len(rows) THEN indices' = frags /\ pending' = noted
       ELSE indices' \in Synced(frags, from, noted, rows, s) /\ pending' = {}

-----------------------------------------------------------------------------
\* Searching.

SearchFragmentBudget(count, rows) ==
    IF count <= 2 THEN count
    ELSE Min({Max({2, rows \div SearchRows}), count, SearchBudget})

SearchCandidates(frags, rows, q, k, val) ==
    LET budget == SearchFragmentBudget(Len(frags), rows)
        chosen == IF Len(frags) <= budget THEN frags
                  ELSE Take(RankBy(frags, [i \in DOMAIN frags |-> L2(q, RootCentroid(frags[i], val))]), budget)
        n == Max({Len(chosen), 1})
        perFragment == Max({k, (k * Len(frags) + n - 1) \div n})
        found == FlattenSeq([i \in DOMAIN chosen |->
                                SearchIndexCandidates(chosen[i], q, perFragment, val)])
    IN  TopK(found, k)

\* Mutant: the pool has no room for the row that is dropped.
PoolTooSmall(k, excludeNearest) == Min({k, Len(x)})

PoolK(k, excludeNearest) == IF excludeNearest THEN Min({k + 1, Len(x)}) ELSE Min({k, Len(x)})

\* Mutant: the brute-force leg starts one row late.
TailingLate == [i \in 1..(Len(x) - indexed_rows - 1) |-> indexed_rows + i]

Tailing == [i \in 1..(Len(x) - indexed_rows) |-> indexed_rows + i - 1]

SearchIndexedAndPending(q, k, excludeNearest) ==
    LET val == Val(x, scale)
        kEff == Min({k, Len(x)})
        poolK == PoolK(k, excludeNearest)
        indexK == IF excludeNearest THEN Max({poolK, 2 * kEff}) ELSE kEff
        legA == IF indexed_rows > 0 /\ indices # <<>>
                THEN SearchCandidates(indices, indexed_rows, q \div scale, Max({indexK, 1}), val)
                ELSE <<>>
        legB == TopK(Scored(Tailing, q \div scale, val), poolK)
    IN  MergeTopK(legA, legB, kEff, poolK, excludeNearest)

\* A small search reads scaled rows that an earlier search may have cached.
SmallCache == IF cache # NoCache /\ Len(cache) = Len(x) THEN cache
              ELSE [i \in DOMAIN x |-> x[i] \div scale]

SearchSmall(q, k, excludeNearest) ==
    LET ids == [i \in DOMAIN x |-> i - 1]
        val == [r \in 0..(Len(x) - 1) |-> SmallCache[r + 1]]
        leg == TopK(Scored(ids, q \div scale, val), PoolK(k, excludeNearest))
    IN  MergeTopK(leg, <<>>, Min({k, Len(x)}), PoolK(k, excludeNearest), excludeNearest)

\* The candidates found for a query; the caller gets them in a row of kEff
\* entries that are row 0 at distance 0 where there was no candidate.
Found(q, k, excludeNearest) == IF Len(x) <= SmallN THEN SearchSmall(q, k, excludeNearest)
                               ELSE SearchIndexedAndPending(q, k, excludeNearest)

Answer(q, k, excludeNearest) ==
    LET found == Found(q, k, excludeNearest)
    IN  [j \in 1..Min({k, Len(x)}) |-> IF j \in DOMAIN found THEN found[j] ELSE <<0, 0>>]

-----------------------------------------------------------------------------
Init == /\ x = <<>> /\ scale \in Scales /\ defer \in BOOLEAN
        /\ indices = <<>> /\ indexed_rows = 0
        /\ pending = {} /\ pending_unindexed = 0
        /\ cache = NoCache

\* append_rows: the rows are stored and noted, the cache is dropped and a
\* threshold that is reached syncs on the spot.
AppendRows(batch) ==
    LET rows == x \o batch
        noted == pending \cup Len(x)..(Len(rows) - 1)
        unindexed == pending_unindexed + Len(batch)
        due == \/ unindexed >= HardThreshold
               \/ ~defer /\ unindexed >= SoftThreshold
    IN  /\ Len(rows) <= MaxRows
        /\ x' = rows
        /\ cache' = NoCache
        /\ UNCHANGED <<scale, defer>>
        /\ IF due THEN EnsureSync(indices, indexed_rows, noted, rows, scale)
           ELSE /\ pending' = noted
                /\ pending_unindexed' = unindexed
                /\ UNCHANGED <<indices, indexed_rows>>

\* ensure_index_sync_with_scale: another scale starts the index over.
EnsureIndexSync(s) ==
    /\ scale' = s
    /\ IF s = scale THEN EnsureSync(indices, indexed_rows, pending, x, s)
       ELSE EnsureSync(<<>>, 0, {}, x, s)
    /\ UNCHANGED <<x, cache, defer>>

MarkIndexStale ==
    /\ indices' = <<>> /\ indexed_rows' = 0 /\ pending' = {}
    /\ pending_unindexed' = Len(x)
    /\ UNCHANGED <<x, scale, cache, defer>>

\* A search changes nothing but the cache of the small path.
Search ==
    /\ Len(x) \in 1..SmallN
    /\ cache' = SmallCache
    /\ UNCHANGED <<x, scale, indices, indexed_rows, pending, pending_unindexed, defer>>

\* A hard persist followed by opening the directory: everything is indexed,
\* merged into one fragment and read back.
PersistAndReopen ==
    /\ IF indexed_rows >= Len(x) THEN indices' = IF indices = <<>> THEN <<>>
                                                 ELSE <<ConcatMerge(indices, Val(x, scale))>>
       ELSE \E frags \in Synced(indices, indexed_rows, pending, x, scale) :
                indices' = <<ConcatMerge(frags, Val(x, scale))>>
    /\ indexed_rows' = Len(x) /\ pending' = {} /\ pending_unindexed' = 0
    /\ cache' = NoCache /\ defer' = TRUE
    /\ UNCHANGED <<x, scale>>

Next == \/ \E n \in 1..MaxBatch : \E batch \in [1..n -> Points] : AppendRows(batch)
        \/ \E s \in Scales : EnsureIndexSync(s)
        \/ MarkIndexStale
        \/ Search
        \/ PersistAndReopen

Spec == Init /\ [][Next]_vars

-----------------------------------------------------------------------------
\* Properties.

\* The state is what the fields of the handle can hold.
TypeOK == /\ x \in Seq(Points) /\ scale \in Scales /\ defer \in BOOLEAN
          /\ indexed_rows \in 0..Len(x)
          /\ pending \subseteq 0..(Len(x) - 1)
          /\ pending_unindexed = Len(x) - indexed_rows
          /\ \A i \in DOMAIN indices : indices[i].rows \in 1..Len(x)

\* sync_forest.rs:147-167, build.rs:164-260 and sync.rs:258-310 cut, renumber
\* and merge: whatever they did, the leaves of the fragments list the indexed
\* rows once each and in fragments that follow each other, every page has an
\* id of its own, and children and skip edges lead to pages of the fragment.
FragmentsWellFormed ==
    LET Rows(f) == UNION {ToSet(f.pages[i].ids) : i \in DOMAIN f.pages}
        Start(i) == Sums([j \in DOMAIN indices |-> indices[j].rows])[i - 1]
    IN  /\ Start(Len(indices) + 1) = indexed_rows
        /\ \A i \in DOMAIN indices :
               LET f == indices[i]
                   ids == PageIds(f)
               IN  /\ Rows(f) = Start(i)..(Start(i + 1) - 1)
                   /\ \A a, b \in DOMAIN f.pages : f.pages[a].id = f.pages[b].id => a = b
                   /\ \A a, b \in DOMAIN f.pages :
                          \A m \in DOMAIN f.pages[a].ids, n \in DOMAIN f.pages[b].ids :
                              f.pages[a].ids[m] = f.pages[b].ids[n] => a = b /\ m = n
                   /\ f.root \in ids
                   /\ \A p \in ToSet(f.pages) : ToSet(p.kids) \subseteq ids
                   /\ \A p \in DOMAIN f.skip : ToSet(f.skip[p]) \subseteq ids \ {p}

\* A fragment is placed by its centroid when a search skips the others.  The
\* sum that places a leaf is kept apart from the rows and drained by every
\* sync, so that a leaf is placed by rows of its own ("not poisoned by
\* already-indexed mass", sync.rs:358).
PlacedByOwnRows ==
    \A i \in DOMAIN indices : \A p \in ToSet(indices[i].pages) :
        IsLeaf(p) => p.of # {} /\ p.of \subseteq ToSet(p.ids)

\* Compaction keeps up with the fragments a sync adds, at every threshold.
FragmentsBounded ==
    LET max == IndexCompactThreshold(indexed_rows)
    IN  Len(indices) <= Max({2 * max, max + 1})

\* The reference: the k closest rows, after the closest one on demand.
Nearest(q, k, excludeNearest) ==
    LET all == TopK(Scored([i \in DOMAIN x |-> i - 1], q \div scale, Val(x, scale)), Len(x))
    IN  Take(IF excludeNearest /\ Len(all) > 1 THEN Tail(all) ELSE all, k)

\* The cache of a small search holds these rows under a scale that was
\* changed since: reset_index leaves it in place.
StaleCache == Len(cache) = Len(x) /\ \E i \in DOMAIN x : cache[i] # x[i] \div scale

EveryLeafScored == Len(indices) <= 2
                   /\ \A i \in DOMAIN indices : indices[i].rows <= ExhaustiveLimit

\* A search is approximate only where it says so: with at most two fragments
\* small enough to scan, or on the small path, the answer is the exact one,
\* whichever of the fragments, the tail and the cache each row comes from.
ExactWhenScanned ==
    (IF Len(x) <= SmallN THEN ~StaleCache ELSE EveryLeafScored) =>
        \A q \in Points, k \in 1..(Len(x) + 1), e \in BOOLEAN :
            Found(q, k, e) = Nearest(q, k, e)

\* The rows that wait for the index are never lost to a search: one that is
\* left out of the answer is no closer than any row in it.
TailNeverMissed ==
    Len(x) > SmallN =>
        \A q \in Points, k \in 1..Len(x) :
            LET found == Found(q, k, FALSE)
                Row(r) == <<r, L2(q \div scale, x[r + 1] \div scale)>>
            IN  \A r \in indexed_rows..(Len(x) - 1) :
                    \/ Contains(found, Row(r))
                    \/ Len(found) = k /\ \A i \in DOMAIN found : Better(found[i], Row(r))

\* kmeans.rs:148-186 splits until every group fits a leaf and draws again when
\* a split leaves one group: a sync has an outcome, and so returns, exactly
\* unless the rows of a one-tree span include more equal ones than a leaf holds.
SyncReturnsUnlessCrowded ==
    LET span == Len(x) - indexed_rows
        Crowd == \E r \in indexed_rows..(Len(x) - 1) :
                     Cardinality({t \in indexed_rows..(Len(x) - 1) : x[t + 1] \div scale = x[r + 1] \div scale})
                         > LeafCapacity
    IN  span > 0 =>
            (Synced(indices, indexed_rows, pending, x, scale) = {}
                <=> span > Max({RowLimit, LeafCapacity}) /\ span <= 2 * RowLimit /\ Crowd)

\* A search that follows the tree can end in any leaf it holds ("one
\* structured build_from_rows tree (better ask, slower tell)", sync.rs:203).
LeavesReachable ==
    \A i \in DOMAIN indices :
        LET f == indices[i]
            Kids(ids) == ids \cup UNION {ToSet(PageById(f, id).kids) : id \in ids}
            reach[n \in Nat] == IF n = 0 THEN {f.root} ELSE Kids(reach[n - 1])
        IN  reach[Len(f.pages)] = PageIds(f)
=============================================================================
