------------------------------- MODULE PageTree -------------------------------
(***************************************************************************)
(* One index of pages (bpann/src/index: page.rs, build.rs, sync_forest.rs, *)
(* search.rs): how it is built over rows, merged with others and searched. *)
(* val[r] is where row r lies.  A leaf names its rows and, in of, the rows *)
(* its centroid is the mean of; the copies of rows that a leaf may hold    *)
(* are left out, a row never changes.                                      *)
(***************************************************************************)
EXTENDS KMeans, TLC

CONSTANTS SkipNeighbors,        \* skip edges of a leaf (3)
          BeamWidth,            \* children a search follows (1)
          MaxCandidateLeaves,   \* leaves a search scores (384)
          ExhaustiveLimit,      \* rows up to which every leaf is scored (2500)
          SkipLimit             \* rows up to which skip edges are used (150000)

ASSUME PageTreeAssumption == /\ SkipNeighbors \in Nat
                             /\ BeamWidth \in Nat \ {0}
                             /\ MaxCandidateLeaves \in Nat \ {0}
                             /\ ExhaustiveLimit \in Nat \ {0}
                             /\ SkipLimit \in Nat
                             /\ SkipLimit >= ExhaustiveLimit

\* A candidate is a row and its distance; closer first, then the smaller row.
Better(a, b) == a[2] < b[2] \/ (a[2] = b[2] /\ a[1] < b[1])
Take(s, k) == SubSeq(s, 1, Min({k, Len(s)}))
TopK(s, k) ==
    LET Ahead(i) == {j \in DOMAIN s : Better(s[j], s[i]) \/ (s[j] = s[i] /\ j < i)}
        order == Ordered(DOMAIN s, [i \in DOMAIN s |-> Ahead(i)])
    IN  Take([i \in DOMAIN s |-> s[order[i]]], k)

\* The elements of s by their keys, those of equal key in their order.
RankBy(s, keys) ==
    LET Ahead(i) == {j \in DOMAIN s : keys[j] < keys[i] \/ (keys[j] = keys[i] /\ j < i)}
        order == Ordered(DOMAIN s, [i \in DOMAIN s |-> Ahead(i)])
    IN  [i \in DOMAIN s |-> s[order[i]]]

-----------------------------------------------------------------------------
\* Pages and the index that holds them.

Leaf(id, ids, of) == [id |-> id, ids |-> ids, of |-> of, kids |-> <<>>, centroids |-> <<>>]
Internal(id, kids, centroids) ==
    [id |-> id, ids |-> <<>>, of |-> {}, kids |-> kids, centroids |-> centroids]
IsLeaf(page) == page.kids = <<>>

Centroid(page, val) == IF IsLeaf(page) THEN Mean(val, page.of)
                       ELSE Mean(page.centroids, DOMAIN page.centroids)

Index(rows, root, pages, skip) == [rows |-> rows, root |-> root, pages |-> pages, skip |-> skip]
NoSkip == [id \in {} |-> <<>>]
PageIds(index) == {index.pages[i].id : i \in DOMAIN index.pages}
PageById(index, id) == CHOOSE page \in ToSet(index.pages) : page.id = id
LeavesOf(pages) == Chosen(pages, {i \in DOMAIN pages : IsLeaf(pages[i])})
Leaves(index) == LeavesOf(index.pages)
RootCentroid(index, val) == Centroid(PageById(index, index.root), val)

-----------------------------------------------------------------------------
\* Building.

\* A leaf of row ids, placed at the mean of the rows in of.
BuildRowIdsLeaf(ids, of) == Index(Len(ids), 0, <<Leaf(0, ids, of)>>, NoSkip)

\* A root over the leaves of a span cut every leafRows rows.  A leaf without
\* vectors is placed at its first row.
BuildForest(start, end, leafRows, vectors, val) ==
    LET count == (end - start + leafRows - 1) \div leafRows
        First(i) == start + (i - 1) * leafRows
        Ids(i) == [j \in 1..(Min({First(i) + leafRows, end}) - First(i)) |-> First(i) + j - 1]
        leaves == [i \in 1..count |->
                      Leaf(i, Ids(i), IF vectors THEN ToSet(Ids(i)) ELSE {First(i)})]
    IN  Index(end - start, 0,
              Append(leaves, Internal(0, [i \in 1..count |-> i],
                                      [i \in 1..count |-> Centroid(leaves[i], val)])),
              NoSkip)

\* The pages of one index after another: how many are before those of parts[i].
PagesBefore(parts, i) == Sums([j \in DOMAIN parts |-> Len(parts[j])])[i - 1]

\* The pages of a node over the pages of its children, numbered from 0 in
\* preorder: those of a child follow those of its siblings before it.
PartitionToPages(kids, val) ==
    LET Numbered(i, id) == 1 + PagesBefore(kids, i) + id
        Page(i, page) == [page EXCEPT !.id = Numbered(i, @),
                                      !.kids = [j \in DOMAIN @ |-> Numbered(i, @[j])]]
        node == Internal(0, [i \in DOMAIN kids |-> Numbered(i, kids[i][1].id)],
                         [i \in DOMAIN kids |-> Centroid(kids[i][1], val)])
    IN  <<node>> \o FlattenSeq([i \in DOMAIN kids |-> [j \in DOMAIN kids[i] |-> Page(i, kids[i][j])]])

\* The trees of rows whose split leaves clusters that smaller has trees of.  A
\* draw that leaves one cluster is drawn again one level down (the page of one
\* child this makes is left out): without a draw that splits there is no tree
\* and the code never returns.
SplitTrees(rows, smaller, val) ==
    LET Kids(cs) == {f \in [DOMAIN cs -> UNION {smaller[cs[i]] : i \in DOMAIN cs}] :
                         \A i \in DOMAIN cs : f[i] \in smaller[cs[i]]}
    IN  UNION {{PartitionToPages(kids, val) : kids \in Kids(cs)} :
                   cs \in {c \in Splits(rows, val) : Len(c) > 1}}

\* The partition trees of a batch, as their pages.  A cluster has fewer rows
\* than were split.
Trees(ids, val) ==
    LET trees[n \in 0..Len(ids)] ==
            [rows \in Seq(ToSet(ids)) |->
                IF Len(rows) <= LeafCapacity THEN {<<Leaf(0, rows, ToSet(rows))>>}
                ELSE IF n = 0 THEN {}
                ELSE SplitTrees(rows, trees[n - 1], val)]
    IN  trees[Len(ids)][ids]

\* The page a partition is entered by: the code takes the last page numbered.
PartitionRoot(pages) == pages[Len(pages)].id

NeedsSkipEdges(rows) == rows > ExhaustiveLimit /\ rows <= SkipLimit

BuildSkipEdges(pages, val) ==
    LET leaves == LeavesOf(pages)
        Others(id) == Chosen(leaves, {i \in DOMAIN leaves : leaves[i].id # id})
        Place(id) == Centroid(CHOOSE p \in ToSet(leaves) : p.id = id, val)
        Near(id) == LET others == Others(id)
                    IN  Take(RankBy([i \in DOMAIN others |-> others[i].id],
                                    [i \in DOMAIN others |-> L2(Place(id), Centroid(others[i], val))]),
                             SkipNeighbors)
    IN  [id \in {leaves[i].id : i \in DOMAIN leaves} |-> Near(id)]

BuildFromRows(ids, val) ==
    IF Len(ids) <= LeafCapacity THEN {BuildRowIdsLeaf(ids, ToSet(ids))}
    ELSE {Index(Len(ids), PartitionRoot(pages), pages,
                IF NeedsSkipEdges(Len(ids)) THEN BuildSkipEdges(pages, val) ELSE NoSkip) :
             pages \in Trees(ids, val)}

\* Mutant: pages are numbered from 0, the page of the new root.
RemapFromZero(parts, i, id) ==
    PagesBefore([j \in DOMAIN parts |-> parts[j].pages], i)
      + (CHOOSE j \in DOMAIN parts[i].pages : parts[i].pages[j].id = id) - 1

\* Several indexes under a new root: pages are renumbered from 1 in order.
RemapId(parts, i, id) ==
    1 + PagesBefore([j \in DOMAIN parts |-> parts[j].pages], i)
      + (CHOOSE j \in DOMAIN parts[i].pages : parts[i].pages[j].id = id) - 1

RemapPage(parts, i, page) ==
    [page EXCEPT !.id = RemapId(parts, i, @),
                 !.kids = [j \in DOMAIN @ |-> RemapId(parts, i, @[j])]]

MergedPages(parts) ==
    FlattenSeq([i \in DOMAIN parts |->
                   [j \in DOMAIN parts[i].pages |-> RemapPage(parts, i, parts[i].pages[j])]])

MergedRoot(parts, val) ==
    Internal(0, [i \in DOMAIN parts |-> RemapId(parts, i, parts[i].root)],
             [i \in DOMAIN parts |-> RootCentroid(parts[i], val)])

\* The pages with neighbours: each is a part and an id in it.
SkipPages(parts) ==
    LET known == UNION {DOMAIN parts[i].skip : i \in DOMAIN parts}
    IN  {e \in (DOMAIN parts) \X known :
            e[2] \in DOMAIN parts[e[1]].skip /\ parts[e[1]].skip[e[2]] # <<>>}

MergedSkip(parts) ==
    LET From(e) == RemapId(parts, e[1], e[2])
        To(e) == [j \in DOMAIN parts[e[1]].skip[e[2]] |-> RemapId(parts, e[1], parts[e[1]].skip[e[2]][j])]
    IN  [id \in {From(e) : e \in SkipPages(parts)} |-> To(CHOOSE e \in SkipPages(parts) : From(e) = id)]

ConcatMerge(parts, val) ==
    IF Len(parts) = 1 THEN parts[1]
    ELSE Index(Sums([i \in DOMAIN parts |-> parts[i].rows])[Len(parts)], 0,
               Append(MergedPages(parts), MergedRoot(parts, val)), MergedSkip(parts))
-----------------------------------------------------------------------------
\* Searching for the k rows closest to q.

Scored(ids, q, val) == [i \in DOMAIN ids |-> <<ids[i], L2(q, val[ids[i]])>>]
ScoreLeaves(leaves, q, val) ==
    FlattenSeq([i \in DOMAIN leaves |-> Scored(leaves[i].ids, q, val)])

SearchExhaustiveLeaves(index, q, k, val) == TopK(ScoreLeaves(Leaves(index), q, val), k)

\* The leaves below the root, following the closest children, no leaf twice.
\* No path is longer than there are pages.
CollectLeaves(index, q) ==
    LET Closest(page) == Take(RankBy(page.kids, [i \in DOMAIN page.kids |-> L2(q, page.centroids[i])]),
                              BeamWidth)
        below[n \in 0..Len(index.pages)] ==
            [id \in PageIds(index) |->
                LET page == PageById(index, id)
                IN  IF IsLeaf(page) THEN <<id>>
                    ELSE IF n = 0 THEN <<>>
                    ELSE FlattenSeq([i \in DOMAIN Closest(page) |-> below[n - 1][Closest(page)[i]]])]
        all == below[Len(index.pages)][index.root]
    IN  Chosen(all, {i \in DOMAIN all : \A j \in 1..(i - 1) : all[j] # all[i]})

\* Skip edges add leaves until there are MaxCandidateLeaves.
FollowSkipEdges(index, leaves) ==
    LET Edges(id) == IF id \in DOMAIN index.skip THEN index.skip[id] ELSE <<>>
        next == FlattenSeq([i \in DOMAIN leaves |-> Edges(leaves[i])])
        visited[n \in 0..Len(next)] ==
            IF n = 0 THEN leaves
            ELSE IF Len(visited[n - 1]) >= MaxCandidateLeaves \/ Contains(visited[n - 1], next[n])
                 THEN visited[n - 1]
            ELSE Append(visited[n - 1], next[n])
    IN  visited[Len(next)]

TruncateCandidates(index, leaves, q, val) ==
    IF Len(leaves) <= MaxCandidateLeaves THEN leaves
    ELSE Take(RankBy(leaves, [i \in DOMAIN leaves |->
                                 L2(q, Centroid(PageById(index, leaves[i]), val))]),
              MaxCandidateLeaves)

SearchIndex(index, q, k, useSkip, val) ==
    LET found == CollectLeaves(index, q)
        more == IF useSkip THEN FollowSkipEdges(index, found) ELSE found
        leaves == TruncateCandidates(index, more, q, val)
    IN  IF k = 0 THEN <<>>
        ELSE TopK(ScoreLeaves([i \in DOMAIN leaves |-> PageById(index, leaves[i])], q, val), k)

SearchIndexCandidates(index, q, k, val) ==
    IF index.rows <= ExhaustiveLimit THEN SearchExhaustiveLeaves(index, q, k, val)
    ELSE SearchIndex(index, q, k, index.rows <= SkipLimit, val)

\* Candidates of two sources: the first mention of a row counts, the closest
\* row is dropped on demand, then the list is cut to the pool and to the result.
MergeTopK(a, b, kOut, poolK, excludeNearest) ==
    LET both == a \o b
        first == Chosen(both, {i \in DOMAIN both : \A j \in 1..(i - 1) : both[j][1] # both[i][1]})
        ranked == TopK(first, Len(first))
        kept == IF excludeNearest /\ Len(ranked) > 1 THEN Tail(ranked) ELSE ranked
    IN  Take(Take(kept, poolK), kOut)
=============================================================================
