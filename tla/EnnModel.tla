------------------------------ MODULE EnnModel ------------------------------
(***************************************************************************)
(* The model on its in-memory backend and the neighbours its posteriors    *)
(* rest on (ennx/src/model.rs, backend/in_memory.rs, index.rs, knn, and    *)
(* posterior/neighbor.rs with tie_break.rs).  Callers share &self: each    *)
(* brings the index up to date and then searches it; an add is exclusive.  *)
(* Rows are points on a line.  A scale is identified with the number of    *)
(* rows whose moments it was computed from, 0 for ones.                    *)
(***************************************************************************)
EXTENDS Integers, Sequences, FiniteSets, Functions

CONSTANTS Threads, NoThread,
          Points,      \* where rows and queries may be
          MaxRows,     \* bound: rows of the model
          MaxNeighbors,\* bound: k_num_neighbors
          MaxFaults    \* bound: failures of the engine

ASSUME EnnModelAssumption ==
    /\ NoThread \notin Threads
    /\ Points \subseteq Int
    /\ MaxRows \in Nat \ {0} /\ MaxNeighbors \in Nat \ {0} /\ MaxFaults \in Nat

VARIABLES scaleX,   \* the option scale_x
          rows,     \* train_x
          scale,    \* x_scale of the model
          stale,    \* index_stale
          synced,   \* index_synced_obs
          index,    \* the engine: its rows and the scale they were divided by
          queryScale,\* x_scale of the index
          holder,   \* who holds index_stale or index_synced_obs
          pc,       \* where each thread is
          local,    \* what a search has read: n_train and x_scale
          answer,   \* the last answer, until anything else happens
          faults    \* failures so far

vars == <<scaleX, rows, scale, stale, synced, index, queryScale, holder, pc,
          local, answer, faults>>
model == <<scaleX, rows, scale>>
backend == <<stale, synced, index, queryScale>>

NoAnswer == [ids |-> <<>>, dists |-> <<>>, query |-> 0, k |-> 0, exclude |-> FALSE,
             whatif |-> <<>>]
NothingRead == [n |-> 0, scale |-> 0]
EmptyIndex == [rows |-> <<>>, scale |-> 0]

Least(a, b) == IF a < b THEN a ELSE b

-----------------------------------------------------------------------------
\* Neighbours.  A neighbour is a pair of a distance and an id; ids from 1.

Dist(p, q) == (p - q) * (p - q)

Before(a, b) == a[1] < b[1] \/ (a[1] = b[1] /\ a[2] < b[2])

Pair(train, query, id) == <<Dist(train[id], query), id>>

Pairs(train, query, ids) == {Pair(train, query, id) : id \in ids}

\* The pairs in order: the i-th has i - 1 before it.
Sorted(pairs) ==
    [i \in 1..Cardinality(pairs) |->
        CHOOSE p \in pairs : Cardinality({q \in pairs : Before(q, p)}) = i - 1]

\* All rows by distance, those that tie by id: topk_indices_from_row_dists.
Ranked(train, query) == Sorted(Pairs(train, query, DOMAIN train))

\* What an engine may return for k rows: the nearest ones, any of those that
\* tie at the last distance, sorted as faiss_pairs_from_row does.
Pools(train, query, k) ==
    LET cut == Ranked(train, query)[k][1]
        Chosen(ids) == /\ Cardinality(ids) = k
                       /\ \A id \in ids : Dist(train[id], query) <= cut
                       /\ \A id \in DOMAIN train \ ids : Dist(train[id], query) >= cut
    IN  {Sorted(Pairs(train, query, ids)) : ids \in {s \in SUBSET DOMAIN train : Chosen(s)}}

\* More than k rows lie no farther than the k-th of the pool, and the pool
\* does not show it.
NeedsRowScan(train, query, pool, k) ==
    /\ k >= 2
    /\ ~(Len(pool) > k /\ pool[k][1] = pool[k + 1][1])
    /\ pool[k - 1][1] = pool[k][1]
    /\ Cardinality({id \in DOMAIN train : Dist(train[id], query) <= pool[k][1]}) > k

\* exact_f64_batch_topk: one row more is asked for to see a tie at the end.
TopK(train, query, k, tieBreak) ==
    LET ask == IF tieBreak /\ k < Len(train) THEN k + 1 ELSE k
    IN  {IF tieBreak /\ NeedsRowScan(train, query, pool, k)
         THEN SubSeq(Ranked(train, query), 1, k)
         ELSE SubSeq(pool, 1, k) : pool \in Pools(train, query, ask)}

\* How many rows are searched for k neighbours among n.
SearchK(k, exclude, n) == Least(IF exclude THEN k + 1 ELSE k, n)

\* get_neighbor_data
Neighbors(train, query, k, exclude, tieBreak) ==
    LET searchK == SearchK(k, exclude, Len(train))
        first == IF exclude THEN 2 ELSE 1
    IN  {SubSeq(found, first, searchK) : found \in TopK(train, query, searchK, tieBreak)}

\* Mutant: the row that will be excluded is not searched for.
TrainKWithoutExcluded(k, exclude, whatif, n) == Least(k, n)

TrainK(k, exclude, whatif, n) == Least(SearchK(k, exclude, n + Len(whatif)), n)

\* get_conditional_neighbor_data: the what-if points are merged with the
\* nearest rows, their ids follow those of the rows.  Which of the points that
\* tie comes first is left open by the code; here it is the lower id.
Conditional(train, whatif, query, k, exclude, tieBreak) ==
    LET n == Len(train)
        trainK == TrainK(k, exclude, whatif, n)
        searchK == SearchK(k, exclude, n + Len(whatif))
        first == IF exclude THEN 2 ELSE 1
        added == {<<Dist(whatif[i], query), n + i>> : i \in DOMAIN whatif}
        Merged(found) == Sorted(Range(found) \cup added)
    IN  {SubSeq(Merged(found), first, Least(searchK, Len(found) + Len(whatif))) :
            found \in IF trainK = 0 THEN {<<>>} ELSE TopK(train, query, trainK, tieBreak)}

Answered(found, query, k, exclude, whatif) ==
    [ids |-> [i \in DOMAIN found |-> found[i][2]],
     dists |-> [i \in DOMAIN found |-> found[i][1]],
     query |-> query, k |-> k, exclude |-> exclude, whatif |-> whatif]

WhatIfs == {<<>>} \cup {<<p>> : p \in Points}

-----------------------------------------------------------------------------
ScaleOf(n) == IF scaleX THEN n ELSE 0

Init ==
    /\ scaleX \in BOOLEAN
    /\ rows \in UNION {[1..n -> Points] : n \in 0..1}
    /\ scale = ScaleOf(Len(rows))
    /\ stale = FALSE
    /\ synced = Len(rows)
    /\ index = [rows |-> rows, scale |-> scale]
    /\ queryScale = scale
    /\ holder = NoThread
    /\ pc = [t \in Threads |-> "idle"]
    /\ local = [t \in Threads |-> NothingRead]
    /\ answer = NoAnswer
    /\ faults = 0

Goes(t, place) == /\ pc' = [pc EXCEPT ![t] = place]
                  /\ answer' = NoAnswer

\* Mutant: mark_index_stale is left out.
MarkedNever == FALSE

\* mark_index_stale
Marked == scaleX

\* model.add: &mut self, nobody else is in a call.
Add == /\ \A t \in Threads : pc[t] = "idle"
       /\ \E batch \in UNION {[1..n -> Points] : n \in 1..2} :
              /\ Len(rows) + Len(batch) <= MaxRows
              /\ rows' = rows \o batch
       /\ scale' = ScaleOf(Len(rows'))
       /\ stale' = (stale \/ Marked)
       /\ answer' = NoAnswer
       /\ UNCHANGED <<scaleX, synced, index, queryScale, holder, pc, local, faults>>

\* A posterior, plain or conditional.  Without rows nothing is searched.
Begin(t) == /\ pc[t] = "idle"
            /\ rows # <<>>
            /\ Goes(t, "sync")
            /\ UNCHANGED <<model, backend, holder, local, faults>>

AnswerWithoutRows(t) ==
    /\ pc[t] = "idle" /\ rows = <<>>
    /\ \E query \in Points, k \in 1..MaxNeighbors, p \in Points :
           \E found \in Conditional(rows, <<p>>, query, k, FALSE, TRUE) :
               answer' = Answered(found, query, k, FALSE, <<p>>)
    /\ UNCHANGED <<model, backend, holder, pc, local, faults>>

-----------------------------------------------------------------------------
\* ensure_index_sync

Free == holder = NoThread

\* With scale_x the index is rebuilt when an add has marked it.
SyncScaled(t) ==
    /\ scaleX /\ pc[t] = "sync" /\ Free
    /\ IF stale THEN Goes(t, "rebuild") /\ holder' = t
       ELSE Goes(t, "len") /\ UNCHANGED holder
    /\ UNCHANGED <<model, backend, local, faults>>

\* Without it by its size; what a failed rebuild has lost is noticed there.
SyncPlain(t) ==
    /\ ~scaleX /\ pc[t] = "sync" /\ Free
    /\ LET have == Len(index.rows)
           known == Least(synced, have)
       IN  \/ /\ have # Len(rows) \/ (known = 0 /\ have > 0)
              /\ synced' = known
              /\ Goes(t, "rebuild") /\ holder' = t
              /\ UNCHANGED index
           \/ /\ have = Len(rows) /\ (known > 0 \/ have = 0)
              /\ synced' = Len(rows)
              /\ index' = [index EXCEPT !.rows = @ \o SubSeq(rows, known + 1, Len(rows))]
              /\ Goes(t, "len") /\ UNCHANGED holder
    /\ UNCHANGED <<model, stale, queryScale, local, faults>>

\* KnnBackend::rebuild, under the engine's lock: reset and add.
Rebuild(t) ==
    /\ pc[t] = "rebuild"
    /\ index' = [rows |-> rows, scale |-> scale]
    /\ Goes(t, "publish")
    /\ UNCHANGED <<model, stale, synced, queryScale, holder, local, faults>>

\* The reset fails, or the add after it.
RebuildFails(t) ==
    /\ pc[t] = "rebuild" /\ faults < MaxFaults
    /\ index' \in {index, EmptyIndex}
    /\ faults' = faults + 1
    /\ holder' = NoThread
    /\ Goes(t, "idle")
    /\ UNCHANGED <<model, stale, synced, queryScale, local>>

\* The scale of the queries, then the flag or the count.
Publish(t) ==
    /\ pc[t] = "publish"
    /\ queryScale' = scale
    /\ stale' = FALSE
    /\ synced' = Len(rows)
    /\ holder' = NoThread
    /\ Goes(t, "len")
    /\ UNCHANGED <<model, index, local, faults>>

-----------------------------------------------------------------------------
\* ENNIndex::search: the size, the scale and the rows under a lock each.

ReadLen(t) == /\ pc[t] = "len"
              /\ local' = [local EXCEPT ![t].n = Len(index.rows)]
              /\ Goes(t, "scale")
              /\ UNCHANGED <<model, backend, holder, faults>>

ReadScale(t) == /\ pc[t] = "scale"
                /\ local' = [local EXCEPT ![t].scale = queryScale]
                /\ Goes(t, "find")
                /\ UNCHANGED <<model, backend, holder, faults>>

\* An index without rows answers row 0 at an infinite distance, and rows and
\* a query of different scales have distances that mean nothing.
Usable(t) == /\ local[t].n = Len(rows) /\ index.rows = rows
             /\ index.scale = local[t].scale

Meaningless == <<<<-1, 1>>>>

Find(t) ==
    /\ pc[t] = "find"
    /\ \E query \in Points, k \in 1..MaxNeighbors, exclude, tieBreak \in BOOLEAN,
          whatif \in WhatIfs :
         /\ exclude => Len(rows) + Len(whatif) > 1
         /\ \E found \in IF ~Usable(t) THEN {Meaningless}
                         ELSE IF whatif = <<>>
                         THEN Neighbors(rows, query, k, exclude, tieBreak)
                         ELSE Conditional(rows, whatif, query, k, exclude, tieBreak) :
                answer' = Answered(found, query, k, exclude, whatif)
    /\ pc' = [pc EXCEPT ![t] = "idle"]
    /\ local' = [local EXCEPT ![t] = NothingRead]
    /\ UNCHANGED <<model, backend, holder, faults>>

Next == \/ Add
        \/ \E t \in Threads :
              \/ Begin(t) \/ AnswerWithoutRows(t)
              \/ SyncScaled(t) \/ SyncPlain(t)
              \/ Rebuild(t) \/ RebuildFails(t) \/ Publish(t)
              \/ ReadLen(t) \/ ReadScale(t) \/ Find(t)

Spec == Init /\ [][Next]_vars

-----------------------------------------------------------------------------
\* Types of the variables; a thread that rebuilds holds the lock.
TypeOK ==
    /\ scaleX \in BOOLEAN /\ stale \in BOOLEAN
    /\ rows \in Seq(Points) /\ Len(rows) <= MaxRows
    /\ {scale, queryScale, synced} \subseteq 0..Len(rows)
    /\ index \in [rows : Seq(Points), scale : 0..Len(rows)]
    /\ holder \in Threads \cup {NoThread}
    /\ pc \in [Threads -> {"idle", "sync", "rebuild", "publish", "len", "scale", "find"}]
    /\ \A t \in Threads : pc[t] \in {"rebuild", "publish"} <=> holder = t
    /\ local \in [Threads -> [n : 0..Len(rows), scale : 0..Len(rows)]]
    /\ faults \in 0..MaxFaults

\* The distances of the neighbours, whatever ties there are.
NearestDistances(points, query, k, exclude) ==
    LET ranked == Ranked(points, query)
        first == IF exclude THEN 2 ELSE 1
    IN  [i \in 1..Least(k, Len(points) + 1 - first) |-> ranked[i + first - 1][1]]

Distances(train, ids, query) ==
    [i \in DOMAIN ids |-> Dist(train[ids[i]], query)]

\* A posterior rests on the k nearest of all rows that were added, scaled as
\* the query is: no failed or concurrent rebuild, missed or repeated row and
\* no tie at the edge of the pool changes that (ensure_index_sync,
\* ENNIndex::search, exact_f64_batch_topk).
AnswersAreNearest ==
    answer.k > 0 /\ answer.whatif = <<>> =>
        /\ answer.dists = NearestDistances(rows, answer.query, answer.k, answer.exclude)
        /\ answer.dists = Distances(rows, answer.ids, answer.query)
        /\ IsInjective(answer.ids)

\* A conditional posterior rests on the neighbours it would have if the
\* what-if points had been added, for any number of rows and with the
\* nearest one excluded too (get_conditional_neighbor_data).
ConditionalIsAsAdded ==
    answer.k > 0 /\ answer.whatif # <<>> =>
        LET all == rows \o answer.whatif
        IN  /\ answer.dists = NearestDistances(all, answer.query, answer.k, answer.exclude)
            /\ answer.dists = Distances(all, answer.ids, answer.query)
            /\ IsInjective(answer.ids)
=============================================================================
