--------------------------- MODULE EnnModelProofs ---------------------------
(***************************************************************************)
(* The searches of the in-memory model meet the rows, whatever other       *)
(* callers do and a rebuild loses, and the neighbours they find are the    *)
(* nearest ones, whichever of the rows that tie the engine picks.          *)
(***************************************************************************)
EXTENDS SurrogateAsk, FiniteSetTheorems, SequenceTheorems, TLAPS

\* The engine, its count and both scales are those of the rows.
Settled == /\ index = [rows |-> rows, scale |-> scale]
           /\ queryScale = scale
           /\ IF scaleX THEN ~stale ELSE synced = Len(rows)

Reading(t) == pc[t] \in {"len", "scale", "find"}
Rebuilding(t) == pc[t] \in {"rebuild", "publish"}

\* Nobody reads while somebody rebuilds, and what is read is the engine of
\* these rows.
ReadersInv ==
    \A t \in Threads :
        /\ Reading(t) => Settled /\ holder = NoThread
        /\ pc[t] \in {"scale", "find"} => local[t].n = Len(rows)
        /\ pc[t] = "find" => local[t].scale = scale
        /\ pc[t] # "idle" => rows # <<>>

\* One thread rebuilds, and only what an add has marked.
RebuildInv ==
    \A t \in Threads :
        /\ Rebuilding(t) /\ scaleX => stale
        /\ pc[t] = "publish" => index = [rows |-> rows, scale |-> scale]

\* What ensure_index_sync takes for an index that is up to date is one.
SyncedInv ==
    /\ scale = ScaleOf(Len(rows))
    /\ Len(index.rows) <= Len(rows)
    /\ scaleX /\ ~stale => Settled
    /\ ~scaleX => /\ index.scale = 0 /\ queryScale = 0
                  /\ Len(index.rows) = Len(rows) /\ (\A t \in Threads : pc[t] # "publish")
                       => Settled

SyncInv == TypeOK /\ ReadersInv /\ RebuildInv /\ SyncedInv

EnnInv == SyncInv /\ AnswersAreNearest /\ ConditionalIsAsAdded

-----------------------------------------------------------------------------
\* Sorting.  Before is a strict order of pairs, and total: the i-th pair is the
\* one that i - 1 others are before.

LEMMA BeforeIsAnOrder ==
    ASSUME NEW p \in Int \X Int, NEW q \in Int \X Int, NEW r \in Int \X Int
    PROVE  /\ ~Before(p, p)
           /\ p # q => Before(p, q) \/ Before(q, p)
           /\ Before(p, q) /\ Before(q, r) => Before(p, r)
           /\ Before(p, q) => ~Before(q, p) /\ p[1] <= q[1]
<1>1. p[1] \in Int /\ p[2] \in Int /\ q[1] \in Int /\ q[2] \in Int /\ r[1] \in Int /\ r[2] \in Int
  OBVIOUS
<1>2. p # q => p[1] # q[1] \/ p[2] # q[2]
  OBVIOUS
<1>. QED
  BY <1>1, <1>2 DEF Before

\* How many are before p.
Rank(P, p) == Cardinality({q \in P : Before(q, p)})

LEMMA RankBelow ==
    ASSUME NEW P \in SUBSET (Int \X Int), IsFiniteSet(P), NEW p \in P
    PROVE  Rank(P, p) \in 0..(Cardinality(P) - 1)
<1> DEFINE B == {q \in P : Before(q, p)}
<1>1. p \notin B
  BY BeforeIsAnOrder
<1>2. B \in SUBSET P /\ B # P
  BY <1>1
<1>3. IsFiniteSet(B) /\ Cardinality(B) <= Cardinality(P) /\ (Cardinality(P) = Cardinality(B) => P = B)
  BY <1>2, FS_Subset
<1>4. Cardinality(B) \in Nat /\ Cardinality(P) \in Nat
  BY <1>3, FS_CardinalityType
<1>5. Rank(P, p) = Cardinality(B)
  BY DEF Rank
<1> HIDE DEF B
<1>. QED
  BY <1>2, <1>3, <1>4, <1>5

LEMMA RankGrows ==
    ASSUME NEW P \in SUBSET (Int \X Int), IsFiniteSet(P), NEW p \in P, NEW q \in P,
           Before(p, q)
    PROVE  Rank(P, p) < Rank(P, q)
<1> DEFINE B == {r \in P : Before(r, p)}
           C == {r \in P : Before(r, q)}
<1>1. B \in SUBSET C
  BY BeforeIsAnOrder
<1>2. p \in C /\ p \notin B
  BY BeforeIsAnOrder
<1>3. IsFiniteSet(C)
  BY FS_Subset
<1>4. IsFiniteSet(B)
  BY FS_Subset
<1>5. Cardinality(B) \in Nat /\ Cardinality(C) \in Nat
  BY <1>3, <1>4, FS_CardinalityType
<1>6. Rank(P, p) = Cardinality(B) /\ Rank(P, q) = Cardinality(C)
  BY DEF Rank
<1> HIDE DEF B, C
<1>7. Cardinality(B) <= Cardinality(C) /\ (Cardinality(C) = Cardinality(B) => C = B)
  BY <1>1, <1>3, FS_Subset
<1>. QED
  BY <1>2, <1>5, <1>6, <1>7

LEMMA RankIsReached ==
    ASSUME NEW P \in SUBSET (Int \X Int), IsFiniteSet(P), NEW i \in 0..(Cardinality(P) - 1)
    PROVE  \E p \in P : Rank(P, p) = i
<1> DEFINE n == Cardinality(P)
           f == [p \in P |-> Rank(P, p)]
           N == 0..(n - 1)
<1>1. n \in Nat
  BY FS_CardinalityType
<1>2. f \in [P -> N]
  BY RankBelow
<1>3. \A p, q \in P : f[p] = f[q] => p = q
  <2> SUFFICES ASSUME NEW p \in P, NEW q \in P, p # q PROVE f[p] # f[q]
    OBVIOUS
  <2>1. Before(p, q) \/ Before(q, p)
    BY BeforeIsAnOrder
  <2>2. Rank(P, p) \in Int /\ Rank(P, q) \in Int
    BY RankBelow
  <2>3. CASE Before(p, q)
    BY <2>2, <2>3, RankGrows
  <2>4. CASE Before(q, p)
    <3>1. Rank(P, q) < Rank(P, p)
      BY <2>4, RankGrows
    <3>. QED
      BY <2>2, <3>1
  <2>. QED
    BY <2>1, <2>3, <2>4
<1>4. IsFiniteSet(N) /\ Cardinality(N) = n
  BY <1>1, FS_Interval
<1> HIDE DEF f, N, n
<1>5. f \in Injection(P, N)
  BY <1>2, <1>3, Zenon DEF Injection, IsInjective
<1>6. f \in Surjection(P, N)
  BY <1>4, <1>5, FS_Injection DEF n
<1>7. \E p \in P : f[p] = i
  BY <1>6, Zenon DEF Surjection, N, n
<1>. QED
  BY <1>7 DEF f

LEMMA SortedIs ==
    ASSUME NEW P \in SUBSET (Int \X Int), IsFiniteSet(P)
    PROVE  /\ Cardinality(P) \in Nat
           /\ Sorted(P) \in [1..Cardinality(P) -> P]
           /\ \A i, j \in 1..Cardinality(P) : i < j => Before(Sorted(P)[i], Sorted(P)[j])
           /\ \A p \in P : \E i \in 1..Cardinality(P) : Sorted(P)[i] = p
<1> DEFINE n == Cardinality(P)
           s == Sorted(P)
<1>1. n \in Nat
  BY FS_CardinalityType
<1>2. s = [i \in 1..n |-> CHOOSE p \in P : Rank(P, p) = i - 1]
  BY Zenon DEF Sorted, Rank
<1>3. \A i \in 1..n : s[i] \in P /\ Rank(P, s[i]) = i - 1
  <2> TAKE i \in 1..n
  <2>1. i - 1 \in 0..(n - 1)
    BY <1>1
  <2>2. \E p \in P : Rank(P, p) = i - 1
    BY <2>1, RankIsReached
  <2>. QED
    BY <1>2, <2>2
<1> HIDE DEF s
<1>4. s \in [1..n -> P]
  BY <1>2, <1>3
<1>5. ASSUME NEW i \in 1..n, NEW j \in 1..n, i < j
      PROVE  Before(s[i], s[j])
  <2>1. s[i] \in P /\ s[j] \in P
    BY <1>3
  <2>2. Rank(P, s[i]) = i - 1 /\ Rank(P, s[j]) = j - 1
    BY <1>3
  <2>3. s[i] # s[j]
    BY <1>1, <1>5, <2>2
  <2>4. ~Before(s[j], s[i])
    <3> SUFFICES ASSUME Before(s[j], s[i]) PROVE FALSE
      OBVIOUS
    <3>1. Rank(P, s[j]) < Rank(P, s[i])
      BY <2>1, RankGrows
    <3>. QED
      BY <1>1, <1>5, <2>2, <3>1
  <2>. QED
    BY <2>1, <2>3, <2>4, BeforeIsAnOrder
<1>6. ASSUME NEW p \in P
      PROVE  \E i \in 1..n : s[i] = p
  <2> DEFINE i == Rank(P, p) + 1
  <2>1. Rank(P, p) \in 0..(n - 1)
    BY RankBelow
  <2>2. i \in 1..n /\ i - 1 = Rank(P, p)
    BY <1>1, <2>1
  <2>3. s[i] \in P /\ Rank(P, s[i]) = Rank(P, p)
    BY <1>3, <2>2
  <2>4. s[i] = p
    <3> SUFFICES ASSUME s[i] # p PROVE FALSE
      OBVIOUS
    <3>1. Before(s[i], p) \/ Before(p, s[i])
      BY <2>3, BeforeIsAnOrder
    <3>2. ~(Rank(P, p) < Rank(P, p))
      BY <2>1
    <3>3. CASE Before(s[i], p)
      <4>1. Rank(P, s[i]) < Rank(P, p)
        BY <2>3, <3>3, RankGrows
      <4>. QED
        BY <2>3, <3>2, <4>1
    <3>4. CASE Before(p, s[i])
      <4>1. Rank(P, p) < Rank(P, s[i])
        BY <2>3, <3>4, RankGrows
      <4>. QED
        BY <2>3, <3>2, <4>1
    <3>. QED
      BY <3>1, <3>3, <3>4
  <2>. QED
    BY <2>2, <2>4
<1>. QED
  BY <1>1, <1>4, <1>5, <1>6 DEF s

-----------------------------------------------------------------------------
\* The nearest.

\* i different things that are all among fewer than i.
Squeezed(s, r, i) ==
    /\ \A a, b \in 1..i : s[a] = s[b] => a = b
    /\ \A a \in 1..i : \E m \in 1..(i - 1) : r[m] = s[a]

LEMMA NoSqueeze ==
    ASSUME NEW s, NEW r, NEW i \in Nat, i # 0
    PROVE  ~Squeezed(s, r, i)
<1> SUFFICES ASSUME Squeezed(s, r, i) PROVE FALSE
  OBVIOUS
<1>0. /\ \A a, b \in 1..i : s[a] = s[b] => a = b
      /\ \A a \in 1..i : \E m \in 1..(i - 1) : r[m] = s[a]
  BY Zenon DEF Squeezed
<1> DEFINE S == 1..i
           T == 1..(i - 1)
           f == [a \in S |-> CHOOSE m \in T : r[m] = s[a]]
<1>1. IsFiniteSet(S) /\ Cardinality(S) = i
  BY FS_Interval
<1>2. IsFiniteSet(T) /\ Cardinality(T) = i - 1
  BY FS_Interval
<1>3. \A a \in S : f[a] \in T /\ r[f[a]] = s[a]
  BY <1>0
<1>4. f \in [S -> T]
  BY <1>3
<1>5. \A a, b \in S : s[a] = s[b] => a = b
  BY <1>0
<1>6. Cardinality(T) < Cardinality(S)
  BY <1>1, <1>2
<1> HIDE DEF S, T, f
<1>7. PICK a, b \in S : a # b /\ f[a] = f[b]
  BY <1>1, <1>2, <1>4, <1>6, FS_PigeonHole
<1>. QED
  BY <1>3, <1>5, <1>7

\* f lists k elements of R, once each and by distance, and none that it leaves
\* out is closer than one it lists.
Closest(f, k, R) ==
    /\ f \in [1..k -> R]
    /\ \A i, j \in 1..k : f[i] = f[j] => i = j
    /\ \A i, j \in 1..k : i <= j => f[i][1] <= f[j][1]
    /\ \A p \in R : (\A i \in 1..k : f[i] # p) => \A i \in 1..k : f[i][1] <= p[1]

\* However ties are settled, the distances are the same.
LEMMA NotCloser ==
    ASSUME NEW R \in SUBSET (Int \X Int), NEW k \in Nat, NEW f, NEW g,
           Closest(f, k, R), Closest(g, k, R), NEW i \in 1..k
    PROVE  g[i][1] <= f[i][1]
<1> SUFFICES ASSUME ~(g[i][1] <= f[i][1]) PROVE FALSE
  OBVIOUS
<1>1. /\ f \in [1..k -> R] /\ g \in [1..k -> R]
      /\ \A a, b \in 1..k : f[a] = f[b] => a = b
      /\ \A a, b \in 1..k : a <= b => f[a][1] <= f[b][1]
      /\ \A a, b \in 1..k : a <= b => g[a][1] <= g[b][1]
      /\ \A p \in R : (\A a \in 1..k : g[a] # p) => \A a \in 1..k : g[a][1] <= p[1]
  BY Zenon DEF Closest
<1>2. \A a \in 1..k : f[a] \in R /\ f[a][1] \in Int /\ g[a][1] \in Int
  BY <1>1
<1>3. ASSUME NEW a \in 1..i
      PROVE  \E m \in 1..(i - 1) : g[m] = f[a]
  <2>1. a \in 1..k /\ a <= i
    OBVIOUS
  <2>2. f[a][1] <= f[i][1] /\ f[a][1] < g[i][1]
    BY <1>1, <1>2, <2>1
  <2>3. \E m \in 1..k : g[m] = f[a]
    <3> SUFFICES ASSUME \A m \in 1..k : g[m] # f[a] PROVE FALSE
      OBVIOUS
    <3>1. f[a] \in R
      BY <1>2, <2>1
    <3>2. g[i][1] <= f[a][1]
      BY <1>1, <3>1, Zenon
    <3>. QED
      BY <1>2, <2>1, <2>2, <3>2
  <2>4. PICK m \in 1..k : g[m] = f[a]
    BY <2>3
  <2>5. ~(i <= m)
    BY <1>1, <1>2, <2>1, <2>2, <2>4
  <2>. QED
    BY <2>4, <2>5
<1>4. \A a, b \in 1..i : f[a] = f[b] => a = b
  BY <1>1
<1>5. \A a \in 1..i : \E m \in 1..(i - 1) : g[m] = f[a]
  BY <1>3
<1>6. Squeezed(f, g, i)
  BY <1>4, <1>5, Zenon DEF Squeezed
<1>7. i \in Nat /\ i # 0
  OBVIOUS
<1>. QED
  BY <1>6, <1>7, NoSqueeze

LEMMA SameDistances ==
    ASSUME NEW R \in SUBSET (Int \X Int), NEW k \in Nat, NEW f, NEW g,
           Closest(f, k, R), Closest(g, k, R), NEW i \in 1..k
    PROVE  f[i][1] = g[i][1]
<1>1. f[i] \in R /\ g[i] \in R
  BY DEF Closest
<1>2. f[i][1] <= g[i][1] /\ g[i][1] <= f[i][1]
  BY NotCloser
<1>. QED
  BY <1>1, <1>2

\* A sequence cut to its first elements.
LEMMA Prefix ==
    ASSUME NEW S, NEW n \in Nat, NEW s \in [1..n -> S], NEW k \in 0..n
    PROVE  /\ SubSeq(s, 1, k) \in [1..k -> S]
           /\ \A i \in 1..k : SubSeq(s, 1, k)[i] = s[i]
<1> DEFINE t == SubSeq(s, 1, k)
<1>1. \A i \in 1..k : s[i] \in S
  OBVIOUS
<1>2. t \in Seq(S) /\ Len(t) = (IF 1 <= k THEN k - 1 + 1 ELSE 0)
      /\ \A i \in 1..k-1+1 : t[i] = s[1 + i - 1]
  <2>1. 1 \in Int /\ k \in Int
    OBVIOUS
  <2>. QED
    BY <1>1, <2>1, SubSeqProperties
<1> HIDE DEF t
<1>3. Len(t) = k
  BY <1>2
<1>4. \A i \in 1..k : t[i] = s[i]
  BY <1>2
<1>5. t \in [1..k -> S]
  BY <1>2, <1>3
<1>. QED
  BY <1>4, <1>5 DEF t

\* The first of a sorted set, as far as those outside are no closer.
LEMMA FirstAreClosest ==
    ASSUME NEW R \in SUBSET (Int \X Int), NEW P \in SUBSET R, IsFiniteSet(P),
           NEW k \in 0..Cardinality(P),
           \A p \in R \ P : \A i \in 1..k : Sorted(P)[i][1] <= p[1]
    PROVE  Closest(SubSeq(Sorted(P), 1, k), k, R)
<1> DEFINE n == Cardinality(P)
           s == Sorted(P)
           f == SubSeq(s, 1, k)
<1>1. /\ n \in Nat
      /\ s \in [1..n -> P]
      /\ \A i, j \in 1..n : i < j => Before(s[i], s[j])
      /\ \A p \in P : \E i \in 1..n : s[i] = p
  BY SortedIs
<1>2. \A p \in R \ P : \A i \in 1..k : s[i][1] <= p[1]
  OBVIOUS
<1> HIDE DEF n, s
<1>3. k \in 0..n
  BY DEF n
<1>4. f \in [1..k -> P] /\ \A i \in 1..k : f[i] = s[i]
  BY <1>1, <1>3, Prefix
<1> HIDE DEF f
<1>5. \A i, j \in 1..n : i < j => s[i] # s[j] /\ s[i][1] <= s[j][1]
  <2> TAKE i, j \in 1..n
  <2>1. s[i] \in Int \X Int /\ s[j] \in Int \X Int
    BY <1>1
  <2>. QED
    BY <1>1, <2>1, BeforeIsAnOrder
<1>6. \A i \in 1..n : s[i][1] \in Int
  BY <1>1
<1>7. f \in [1..k -> R]
  BY <1>4
<1>8. \A i, j \in 1..k : f[i] = f[j] => i = j
  <2> SUFFICES ASSUME NEW i \in 1..k, NEW j \in 1..k, i # j PROVE f[i] # f[j]
    OBVIOUS
  <2>1. i \in 1..n /\ j \in 1..n /\ f[i] = s[i] /\ f[j] = s[j]
    BY <1>1, <1>3, <1>4
  <2>2. i < j \/ j < i
    OBVIOUS
  <2>. QED
    BY <1>5, <2>1, <2>2
<1>9. \A i, j \in 1..k : i <= j => f[i][1] <= f[j][1]
  <2> SUFFICES ASSUME NEW i \in 1..k, NEW j \in 1..k, i <= j PROVE f[i][1] <= f[j][1]
    OBVIOUS
  <2>1. i \in 1..n /\ j \in 1..n /\ f[i] = s[i] /\ f[j] = s[j]
    BY <1>1, <1>3, <1>4
  <2>2. i < j \/ i = j
    OBVIOUS
  <2>. QED
    BY <1>5, <1>6, <2>1, <2>2
<1>10. ASSUME NEW p \in R, \A i \in 1..k : f[i] # p, NEW i \in 1..k
       PROVE  f[i][1] <= p[1]
  <2>1. i \in 1..n /\ f[i] = s[i]
    BY <1>1, <1>3, <1>4
  <2>2. CASE p \in P
    <3>1. PICK j \in 1..n : s[j] = p
      BY <1>1, <2>2
    <3>2. ~(j <= k)
      BY <1>4, <1>10, <3>1
    <3>3. i < j
      BY <3>2
    <3>. QED
      BY <1>5, <2>1, <3>1, <3>3
  <2>3. CASE p \notin P
    BY <1>2, <2>1, <2>3
  <2>. QED
    BY <2>2, <2>3
<1>11. Closest(f, k, R)
  BY <1>7, <1>8, <1>9, <1>10, Zenon DEF Closest
<1>. QED
  BY <1>11 DEF f, s

-----------------------------------------------------------------------------
\* The pairs of the rows.

AllPairs(train, query) == Pairs(train, query, DOMAIN train)

LEMMA DistType ==
    ASSUME NEW p \in Points, NEW q \in Points
    PROVE  Dist(p, q) \in Int
<1>1. p \in Int /\ q \in Int
  BY EnnModelAssumption
<1>2. p - q \in Int
  BY <1>1
<1>. QED
  BY <1>2 DEF Dist

LEMMA PairOfId ==
    ASSUME NEW train \in Seq(Points), NEW query \in Points, NEW id \in DOMAIN train
    PROVE  /\ Pair(train, query, id) \in Int \X Int
           /\ Pair(train, query, id)[1] = Dist(train[id], query)
           /\ Pair(train, query, id)[2] = id
<1>1. train[id] \in Points /\ id \in Int
  OBVIOUS
<1>2. Dist(train[id], query) \in Int
  BY <1>1, DistType
<1>. QED
  BY <1>1, <1>2 DEF Pair

LEMMA PairsType ==
    ASSUME NEW train \in Seq(Points), NEW query \in Points, NEW ids \in SUBSET DOMAIN train
    PROVE  /\ Pairs(train, query, ids) \in SUBSET (Int \X Int)
           /\ Pairs(train, query, ids) \in SUBSET AllPairs(train, query)
           /\ IsFiniteSet(Pairs(train, query, ids))
           /\ Cardinality(Pairs(train, query, ids)) = Cardinality(ids)
<1> DEFINE P == Pairs(train, query, ids)
           f == [id \in ids |-> Pair(train, query, id)]
<1>1. P = {Pair(train, query, id) : id \in ids}
  BY DEF Pairs
<1>2. P \in SUBSET (Int \X Int)
  BY <1>1, PairOfId
<1>3. P \in SUBSET AllPairs(train, query)
  BY DEF Pairs, AllPairs
<1>4. IsFiniteSet(ids)
  <2>1. DOMAIN train = 1..Len(train) /\ Len(train) \in Nat
    OBVIOUS
  <2>2. IsFiniteSet(1..Len(train))
    BY <2>1, FS_Interval
  <2>. QED
    BY <2>1, <2>2, FS_Subset
<1>5. f \in [ids -> P] /\ \A p \in P : \E id \in ids : f[id] = p
  BY <1>1
<1>6. \A a, b \in ids : f[a] = f[b] => a = b
  <2> SUFFICES ASSUME NEW a \in ids, NEW b \in ids, f[a] = f[b] PROVE a = b
    OBVIOUS
  <2>1. Pair(train, query, a) = Pair(train, query, b)
    OBVIOUS
  <2>2. Pair(train, query, a)[2] = a /\ Pair(train, query, b)[2] = b
    BY PairOfId
  <2>. QED
    BY <2>1, <2>2
<1> HIDE DEF f, P
<1>7. f \in Bijection(ids, P)
  BY <1>5, <1>6, Zenon DEF Bijection, Injection, Surjection, IsInjective
<1>8. ExistsBijection(ids, P)
  BY <1>7, Zenon DEF ExistsBijection
<1>9. IsFiniteSet(P) /\ Cardinality(P) = Cardinality(ids)
  BY <1>4, <1>8, FS_Bijection
<1>. QED
  BY <1>2, <1>3, <1>9 DEF P

LEMMA AllPairsType ==
    ASSUME NEW train \in Seq(Points), NEW query \in Points
    PROVE  /\ AllPairs(train, query) \in SUBSET (Int \X Int)
           /\ IsFiniteSet(AllPairs(train, query))
           /\ Cardinality(AllPairs(train, query)) = Len(train)
           /\ \A p \in AllPairs(train, query) :
                  /\ p[2] \in DOMAIN train
                  /\ p[1] = Dist(train[p[2]], query)
<1>1. DOMAIN train = 1..Len(train) /\ Len(train) \in Nat
  OBVIOUS
<1>2. Cardinality(1..Len(train)) = Len(train)
  BY <1>1, FS_Interval
<1>3. DOMAIN train \in SUBSET DOMAIN train
  OBVIOUS
<1>4. /\ AllPairs(train, query) \in SUBSET (Int \X Int)
      /\ IsFiniteSet(AllPairs(train, query))
      /\ Cardinality(AllPairs(train, query)) = Cardinality(DOMAIN train)
  BY <1>3, PairsType DEF AllPairs
<1>5. ASSUME NEW p \in AllPairs(train, query)
      PROVE  p[2] \in DOMAIN train /\ p[1] = Dist(train[p[2]], query)
  <2>1. PICK id \in DOMAIN train : p = Pair(train, query, id)
    BY DEF AllPairs, Pairs
  <2>. QED
    BY <2>1, PairOfId
<1>. QED
  BY <1>1, <1>2, <1>4, <1>5

LEMMA RankedIsClosest ==
    ASSUME NEW train \in Seq(Points), NEW query \in Points, NEW k \in 0..Len(train)
    PROVE  Closest(SubSeq(Ranked(train, query), 1, k), k, AllPairs(train, query))
<1> DEFINE R == AllPairs(train, query)
<1>1. R \in SUBSET (Int \X Int) /\ IsFiniteSet(R) /\ Cardinality(R) = Len(train)
  BY AllPairsType
<1>2. Ranked(train, query) = Sorted(R)
  BY DEF Ranked, AllPairs
<1> HIDE DEF R
<1>3. R \in SUBSET R /\ k \in 0..Cardinality(R)
  BY <1>1
<1>4. \A p \in R \ R : \A i \in 1..k : Sorted(R)[i][1] <= p[1]
  OBVIOUS
<1>5. Closest(SubSeq(Sorted(R), 1, k), k, R)
  BY <1>1, <1>3, <1>4, FirstAreClosest
<1>. QED
  BY <1>2, <1>5 DEF R

\* Whatever ties the engine picked, and whether it was asked for one row more.
LEMMA PoolIsClosest ==
    ASSUME NEW train \in Seq(Points), NEW query \in Points,
           NEW ask \in 1..Len(train), NEW k \in 1..ask,
           NEW drawn \in Pools(train, query, ask)
    PROVE  Closest(SubSeq(drawn, 1, k), k, AllPairs(train, query))
<1> DEFINE R == AllPairs(train, query)
           cut == Ranked(train, query)[ask][1]
<1>1. PICK ids \in SUBSET DOMAIN train :
          /\ drawn = Sorted(Pairs(train, query, ids))
          /\ Cardinality(ids) = ask
          /\ \A id \in ids : Dist(train[id], query) <= cut
          /\ \A id \in DOMAIN train \ ids : Dist(train[id], query) >= cut
  BY Zenon DEF Pools
<1> DEFINE P == Pairs(train, query, ids)
<1>2. R \in SUBSET (Int \X Int)
  BY AllPairsType
<1>3. P \in SUBSET R /\ IsFiniteSet(P) /\ Cardinality(P) = ask
  BY <1>1, PairsType
<1>4. P \in SUBSET (Int \X Int)
  BY <1>2, <1>3
<1>5. k \in 0..Cardinality(P)
  BY <1>3
<1>6. cut \in Int
  <2>1. Ranked(train, query) = Sorted(R)
    BY DEF Ranked, AllPairs
  <2>2. IsFiniteSet(R) /\ Cardinality(R) = Len(train)
    BY AllPairsType
  <2> HIDE DEF R
  <2>3. Sorted(R) \in [1..Len(train) -> R]
    BY <1>2, <2>2, SortedIs
  <2>4. Sorted(R)[ask] \in Int \X Int
    BY <1>2, <2>3
  <2>. QED
    BY <2>1, <2>4
<1>7. \A i \in 1..k : Sorted(P)[i] \in P
  <2> HIDE DEF P
  <2>1. Sorted(P) \in [1..ask -> P]
    BY <1>3, <1>4, SortedIs
  <2>. QED
    BY <2>1
<1>8. ASSUME NEW p \in R \ P, NEW i \in 1..k
      PROVE  Sorted(P)[i][1] <= p[1]
  <2>1. PICK a \in ids : Sorted(P)[i] = Pair(train, query, a)
    BY <1>7 DEF Pairs
  <2>2. Sorted(P)[i][1] = Dist(train[a], query)
    BY <2>1, PairOfId
  <2>3. PICK b \in DOMAIN train : p = Pair(train, query, b)
    BY <1>8 DEF AllPairs, Pairs
  <2>4. b \notin ids
    BY <1>8, <2>3 DEF Pairs
  <2>5. p[1] = Dist(train[b], query)
    BY <2>3, PairOfId
  <2>6. Dist(train[a], query) <= cut /\ Dist(train[b], query) >= cut
    BY <1>1, <2>4
  <2>7. Dist(train[a], query) \in Int /\ Dist(train[b], query) \in Int
    BY DistType
  <2> HIDE DEF cut, P
  <2>. QED
    BY <1>6, <2>2, <2>5, <2>6, <2>7
<1> HIDE DEF P, R, cut
<1>9. Closest(SubSeq(Sorted(P), 1, k), k, R)
  BY <1>2, <1>3, <1>5, <1>8, FirstAreClosest
<1>. QED
  BY <1>1, <1>9 DEF P, R

LEMMA TopKIsClosest ==
    ASSUME NEW train \in Seq(Points), NEW query \in Points, NEW k \in 1..Len(train),
           NEW tieBreak \in BOOLEAN, NEW found \in TopK(train, query, k, tieBreak)
    PROVE  Closest(found, k, AllPairs(train, query))
<1> DEFINE ask == IF tieBreak /\ k < Len(train) THEN k + 1 ELSE k
<1>1. PICK drawn \in Pools(train, query, ask) :
          found = IF tieBreak /\ NeedsRowScan(train, query, drawn, k)
                  THEN SubSeq(Ranked(train, query), 1, k)
                  ELSE SubSeq(drawn, 1, k)
  BY Zenon DEF TopK
<1>2. ask \in 1..Len(train) /\ k \in 1..ask /\ k \in 0..Len(train)
  OBVIOUS
<1> HIDE DEF ask
<1>3. Closest(SubSeq(drawn, 1, k), k, AllPairs(train, query))
  BY <1>2, PoolIsClosest
<1>4. Closest(SubSeq(Ranked(train, query), 1, k), k, AllPairs(train, query))
  BY <1>2, RankedIsClosest
<1>5. CASE tieBreak /\ NeedsRowScan(train, query, drawn, k)
  BY <1>1, <1>4, <1>5
<1>6. CASE ~(tieBreak /\ NeedsRowScan(train, query, drawn, k))
  BY <1>1, <1>3, <1>6
<1>. QED
  BY <1>5, <1>6

-----------------------------------------------------------------------------
\* Answers.

\* What the two properties say of an answer, found among the rows of train.
Right(a, train) ==
    /\ a.dists = NearestDistances(train, a.query, a.k, a.exclude)
    /\ a.dists = Distances(train, a.ids, a.query)
    /\ IsInjective(a.ids)

\* The closest rows, without the first one on demand, are the answer.
LEMMA ClosestIsRight ==
    ASSUME NEW train \in Seq(Points), NEW query \in Points, NEW k \in Nat \ {0},
           NEW exclude \in BOOLEAN, NEW whatif, NEW found, Len(train) # 0,
           exclude => Len(train) > 1,
           Closest(found, SearchK(k, exclude, Len(train)), AllPairs(train, query))
    PROVE  Right(Answered(SubSeq(found, IF exclude THEN 2 ELSE 1,
                                 SearchK(k, exclude, Len(train))),
                          query, k, exclude, whatif), train)
<1> DEFINE n == Len(train)
           K == SearchK(k, exclude, n)
           R == AllPairs(train, query)
           first == IF exclude THEN 2 ELSE 1
           g == SubSeq(found, first, K)
           len == Least(k, n + 1 - first)
           ranked == Ranked(train, query)
           a == Answered(g, query, k, exclude, whatif)
<1>1. n \in Nat \ {0}
  OBVIOUS
<1>2. /\ K \in 1..n /\ K - first + 1 = len /\ first <= K /\ first \in {1, 2} /\ len \in Nat
  <2>1. n \in Nat /\ n >= 1 /\ k \in Nat /\ k >= 1
    BY <1>1
  <2>2. CASE exclude
    <3>1. n > 1 /\ first = 2 /\ K = (IF k + 1 < n THEN k + 1 ELSE n)
      BY <2>2 DEF SearchK, Least
    <3>2. len = IF k < n + 1 - 2 THEN k ELSE n + 1 - 2
      BY <2>2 DEF Least
    <3> HIDE DEF n, K, first, len
    <3>. QED
      BY <2>1, <3>1, <3>2
  <2>3. CASE ~exclude
    <3>1. first = 1 /\ K = (IF k < n THEN k ELSE n)
      BY <2>3 DEF SearchK, Least
    <3>2. len = IF k < n + 1 - 1 THEN k ELSE n + 1 - 1
      BY <2>3 DEF Least
    <3> HIDE DEF n, K, first, len
    <3>. QED
      BY <2>1, <3>1, <3>2
  <2>. QED
    BY <2>2, <2>3
<1>3. R \in SUBSET (Int \X Int) /\ \A p \in R : p[2] \in DOMAIN train /\ p[1] = Dist(train[p[2]], query)
  BY AllPairsType
<1>4. Closest(SubSeq(ranked, 1, K), K, R)
  <2>1. K \in 0..Len(train)
    BY <1>2
  <2> HIDE DEF K, n
  <2>. QED
    BY <2>1, RankedIsClosest
<1>5. Closest(found, K, R)
  OBVIOUS
<1>6. NearestDistances(train, query, k, exclude) = [i \in 1..len |-> ranked[i + first - 1][1]]
  BY DEF NearestDistances
<1>7. a = [ids |-> [i \in DOMAIN g |-> g[i][2]], dists |-> [i \in DOMAIN g |-> g[i][1]],
           query |-> query, k |-> k, exclude |-> exclude, whatif |-> whatif]
  BY DEF Answered
<1>8. ranked \in [1..n -> R]
  <2>1. IsFiniteSet(R) /\ Cardinality(R) = n
    BY AllPairsType
  <2>2. ranked = Sorted(R)
    BY DEF Ranked, AllPairs
  <2> HIDE DEF R, ranked, n
  <2>. QED
    BY <1>3, <2>1, <2>2, SortedIs
<1> HIDE DEF n, K, R, first, g, len, ranked, a
<1>9. found \in [1..K -> R] /\ \A i, j \in 1..K : found[i] = found[j] => i = j
  BY <1>5, Zenon DEF Closest
<1>10. \A i \in 1..K : found[i][1] = ranked[i][1]
  <2> TAKE i \in 1..K
  <2>1. K \in Nat /\ K \in 0..n /\ n \in Nat
    BY <1>1, <1>2
  <2> DEFINE h == SubSeq(ranked, 1, K)
  <2>3. h[i] = ranked[i]
    BY <1>8, <2>1, Prefix
  <2>4. Closest(h, K, R)
    BY <1>4
  <2> HIDE DEF h
  <2>2. found[i][1] = h[i][1]
    BY <1>3, <1>5, <2>1, <2>4, SameDistances
  <2>. QED
    BY <2>2, <2>3
<1>11. DOMAIN g = 1..len /\ \A i \in 1..len : g[i] = found[i + first - 1] /\ i + first - 1 \in 1..K
  <2>1. \A i \in first..K : found[i] \in R
    BY <1>2, <1>9
  <2>2. first \in Int /\ K \in Int
    BY <1>2
  <2>3. /\ g \in Seq(R) /\ Len(g) = (IF first <= K THEN K - first + 1 ELSE 0)
        /\ \A i \in 1..K - first + 1 : g[i] = found[first + i - 1]
    BY <2>1, <2>2, SubSeqProperties DEF g
  <2>4. DOMAIN g = 1..len
    BY <1>2, <2>3
  <2>5. \A i \in 1..len : first + i - 1 = i + first - 1 /\ i + first - 1 \in 1..K
    BY <1>2
  <2>. QED
    BY <1>2, <2>3, <2>4, <2>5
<1>12. a.dists = NearestDistances(train, query, k, exclude)
  <2>1. \A i \in 1..len : g[i][1] = ranked[i + first - 1][1]
    BY <1>10, <1>11
  <2>2. a.dists = [i \in 1..len |-> g[i][1]]
    BY <1>7, <1>11
  <2>. QED
    BY <1>6, <2>1, <2>2
<1>13. \A i \in 1..len : g[i] \in R
  BY <1>9, <1>11
<1>14. a.ids = [i \in 1..len |-> g[i][2]]
  BY <1>7, <1>11
<1>15. a.dists = Distances(train, a.ids, query)
  <2>1. Distances(train, a.ids, query) = [i \in 1..len |-> Dist(train[a.ids[i]], query)]
    BY <1>14 DEF Distances
  <2>2. \A i \in 1..len : g[i][1] = Dist(train[a.ids[i]], query)
    BY <1>3, <1>13, <1>14
  <2>3. a.dists = [i \in 1..len |-> g[i][1]]
    BY <1>7, <1>11
  <2>. QED
    BY <2>1, <2>2, <2>3
<1>16. IsInjective(a.ids)
  <2> SUFFICES ASSUME NEW i \in 1..len, NEW j \in 1..len, a.ids[i] = a.ids[j] PROVE i = j
    BY <1>14 DEF IsInjective
  <2>1. g[i] \in R /\ g[j] \in R /\ g[i][2] = g[j][2]
    BY <1>13, <1>14
  <2>2. g[i][1] = g[j][1]
    BY <1>3, <2>1
  <2>3. g[i] = g[j]
    BY <1>3, <2>1, <2>2
  <2>4. i + first - 1 = j + first - 1
    BY <1>9, <1>11, <2>3
  <2>. QED
    BY <1>2, <2>4
<1>17. a.query = query /\ a.k = k /\ a.exclude = exclude
  BY <1>7
<1>18. Right(a, train)
  BY <1>12, <1>15, <1>16, <1>17 DEF Right
<1>. QED
  BY <1>18 DEF a, g, first, K, n

LEMMA NeighborsAreRight ==
    ASSUME NEW train \in Seq(Points), NEW query \in Points, NEW k \in Nat \ {0},
           NEW exclude \in BOOLEAN, NEW tieBreak \in BOOLEAN, Len(train) # 0,
           exclude => Len(train) > 1,
           NEW found \in Neighbors(train, query, k, exclude, tieBreak), NEW whatif
    PROVE  Right(Answered(found, query, k, exclude, whatif), train)
<1> DEFINE K == SearchK(k, exclude, Len(train))
           first == IF exclude THEN 2 ELSE 1
<1>1. PICK all \in TopK(train, query, K, tieBreak) : found = SubSeq(all, first, K)
  BY Zenon DEF Neighbors
<1>2. K \in 1..Len(train)
  BY DEF SearchK, Least
<1> HIDE DEF K
<1>3. Closest(all, K, AllPairs(train, query))
  BY <1>2, TopKIsClosest
<1>. QED
  BY <1>1, <1>3, ClosestIsRight DEF K

-----------------------------------------------------------------------------
\* What-if points.

\* Merged with the nearest rows, as many as are wanted or all there are, they
\* give the nearest of both.
LEMMA MergedIsClosest ==
    ASSUME NEW R \in SUBSET (Int \X Int), NEW A \in SUBSET (Int \X Int),
           IsFiniteSet(R), IsFiniteSet(A), NEW t \in Nat, NEW found, Closest(found, t, R),
           NEW k \in 0..Cardinality(Range(found) \cup A),
           t = k \/ t = Cardinality(R)
    PROVE  Closest(SubSeq(Sorted(Range(found) \cup A), 1, k), k, R \cup A)
<1> DEFINE P == Range(found) \cup A
           s == Sorted(P)
<1>1. /\ found \in [1..t -> R]
      /\ \A i, j \in 1..t : found[i] = found[j] => i = j
      /\ \A p \in R : (\A i \in 1..t : found[i] # p) => \A i \in 1..t : found[i][1] <= p[1]
  BY Zenon DEF Closest
<1>2. Range(found) = {found[i] : i \in 1..t}
  BY <1>1 DEF Range
<1>3. P \in SUBSET (R \cup A) /\ P \in SUBSET (Int \X Int) /\ R \cup A \in SUBSET (Int \X Int)
  BY <1>1, <1>2
<1>4. IsFiniteSet(P)
  <2>1. IsFiniteSet(R \cup A)
    BY FS_Union
  <2>. QED
    BY <1>3, <2>1, FS_Subset
<1>5. A \subseteq P /\ \A i \in 1..t : found[i] \in P
  BY <1>2
<1>6. k \in 0..Cardinality(P)
  OBVIOUS
<1> HIDE DEF P
<1>7. /\ Cardinality(P) \in Nat
      /\ s \in [1..Cardinality(P) -> P]
      /\ \A i, j \in 1..Cardinality(P) : i < j => Before(s[i], s[j])
      /\ \A p \in P : \E i \in 1..Cardinality(P) : s[i] = p
  BY <1>3, <1>4, SortedIs
<1> HIDE DEF s
<1>8. \A i, j \in 1..Cardinality(P) : i <= j => s[i][1] <= s[j][1]
  <2> SUFFICES ASSUME NEW i \in 1..Cardinality(P), NEW j \in 1..Cardinality(P), i <= j
               PROVE  s[i][1] <= s[j][1]
    OBVIOUS
  <2>1. s[i] \in Int \X Int /\ s[j] \in Int \X Int
    BY <1>3, <1>7
  <2>2. CASE i = j
    BY <2>1, <2>2
  <2>3. CASE i < j
    <3>1. Before(s[i], s[j])
      BY <1>7, <2>3
    <3>. QED
      BY <2>1, <3>1, BeforeIsAnOrder
  <2>. QED
    BY <1>7, <2>2, <2>3
<1>9. ASSUME NEW p \in (R \cup A) \ P, NEW i \in 1..k
      PROVE  s[i][1] <= p[1]
  <2> SUFFICES ASSUME ~(s[i][1] <= p[1]) PROVE FALSE
    OBVIOUS
  <2>1. p \in R /\ \A j \in 1..t : found[j] # p
    BY <1>5, <1>9
  <2>2. CASE t = Cardinality(R)
    <3>1. found \in Injection(1..t, R)
      BY <1>1, Zenon DEF Injection, IsInjective
    <3>2. Cardinality(1..t) = t
      BY FS_Interval
    <3>3. found \in Surjection(1..t, R)
      BY <2>2, <3>1, <3>2, FS_Injection
    <3>. QED
      BY <2>1, <3>3, Zenon DEF Surjection
  <2>3. CASE t = k
    <3>1. s[i] \in Int \X Int /\ p \in Int \X Int
      BY <1>3, <1>6, <1>7, <1>9
    <3>2. ASSUME NEW a \in 1..i
          PROVE  \E m \in 1..(i - 1) : s[m] = found[a]
      <4>1. a \in 1..t
        BY <2>3
      <4>2. found[a][1] <= p[1] /\ found[a] \in Int \X Int
        BY <1>1, <2>1, <4>1
      <4>3. PICK m \in 1..Cardinality(P) : s[m] = found[a]
        BY <1>5, <1>7, <4>1
      <4>4. i \in 1..Cardinality(P) /\ Cardinality(P) \in Nat
        BY <1>6, <1>7
      <4>5. ~(s[i][1] <= s[m][1])
        BY <3>1, <4>2, <4>3
      <4>6. ~(i <= m)
        BY <1>8, <4>4, <4>5
      <4>. QED
        BY <4>3, <4>4, <4>6
    <3>3. \A a, b \in 1..i : found[a] = found[b] => a = b
      BY <1>1, <2>3
    <3>4. \A a \in 1..i : \E m \in 1..(i - 1) : s[m] = found[a]
      BY <3>2
    <3>5. Squeezed(found, s, i)
      BY <3>3, <3>4, Zenon DEF Squeezed
    <3>6. i \in Nat /\ i # 0
      OBVIOUS
    <3>. QED
      BY <3>5, <3>6, NoSqueeze
  <2>. QED
    BY <2>2, <2>3
<1>10. \A p \in (R \cup A) \ P : \A i \in 1..k : Sorted(P)[i][1] <= p[1]
  BY <1>9 DEF s
<1>11. Closest(SubSeq(Sorted(P), 1, k), k, R \cup A)
  BY <1>3, <1>4, <1>6, <1>10, FirstAreClosest
<1>. QED
  BY <1>11 DEF P

\* Cutting the tail first changes nothing.
LEMMA CutTwice ==
    ASSUME NEW S, NEW n \in Nat, NEW s \in [1..n -> S], NEW k \in 0..n, NEW first \in 1..2
    PROVE  SubSeq(SubSeq(s, 1, k), first, k) = SubSeq(s, first, k)
<1> DEFINE t == SubSeq(s, 1, k)
           u == SubSeq(t, first, k)
           v == SubSeq(s, first, k)
<1>1. t \in [1..k -> S] /\ \A i \in 1..k : t[i] = s[i]
  BY Prefix
<1> HIDE DEF t
<1>2. \A i \in first..k : t[i] \in S /\ s[i] \in S
  BY <1>1
<1>3. first \in Int /\ k \in Int
  OBVIOUS
<1>4. /\ u \in Seq(S) /\ Len(u) = (IF first <= k THEN k - first + 1 ELSE 0)
      /\ \A i \in 1..k-first+1 : u[i] = t[first+i-1]
  BY <1>2, <1>3, SubSeqProperties
<1>5. /\ v \in Seq(S) /\ Len(v) = (IF first <= k THEN k - first + 1 ELSE 0)
      /\ \A i \in 1..k-first+1 : v[i] = s[first+i-1]
  BY <1>2, <1>3, SubSeqProperties
<1> HIDE DEF u, v
<1>6. \A i \in 1..Len(u) : u[i] = v[i]
  BY <1>1, <1>4, <1>5
<1>7. u = v
  <2>1. Len(u) = Len(v)
    BY <1>4, <1>5
  <2>2. u \in Seq(S) /\ v \in Seq(S)
    BY <1>4, <1>5
  <2>. QED
    BY ONLY <1>6, <2>1, <2>2, SeqEqual
<1>. QED
  BY <1>7 DEF u, v, t

Added(train, whatif, query) ==
    {<<Dist(whatif[i], query), Len(train) + i>> : i \in DOMAIN whatif}

LEMMA WhatIfPairs ==
    ASSUME NEW train \in Seq(Points), NEW whatif \in Seq(Points), NEW query \in Points
    PROVE  /\ Added(train, whatif, query) \in SUBSET (Int \X Int)
           /\ IsFiniteSet(Added(train, whatif, query))
           /\ Cardinality(Added(train, whatif, query)) = Len(whatif)
           /\ \A p \in Added(train, whatif, query) : p[2] > Len(train)
           /\ AllPairs(train \o whatif, query)
                  = AllPairs(train, query) \cup Added(train, whatif, query)
<1> DEFINE A == Added(train, whatif, query)
           n == Len(train)
           m == Len(whatif)
           all == train \o whatif
           new == (n + 1)..(n + m)
<1>1. /\ n \in Nat /\ m \in Nat /\ DOMAIN train = 1..n /\ DOMAIN whatif = 1..m
      /\ all \in Seq(Points) /\ DOMAIN all = 1..(n + m)
      /\ \A i \in 1..n : all[i] = train[i]
      /\ \A i \in 1..m : all[n + i] = whatif[i]
  <2>1. n \in Nat /\ m \in Nat /\ DOMAIN train = 1..n /\ DOMAIN whatif = 1..m
    BY LenProperties
  <2>2. /\ all \in Seq(Points) /\ Len(all) = n + m
        /\ \A i \in 1..(n + m) : all[i] = IF i <= n THEN train[i] ELSE whatif[i - n]
    BY ConcatProperties
  <2>3. DOMAIN all = 1..(n + m)
    BY <2>2, LenProperties
  <2> HIDE DEF n, m, all
  <2>4. \A i \in 1..n : i \in 1..(n + m) /\ all[i] = train[i]
    BY <2>1, <2>2
  <2>5. \A i \in 1..m : n + i \in 1..(n + m) /\ ~(n + i <= n) /\ (n + i) - n = i
    BY <2>1
  <2>6. \A i \in 1..m : all[n + i] = whatif[i]
    BY <2>2, <2>5
  <2>. QED
    BY <2>1, <2>2, <2>3, <2>4, <2>6
<1> HIDE DEF n, m, all, A
<1>2. A = {Pair(all, query, id) : id \in new}
  <2>1. \A i \in 1..m : n + i \in new /\ <<Dist(whatif[i], query), n + i>> = Pair(all, query, n + i)
    BY <1>1 DEF Pair
  <2>2. \A id \in new : id - n \in 1..m /\ n + (id - n) = id
    BY <1>1
  <2>3. A = {<<Dist(whatif[i], query), n + i>> : i \in 1..m}
    BY <1>1 DEF n, A, Added
  <2> HIDE DEF new
  <2>. QED
    BY <2>1, <2>2, <2>3
<1>3. A = Pairs(all, query, new)
  BY <1>2 DEF Pairs
<1>4. new \in SUBSET DOMAIN all
  BY <1>1
<1>5. Cardinality(new) = m
  BY <1>1, FS_Interval
<1>6. A \in SUBSET AllPairs(all, query) /\ IsFiniteSet(A) /\ Cardinality(A) = m
  <2> HIDE DEF new
  <2>1. /\ Pairs(all, query, new) \in SUBSET AllPairs(all, query)
        /\ IsFiniteSet(Pairs(all, query, new))
        /\ Cardinality(Pairs(all, query, new)) = Cardinality(new)
    BY <1>1, <1>4, PairsType
  <2>. QED
    BY <1>3, <1>5, <2>1
<1>7. A \in SUBSET (Int \X Int)
  BY <1>1, <1>3, <1>4, PairsType
<1>8. ASSUME NEW p \in A
      PROVE  p[2] > n
  <2>1. PICK id \in new : p = Pair(all, query, id)
    BY <1>2
  <2>2. p[2] = id
    BY <2>1 DEF Pair
  <2>. QED
    BY <1>1, <2>2
<1>9. AllPairs(train, query) = {Pair(all, query, id) : id \in 1..n}
  <2>1. \A id \in 1..n : Pair(train, query, id) = Pair(all, query, id)
    BY <1>1 DEF Pair
  <2>2. AllPairs(train, query) = {Pair(train, query, id) : id \in 1..n}
    BY <1>1 DEF AllPairs, Pairs
  <2>. QED
    BY <2>1, <2>2
<1>10. AllPairs(all, query) = {Pair(all, query, id) : id \in 1..(n + m)}
  BY <1>1 DEF AllPairs, Pairs
<1>11. 1..(n + m) = (1..n) \cup new
  BY <1>1
<1> HIDE DEF new
<1>12. AllPairs(all, query) = AllPairs(train, query) \cup A
  BY <1>2, <1>9, <1>10, <1>11
<1>. QED
  BY <1>6, <1>7, <1>8, <1>12 DEF n, m, all, A

LEMMA ConditionalIsRight ==
    ASSUME NEW train \in Seq(Points), NEW whatif \in Seq(Points), whatif # <<>>,
           NEW query \in Points, NEW k \in Nat \ {0},
           NEW exclude \in BOOLEAN, NEW tieBreak \in BOOLEAN,
           exclude => Len(train) + Len(whatif) > 1,
           NEW merged \in Conditional(train, whatif, query, k, exclude, tieBreak)
    PROVE  Right(Answered(merged, query, k, exclude, whatif), train \o whatif)
<1> DEFINE n == Len(train)
           m == Len(whatif)
           all == train \o whatif
           t == TrainK(k, exclude, whatif, n)
           K == SearchK(k, exclude, n + m)
           first == IF exclude THEN 2 ELSE 1
           R == AllPairs(train, query)
           A == Added(train, whatif, query)
<1>1. n \in Nat /\ m \in Nat /\ m # 0 /\ Len(all) = n + m /\ all \in Seq(Points)
  OBVIOUS
<1>2. PICK found \in IF t = 0 THEN {<<>>} ELSE TopK(train, query, t, tieBreak) :
          merged = SubSeq(Sorted(Range(found) \cup A), first, Least(K, Len(found) + m))
  BY Zenon DEF Conditional, Added
<1>3. K \in 1..(n + m) /\ t = (IF K < n THEN K ELSE n) /\ t \in 0..n
  <2>1. K \in 1..(n + m)
    BY <1>1 DEF SearchK, Least
  <2>2. t = (IF K < n THEN K ELSE n)
    BY DEF TrainK, Least
  <2> HIDE DEF K, t
  <2>. QED
    BY <1>1, <2>1, <2>2
<1>4. /\ R \in SUBSET (Int \X Int) /\ IsFiniteSet(R) /\ Cardinality(R) = n
      /\ \A p \in R : p[2] \in DOMAIN train
  BY AllPairsType
<1>5. /\ A \in SUBSET (Int \X Int) /\ IsFiniteSet(A) /\ Cardinality(A) = m
      /\ \A p \in A : p[2] > n
      /\ AllPairs(all, query) = R \cup A
  BY WhatIfPairs
<1> HIDE DEF n, m, all, t, K, R, A
<1>6. Closest(found, t, R)
  <2>1. CASE t = 0
    <3>1. found = <<>>
      BY <1>2, <2>1
    <3>2. found \in [1..t -> R] /\ 1..t = {}
      BY <2>1, <3>1
    <3>. QED
      BY <3>2 DEF Closest
  <2>2. CASE t # 0
    <3>1. found \in TopK(train, query, t, tieBreak)
      BY <1>2, <2>2
    <3>2. t \in 1..Len(train)
      BY <1>1, <1>3, <2>2 DEF n
    <3>. QED
      BY <3>1, <3>2, TopKIsClosest DEF R
  <2>. QED
    BY <2>1, <2>2
<1>7. found \in [1..t -> R] /\ \A i, j \in 1..t : found[i] = found[j] => i = j
  BY <1>6, Zenon DEF Closest
<1>8. Len(found) = t
  <2>1. t \in Nat
    BY <1>3
  <2>. QED
    BY <1>7, <2>1
<1>9. Least(K, Len(found) + m) = K
  <2>1. K <= t + m
    BY <1>1, <1>3
  <2>2. K \in Int /\ t + m \in Int
    BY <1>1, <1>3
  <2>. QED
    BY <1>8, <2>1, <2>2 DEF Least
<1>10. Range(found) \in SUBSET R /\ IsFiniteSet(Range(found)) /\ Cardinality(Range(found)) = t
  <2> DEFINE F == Range(found)
  <2>1. F = {found[i] : i \in 1..t}
    BY <1>7 DEF Range
  <2>2. F \in SUBSET R /\ found \in [1..t -> F] /\ \A p \in F : \E i \in 1..t : found[i] = p
    BY <1>7, <2>1
  <2> HIDE DEF F
  <2>3. found \in Bijection(1..t, F)
    BY <1>7, <2>2, Zenon DEF Bijection, Injection, Surjection, IsInjective
  <2>4. ExistsBijection(1..t, F)
    BY <2>3, Zenon DEF ExistsBijection
  <2>5. IsFiniteSet(1..t) /\ Cardinality(1..t) = t
    <3>1. t \in Nat
      BY <1>1, <1>3
    <3>. QED
      BY <3>1, FS_Interval
  <2>6. IsFiniteSet(F) /\ Cardinality(F) = t
    BY <2>4, <2>5, FS_Bijection
  <2>. QED
    BY <2>2, <2>6 DEF F
<1> DEFINE P == Range(found) \cup A
<1>11. IsFiniteSet(P) /\ Cardinality(P) = t + m
  <2>1. Range(found) \cap A = {}
    <3> SUFFICES ASSUME NEW p \in Range(found), p \in A PROVE FALSE
      OBVIOUS
    <3>1. p[2] \in DOMAIN train /\ p[2] > n
      BY <1>4, <1>5, <1>10
    <3>. QED
      BY <3>1 DEF n
  <2>2. Cardinality(Range(found) \cap A) = 0
    BY <2>1, FS_EmptySet
  <2>3. IsFiniteSet(P) /\ Cardinality(P) = t + m - 0
    BY <1>5, <1>10, <2>2, FS_Union
  <2>. QED
    BY <1>1, <1>3, <2>3
<1>12. K \in 0..Cardinality(P)
  BY <1>1, <1>3, <1>11
<1>13. t \in Nat /\ (t = K \/ t = Cardinality(R))
  BY <1>1, <1>3, <1>4
<1>14. Closest(SubSeq(Sorted(P), 1, K), K, R \cup A)
  BY <1>4, <1>5, <1>6, <1>12, <1>13, MergedIsClosest
<1> DEFINE f == SubSeq(Sorted(P), 1, K)
<1>15. merged = SubSeq(f, first, K)
  <2>1. merged = SubSeq(Sorted(P), first, K)
    BY <1>2, <1>9
  <2>2. P \in SUBSET (Int \X Int)
    BY <1>4, <1>5, <1>10
  <2>3. IsFiniteSet(P)
    BY <1>11
  <2> HIDE DEF P
  <2>4. Sorted(P) \in [1..Cardinality(P) -> P] /\ Cardinality(P) \in Nat
    BY <2>2, <2>3, SortedIs
  <2>5. first \in 1..2
    OBVIOUS
  <2> HIDE DEF first
  <2>6. SubSeq(SubSeq(Sorted(P), 1, K), first, K) = SubSeq(Sorted(P), first, K)
    BY <1>12, <2>4, <2>5, CutTwice
  <2>. QED
    BY <2>1, <2>6
<1>16. Closest(f, K, AllPairs(all, query))
  BY <1>5, <1>14
<1> HIDE DEF f, P
<1>17. K = SearchK(k, exclude, Len(all)) /\ Len(all) # 0 /\ (exclude => Len(all) > 1)
  BY <1>1 DEF K, n, m
<1>18. Right(Answered(SubSeq(f, first, K), query, k, exclude, whatif), all)
  BY <1>1, <1>16, <1>17, ClosestIsRight
<1>. QED
  BY <1>15, <1>18 DEF all

-----------------------------------------------------------------------------
\* The first state.

LEMMA InitEstablishes == Init => SyncInv /\ answer = NoAnswer
<1> SUFFICES ASSUME Init PROVE SyncInv /\ answer = NoAnswer
  OBVIOUS
<1>1. PICK n \in 0..1 : rows \in [1..n -> Points]
  BY DEF Init
<1>2. rows \in Seq(Points) /\ Len(rows) \in 0..1
  BY <1>1
<1>3. /\ scaleX \in BOOLEAN /\ stale = FALSE /\ scale = ScaleOf(Len(rows))
      /\ synced = Len(rows) /\ index = [rows |-> rows, scale |-> scale]
      /\ queryScale = scale /\ holder = NoThread /\ faults = 0 /\ answer = NoAnswer
      /\ pc = [t \in Threads |-> "idle"] /\ local = [t \in Threads |-> NothingRead]
  BY DEF Init
<1>4. scale \in 0..Len(rows) /\ (~scaleX => scale = 0)
  BY <1>2, <1>3 DEF ScaleOf
<1>5. TypeOK
  <2>1. Len(rows) <= MaxRows /\ faults \in 0..MaxFaults /\ 0 \in 0..Len(rows)
    BY <1>2, <1>3, EnnModelAssumption
  <2>2. \A t \in Threads : pc[t] = "idle" /\ t # NoThread
    BY <1>3, EnnModelAssumption
  <2>3. \A t \in Threads : pc[t] \in {"rebuild", "publish"} <=> holder = t
    BY <1>3, <2>2
  <2>4. local \in [Threads -> [n : 0..Len(rows), scale : 0..Len(rows)]]
    BY <1>3, <2>1 DEF NothingRead
  <2>5. index \in [rows : Seq(Points), scale : 0..Len(rows)]
    BY <1>2, <1>3, <1>4
  <2>6. pc \in [Threads -> {"idle", "sync", "rebuild", "publish", "len", "scale", "find"}]
    BY <1>3
  <2>7. {scale, queryScale, synced} \subseteq 0..Len(rows)
    BY <1>2, <1>3, <1>4
  <2>. QED
    BY <1>2, <1>3, <2>1, <2>3, <2>4, <2>5, <2>6, <2>7 DEF TypeOK
<1>6. \A t \in Threads : pc[t] = "idle"
  BY <1>3
<1>7. ReadersInv /\ RebuildInv
  BY <1>6 DEF ReadersInv, RebuildInv, Reading, Rebuilding
<1>8. Settled
  BY <1>3 DEF Settled
<1>9. SyncedInv
  BY <1>2, <1>3, <1>4, <1>8 DEF SyncedInv
<1>. QED
  BY <1>3, <1>5, <1>7, <1>9 DEF SyncInv

\* What a step does that moves one thread.
LEMMA GoesMoves ==
    ASSUME TypeOK, NEW t \in Threads, NEW place, Goes(t, place),
           place \in {"idle", "sync", "rebuild", "publish", "len", "scale", "find"}
    PROVE  /\ pc' \in [Threads -> {"idle", "sync", "rebuild", "publish", "len", "scale", "find"}]
           /\ pc'[t] = place
           /\ \A u \in Threads : u # t => pc'[u] = pc[u]
           /\ answer' = NoAnswer
BY DEF TypeOK, Goes

\* An add, while nobody is in a call.
LEMMA AddKeeps == SyncInv /\ Add => SyncInv'
<1> SUFFICES ASSUME SyncInv, Add PROVE SyncInv'
  OBVIOUS
<1>1. /\ TypeOK /\ SyncedInv
      /\ \A t \in Threads : pc[t] = "idle"
  BY DEF SyncInv, Add
<1>2. PICK batch \in UNION {[1..n -> Points] : n \in 1..2} :
          Len(rows) + Len(batch) <= MaxRows /\ rows' = rows \o batch
  BY DEF Add
<1> DEFINE n == Len(batch)
<1>3. batch \in Seq(Points) /\ n \in 1..2
  <2>1. PICK i \in 1..2 : batch \in [1..i -> Points]
    OBVIOUS
  <2>. QED
    BY <2>1
<1> HIDE DEF n
<1>4. rows \in Seq(Points) /\ Len(rows) \in Nat
  BY <1>1 DEF TypeOK
<1>5. rows' \in Seq(Points) /\ Len(rows') = Len(rows) + n /\ Len(rows') <= MaxRows
  BY <1>2, <1>3, <1>4 DEF n
<1>6. /\ scaleX' = scaleX /\ scale' = ScaleOf(Len(rows')) /\ stale' = (stale \/ scaleX)
      /\ UNCHANGED <<synced, index, queryScale, holder, pc, local, faults>>
  BY DEF Add, Marked
<1>7. scale' \in 0..Len(rows') /\ (~scaleX => scale' = 0)
  BY <1>1, <1>4, <1>5, <1>6 DEF ScaleOf, TypeOK
<1>8. \A i \in 0..Len(rows) : i \in 0..Len(rows')
  BY <1>3, <1>4, <1>5
<1>9. TypeOK'
  <2>1. {scale', queryScale', synced'} \subseteq 0..Len(rows')
    BY <1>1, <1>6, <1>7, <1>8 DEF TypeOK
  <2>2. index' \in [rows : Seq(Points), scale : 0..Len(rows')]
    BY <1>1, <1>6, <1>8 DEF TypeOK
  <2>3. local' \in [Threads -> [n : 0..Len(rows'), scale : 0..Len(rows')]]
    BY <1>1, <1>6, <1>8 DEF TypeOK
  <2>4. scaleX' \in BOOLEAN /\ stale' \in BOOLEAN
    BY <1>1, <1>6 DEF TypeOK
  <2>5. /\ holder' \in Threads \cup {NoThread} /\ faults' \in 0..MaxFaults
        /\ pc' \in [Threads -> {"idle", "sync", "rebuild", "publish", "len", "scale", "find"}]
        /\ \A t \in Threads : pc'[t] \in {"rebuild", "publish"} <=> holder' = t
    BY <1>1, <1>6 DEF TypeOK
  <2>. QED
    BY <1>5, <2>1, <2>2, <2>3, <2>4, <2>5 DEF TypeOK
<1>10. ReadersInv' /\ RebuildInv'
  BY <1>1, <1>6 DEF ReadersInv, RebuildInv, Reading, Rebuilding
<1>11. Len(index'.rows) < Len(rows')
  <2>1. Len(index.rows) <= Len(rows) /\ Len(index.rows) \in Nat
    BY <1>1 DEF SyncedInv, TypeOK
  <2>. QED
    BY <1>3, <1>4, <1>5, <1>6, <2>1
<1>12. SyncedInv'
  <2>1. scaleX /\ ~stale' => FALSE
    BY <1>6
  <2>2. ~scaleX => index.scale = 0 /\ queryScale = 0
    BY <1>1 DEF SyncedInv
  <2>3. ScaleOf(Len(rows))' = ScaleOf(Len(rows'))
    BY <1>6 DEF ScaleOf
  <2>4. Len(index'.rows) <= Len(rows') /\ Len(index'.rows) # Len(rows')
    <3>1. Len(index'.rows) \in Nat /\ Len(rows') \in Nat
      BY <1>9 DEF TypeOK
    <3>. QED
      BY <1>11, <3>1
  <2>. QED
    BY <1>6, <2>1, <2>2, <2>3, <2>4 DEF SyncedInv
<1>. QED
  BY <1>9, <1>10, <1>12 DEF SyncInv

Places == {"idle", "sync", "rebuild", "publish", "len", "scale", "find"}
Locals == [Threads -> [n : 0..Len(rows), scale : 0..Len(rows)]]

\* One thread moves, and nothing but what it has read itself changes.
Alone(t) ==
    /\ UNCHANGED <<scaleX, rows, scale, stale, synced, index, queryScale, holder, faults>>
    /\ pc' \in [Threads -> Places] /\ local' \in Locals
    /\ ~Rebuilding(t) /\ ~Rebuilding(t)'
    /\ \A u \in Threads : u # t => pc'[u] = pc[u] /\ local'[u] = local[u]

\* A thread that goes on to read may do so.
Allowed(t) ==
    /\ pc'[t] \in {"len", "scale", "find"} => Settled /\ holder = NoThread
    /\ pc'[t] \in {"scale", "find"} => local'[t].n = Len(rows)
    /\ pc'[t] = "find" => local'[t].scale = scale
    /\ pc'[t] # "idle" => rows # <<>>

LEMMA AloneKeeps ==
    ASSUME SyncInv, NEW t \in Threads, Alone(t), Allowed(t)
    PROVE  SyncInv'
<1>1. TypeOK /\ ReadersInv /\ RebuildInv /\ SyncedInv
  BY DEF SyncInv
<1>2. /\ UNCHANGED <<scaleX, rows, scale, stale, synced, index, queryScale, holder, faults>>
      /\ pc' \in [Threads -> Places] /\ local' \in Locals
      /\ pc[t] \notin {"rebuild", "publish"} /\ pc'[t] \notin {"rebuild", "publish"}
      /\ \A u \in Threads : u # t => pc'[u] = pc[u] /\ local'[u] = local[u]
  BY DEF Alone, Rebuilding
<1>3. TypeOK'
  BY <1>1, <1>2 DEF TypeOK, Places, Locals
<1>4. Settled' <=> Settled
  BY <1>2 DEF Settled
<1>5. ReadersInv'
  BY <1>1, <1>2, <1>4 DEF ReadersInv, Reading, Allowed
<1>6. RebuildInv'
  BY <1>1, <1>2 DEF RebuildInv, Rebuilding
<1>7. SyncedInv'
  BY <1>1, <1>2, <1>4 DEF SyncedInv, ScaleOf
<1>. QED
  BY <1>3, <1>5, <1>6, <1>7 DEF SyncInv

LEMMA BeginKeeps ==
    ASSUME SyncInv, NEW t \in Threads, Begin(t)
    PROVE  SyncInv'
<1>1. TypeOK /\ pc[t] = "idle" /\ rows # <<>> /\ Goes(t, "sync")
      /\ UNCHANGED <<scaleX, rows, scale, stale, synced, index, queryScale, holder, local, faults>>
  BY DEF SyncInv, Begin, model, backend
<1>2. /\ pc' \in [Threads -> Places] /\ pc'[t] = "sync"
      /\ \A u \in Threads : u # t => pc'[u] = pc[u]
  BY <1>1, GoesMoves DEF Places
<1>3. local' \in Locals
  BY <1>1 DEF TypeOK, Locals
<1>4. Alone(t)
  BY <1>1, <1>2, <1>3 DEF Alone, Rebuilding
<1>5. Allowed(t)
  BY <1>1, <1>2 DEF Allowed
<1>. QED
  BY <1>4, <1>5, AloneKeeps

\* The length of the engine is that of the rows, as the readers find it.
LEMMA ReadLenKeeps ==
    ASSUME SyncInv, NEW t \in Threads, ReadLen(t)
    PROVE  SyncInv'
<1>1. /\ TypeOK /\ ReadersInv /\ pc[t] = "len" /\ Goes(t, "scale")
      /\ local' = [local EXCEPT ![t].n = Len(index.rows)]
      /\ UNCHANGED <<scaleX, rows, scale, stale, synced, index, queryScale, holder, faults>>
  BY DEF SyncInv, ReadLen, model, backend
<1>2. /\ pc' \in [Threads -> Places] /\ pc'[t] = "scale"
      /\ \A u \in Threads : u # t => pc'[u] = pc[u]
  BY <1>1, GoesMoves DEF Places
<1>3. Settled /\ holder = NoThread /\ rows # <<>>
  BY <1>1 DEF ReadersInv, Reading
<1>4. Len(index.rows) = Len(rows) /\ Len(rows) \in 0..Len(rows)
  BY <1>1, <1>3 DEF Settled, TypeOK
<1>5. /\ local' \in Locals /\ local'[t].n = Len(rows)
      /\ \A u \in Threads : u # t => local'[u] = local[u]
  BY <1>1, <1>4 DEF TypeOK, Locals
<1>6. Alone(t)
  BY <1>1, <1>2, <1>5 DEF Alone, Rebuilding
<1>7. Allowed(t)
  BY <1>2, <1>3, <1>5 DEF Allowed
<1>. QED
  BY <1>6, <1>7, AloneKeeps

LEMMA ReadScaleKeeps ==
    ASSUME SyncInv, NEW t \in Threads, ReadScale(t)
    PROVE  SyncInv'
<1>1. /\ TypeOK /\ ReadersInv /\ pc[t] = "scale" /\ Goes(t, "find")
      /\ local' = [local EXCEPT ![t].scale = queryScale]
      /\ UNCHANGED <<scaleX, rows, scale, stale, synced, index, queryScale, holder, faults>>
  BY DEF SyncInv, ReadScale, model, backend
<1>2. /\ pc' \in [Threads -> Places] /\ pc'[t] = "find"
      /\ \A u \in Threads : u # t => pc'[u] = pc[u]
  BY <1>1, GoesMoves DEF Places
<1>3. Settled /\ holder = NoThread /\ rows # <<>> /\ local[t].n = Len(rows)
  BY <1>1 DEF ReadersInv, Reading
<1>4. queryScale = scale /\ queryScale \in 0..Len(rows)
  BY <1>1, <1>3 DEF Settled, TypeOK
<1>5. /\ local' \in Locals /\ local'[t].n = Len(rows) /\ local'[t].scale = scale
      /\ \A u \in Threads : u # t => local'[u] = local[u]
  BY <1>1, <1>3, <1>4 DEF TypeOK, Locals
<1>6. Alone(t)
  BY <1>1, <1>2, <1>5 DEF Alone, Rebuilding
<1>7. Allowed(t)
  BY <1>2, <1>3, <1>5 DEF Allowed
<1>. QED
  BY <1>6, <1>7, AloneKeeps

LEMMA FindKeeps ==
    ASSUME SyncInv, NEW t \in Threads, Find(t)
    PROVE  SyncInv'
<1>1. /\ TypeOK /\ pc[t] = "find" /\ pc' = [pc EXCEPT ![t] = "idle"]
      /\ local' = [local EXCEPT ![t] = NothingRead]
      /\ UNCHANGED <<scaleX, rows, scale, stale, synced, index, queryScale, holder, faults>>
  BY DEF SyncInv, Find, model, backend
<1>2. /\ pc' \in [Threads -> Places] /\ pc'[t] = "idle"
      /\ \A u \in Threads : u # t => pc'[u] = pc[u]
  BY <1>1 DEF Places, TypeOK
<1>3. 0 \in 0..Len(rows)
  BY <1>1 DEF TypeOK
<1>4. NothingRead \in [n : 0..Len(rows), scale : 0..Len(rows)]
  BY <1>3 DEF NothingRead
<1>5. /\ local' \in Locals
      /\ \A u \in Threads : u # t => local'[u] = local[u]
  BY <1>1, <1>4 DEF TypeOK, Locals
<1>6. Alone(t)
  BY <1>1, <1>2, <1>5 DEF Alone, Rebuilding
<1>7. Allowed(t)
  BY <1>2 DEF Allowed
<1>. QED
  BY <1>6, <1>7, AloneKeeps

\* Without rows only an answer changes; and so it is when nothing does.
LEMMA NothingMovesKeeps ==
    ASSUME SyncInv,
           UNCHANGED <<scaleX, rows, scale, stale, synced, index, queryScale, holder, pc,
                       local, faults>>
    PROVE  SyncInv'
<1>1. TypeOK /\ ReadersInv /\ RebuildInv /\ SyncedInv
  BY DEF SyncInv
<1>2. TypeOK'
  BY <1>1 DEF TypeOK
<1>3. Settled' <=> Settled
  BY DEF Settled
<1>4. ReadersInv' /\ RebuildInv' /\ SyncedInv'
  BY <1>1, <1>3 DEF ReadersInv, RebuildInv, SyncedInv, Reading, Rebuilding, ScaleOf
<1>. QED
  BY <1>2, <1>4 DEF SyncInv

\* A thread takes the lock, marks known for what it has counted, and will
\* rebuild: nobody reads, as an index that is read is up to date.
LEMMA TakesTheLock ==
    ASSUME SyncInv, NEW t \in Threads, pc[t] = "sync", Free, ~Settled, scaleX => stale,
           NEW known \in 0..Len(rows),
           ~scaleX => Len(index.rows) # Len(rows),
           UNCHANGED <<scaleX, rows, scale, stale, index, queryScale, local, faults>>,
           synced' = known, holder' = t, Goes(t, "rebuild")
    PROVE  SyncInv'
<1>1. TypeOK /\ ReadersInv /\ RebuildInv /\ SyncedInv
  BY DEF SyncInv
<1>2. /\ pc' \in [Threads -> {"idle", "sync", "rebuild", "publish", "len", "scale", "find"}]
      /\ pc'[t] = "rebuild"
      /\ \A u \in Threads : u # t => pc'[u] = pc[u]
  BY <1>1, GoesMoves
<1>3. holder = NoThread /\ \A u \in Threads : u # NoThread /\ ~(pc[u] \in {"rebuild", "publish"})
  BY <1>1, EnnModelAssumption DEF TypeOK, Free
<1>4. \A u \in Threads : ~Reading(u)
  BY <1>1 DEF ReadersInv
<1>5. TypeOK'
  <2>1. \A u \in Threads : pc'[u] \in {"rebuild", "publish"} <=> holder' = u
    BY <1>2, <1>3
  <2>2. {scale', queryScale', synced'} \subseteq 0..Len(rows')
    BY <1>1 DEF TypeOK
  <2>. QED
    BY <1>1, <1>2, <2>1, <2>2 DEF TypeOK
<1>6. ReadersInv'
  <2>1. \A u \in Threads : ~Reading(u)' /\ pc'[u] \notin {"scale", "find"}
    BY <1>2, <1>4 DEF Reading
  <2>2. rows # <<>>
    BY <1>1 DEF ReadersInv
  <2>. QED
    BY <1>1, <1>2, <2>1, <2>2 DEF ReadersInv
<1>7. RebuildInv'
  BY <1>1, <1>2 DEF RebuildInv, Rebuilding
<1>8. SyncedInv'
  BY <1>1 DEF SyncedInv, ScaleOf
<1>. QED
  BY <1>5, <1>6, <1>7, <1>8 DEF SyncInv

LEMMA SyncScaledKeeps ==
    ASSUME SyncInv, NEW t \in Threads, SyncScaled(t)
    PROVE  SyncInv'
<1>1. /\ TypeOK /\ ReadersInv /\ SyncedInv /\ scaleX /\ pc[t] = "sync" /\ Free
      /\ UNCHANGED <<scaleX, rows, scale, stale, synced, index, queryScale, local, faults>>
  BY DEF SyncInv, SyncScaled, model, backend
<1>2. CASE stale
  <2>1. Goes(t, "rebuild") /\ holder' = t
    BY <1>2 DEF SyncScaled
  <2>2. ~Settled
    BY <1>1, <1>2 DEF Settled
  <2>3. synced \in 0..Len(rows) /\ synced' = synced
    BY <1>1 DEF TypeOK
  <2>. QED
    BY <1>1, <1>2, <2>1, <2>2, <2>3, TakesTheLock
<1>3. CASE ~stale
  <2>1. Goes(t, "len") /\ holder' = holder
    BY <1>3 DEF SyncScaled
  <2>2. /\ pc' \in [Threads -> Places] /\ pc'[t] = "len"
        /\ \A u \in Threads : u # t => pc'[u] = pc[u]
    BY <1>1, <2>1, GoesMoves DEF Places
  <2>3. Settled /\ holder = NoThread /\ rows # <<>>
    BY <1>1, <1>3 DEF SyncedInv, Free, ReadersInv
  <2>4. local' \in Locals
    BY <1>1 DEF TypeOK, Locals
  <2>5. Alone(t)
    BY <1>1, <2>1, <2>2, <2>4 DEF Alone, Rebuilding
  <2>6. Allowed(t)
    BY <2>2, <2>3 DEF Allowed
  <2>. QED
    BY <2>5, <2>6, AloneKeeps
<1>. QED
  BY <1>2, <1>3

\* Without scale_x the index is as long as the rows only when it is theirs.
LEMMA SyncPlainKeeps ==
    ASSUME SyncInv, NEW t \in Threads, SyncPlain(t)
    PROVE  SyncInv'
<1> DEFINE have == Len(index.rows)
           known == Least(synced, have)
<1>1. /\ TypeOK /\ ReadersInv /\ SyncedInv /\ ~scaleX /\ pc[t] = "sync" /\ Free
      /\ UNCHANGED <<scaleX, rows, scale, stale, queryScale, local, faults>>
  BY DEF SyncInv, SyncPlain, model
<1>2. holder = NoThread /\ \A u \in Threads : pc[u] # "publish"
  BY <1>1, EnnModelAssumption DEF TypeOK, Free
<1>3. /\ have \in Nat /\ Len(rows) \in Nat /\ synced \in 0..Len(rows) /\ rows # <<>>
      /\ rows \in Seq(Points)
  BY <1>1 DEF TypeOK, ReadersInv
<1>4. Len(rows) > 0
  BY <1>3
<1>5. have = Len(rows) => Settled
  BY <1>1, <1>2 DEF SyncedInv
<1>6. Settled => index.rows = rows /\ synced = Len(rows)
  BY <1>1 DEF Settled
<1>7. CASE have = Len(rows)
  <2>1. Settled /\ known = Len(rows) /\ synced = Len(rows) /\ index.rows = rows
    BY <1>3, <1>5, <1>6, <1>7 DEF Least
  <2>2. ~(known = 0 /\ have > 0)
    BY <1>4, <2>1
  <2>3. /\ synced' = Len(rows) /\ Goes(t, "len") /\ holder' = holder
        /\ index' = [index EXCEPT !.rows = @ \o SubSeq(rows, known + 1, Len(rows))]
    BY <1>7, <2>2 DEF SyncPlain
  <2>4. SubSeq(rows, known + 1, Len(rows)) = <<>>
    <3>1. known + 1 \in Int /\ Len(rows) \in Int /\ Len(rows) < known + 1
      BY <1>3, <2>1
    <3>. QED
      BY <3>1, SubSeqEmpty
  <2>5. index.rows \o <<>> = index.rows
    BY <1>3, <2>1, ConcatEmptySeq
  <2>6. index' = index
    <3>1. index' = [index EXCEPT !.rows = index.rows \o <<>>]
      BY <2>3, <2>4
    <3>. QED
      BY <1>1, <2>5, <3>1 DEF TypeOK
  <2>7. /\ pc' \in [Threads -> Places] /\ pc'[t] = "len"
        /\ \A u \in Threads : u # t => pc'[u] = pc[u]
    BY <1>1, <2>3, GoesMoves DEF Places
  <2>8. local' \in Locals
    BY <1>1 DEF TypeOK, Locals
  <2>9. Alone(t)
    BY <1>1, <2>1, <2>3, <2>6, <2>7, <2>8 DEF Alone, Rebuilding
  <2>10. Allowed(t)
    BY <1>2, <1>3, <2>1, <2>7 DEF Allowed
  <2>. QED
    BY <2>9, <2>10, AloneKeeps
<1>8. CASE have # Len(rows)
  <2>1. /\ synced' = known /\ Goes(t, "rebuild") /\ holder' = t /\ index' = index
    BY <1>8 DEF SyncPlain
  <2>2. ~Settled
    BY <1>6, <1>8
  <2>3. known \in 0..Len(rows)
    BY <1>1, <1>3 DEF Least, SyncedInv
  <2>4. UNCHANGED <<scaleX, rows, scale, stale, index, queryScale, local, faults>>
    BY <1>1, <2>1
  <2>5. Len(index.rows) # Len(rows)
    BY <1>8
  <2> HIDE DEF known, have
  <2>. QED
    BY <1>1, <2>1, <2>2, <2>3, <2>4, <2>5, TakesTheLock
<1>. QED
  BY <1>7, <1>8

\* Who rebuilds is alone in the index.
LEMMA RebuildsAlone ==
    ASSUME SyncInv, NEW t \in Threads, Rebuilding(t)
    PROVE  /\ holder = t /\ holder # NoThread
           /\ \A u \in Threads : ~Reading(u) /\ (u # t => ~Rebuilding(u))
           /\ rows # <<>>
BY EnnModelAssumption DEF SyncInv, TypeOK, ReadersInv, Reading, Rebuilding

LEMMA RebuildKeeps ==
    ASSUME SyncInv, NEW t \in Threads, Rebuild(t)
    PROVE  SyncInv'
<1>1. /\ TypeOK /\ ReadersInv /\ RebuildInv /\ SyncedInv /\ pc[t] = "rebuild" /\ Goes(t, "publish")
      /\ index' = [rows |-> rows, scale |-> scale]
      /\ UNCHANGED <<scaleX, rows, scale, stale, synced, queryScale, holder, local, faults>>
  BY DEF SyncInv, Rebuild, model
<1>2. /\ pc' \in [Threads -> {"idle", "sync", "rebuild", "publish", "len", "scale", "find"}]
      /\ pc'[t] = "publish"
      /\ \A u \in Threads : u # t => pc'[u] = pc[u]
  BY <1>1, GoesMoves
<1>3. /\ holder = t /\ \A u \in Threads : ~Reading(u) /\ (u # t => ~Rebuilding(u))
      /\ rows # <<>>
  BY <1>1, RebuildsAlone DEF Rebuilding
<1>4. rows \in Seq(Points) /\ scale \in 0..Len(rows) /\ Len(rows) \in Nat
  BY <1>1 DEF TypeOK
<1>5. TypeOK'
  <2>1. \A u \in Threads : pc'[u] \in {"rebuild", "publish"} <=> holder' = u
    BY <1>1, <1>2, <1>3 DEF Rebuilding
  <2>2. index' \in [rows : Seq(Points), scale : 0..Len(rows)]
    BY <1>1, <1>4
  <2>. QED
    BY <1>1, <1>2, <2>1, <2>2 DEF TypeOK
<1>6. ReadersInv'
  BY <1>1, <1>2, <1>3 DEF ReadersInv, Reading
<1>7. RebuildInv'
  BY <1>1, <1>2, <1>3 DEF RebuildInv, Rebuilding
<1>8. SyncedInv'
  <2>1. index'.rows = rows /\ index'.scale = scale
    BY <1>1
  <2>2. ~scaleX => scale = 0
    BY <1>1 DEF SyncedInv, ScaleOf
  <2>3. scaleX => stale'
    BY <1>1 DEF RebuildInv, Rebuilding
  <2>. QED
    BY <1>1, <1>2, <1>4, <2>1, <2>2, <2>3 DEF SyncedInv, ScaleOf
<1>. QED
  BY <1>5, <1>6, <1>7, <1>8 DEF SyncInv

\* What a failed rebuild leaves is marked, or shorter than the rows.
LEMMA RebuildFailsKeeps ==
    ASSUME SyncInv, NEW t \in Threads, RebuildFails(t)
    PROVE  SyncInv'
<1>1. /\ TypeOK /\ ReadersInv /\ RebuildInv /\ SyncedInv /\ pc[t] = "rebuild" /\ Goes(t, "idle")
      /\ index' \in {index, EmptyIndex} /\ holder' = NoThread
      /\ faults < MaxFaults /\ faults' = faults + 1
      /\ UNCHANGED <<scaleX, rows, scale, stale, synced, queryScale, local>>
  BY DEF SyncInv, RebuildFails, model
<1>2. /\ pc' \in [Threads -> {"idle", "sync", "rebuild", "publish", "len", "scale", "find"}]
      /\ pc'[t] = "idle"
      /\ \A u \in Threads : u # t => pc'[u] = pc[u]
  BY <1>1, GoesMoves
<1>3. /\ holder = t /\ \A u \in Threads : ~Reading(u) /\ (u # t => ~Rebuilding(u))
      /\ rows # <<>>
  BY <1>1, RebuildsAlone DEF Rebuilding
<1>4. rows \in Seq(Points) /\ Len(rows) \in Nat /\ Len(rows) # 0
  BY <1>1, <1>3 DEF TypeOK
<1>5. EmptyIndex.rows = <<>> /\ EmptyIndex.scale = 0 /\ Len(<<>>) = 0
      /\ EmptyIndex \in [rows : Seq(Points), scale : 0..Len(rows)]
  BY <1>4 DEF EmptyIndex
<1>6. TypeOK'
  <2>1. \A u \in Threads : pc'[u] \in {"rebuild", "publish"} <=> holder' = u
    BY <1>1, <1>2, <1>3, EnnModelAssumption DEF Rebuilding
  <2>2. index' \in [rows : Seq(Points), scale : 0..Len(rows)]
    BY <1>1, <1>5 DEF TypeOK
  <2>3. faults' \in 0..MaxFaults
    BY <1>1, EnnModelAssumption DEF TypeOK
  <2>. QED
    BY <1>1, <1>2, <2>1, <2>2, <2>3 DEF TypeOK
<1>7. ReadersInv'
  BY <1>1, <1>2, <1>3 DEF ReadersInv, Reading
<1>8. RebuildInv'
  BY <1>1, <1>2, <1>3 DEF RebuildInv, Rebuilding
<1>9. SyncedInv'
  <2>1. scaleX => stale'
    BY <1>1 DEF RebuildInv, Rebuilding
  <2>2. \A u \in Threads : pc[u] # "publish"
    BY <1>1, <1>3 DEF Rebuilding
  <2>3. CASE index' = index
    <3>1. Settled' <=> Settled
      BY <1>1, <2>3 DEF Settled
    <3>. QED
      BY <1>1, <2>1, <2>2, <2>3, <3>1 DEF SyncedInv, ScaleOf
  <2>4. CASE index' = EmptyIndex
    <3>1. Len(index'.rows) = 0 /\ index'.scale = 0
      BY <1>5, <2>4
    <3>. QED
      BY <1>1, <1>4, <2>1, <3>1 DEF SyncedInv, ScaleOf
  <2>. QED
    BY <1>1, <2>3, <2>4
<1>. QED
  BY <1>6, <1>7, <1>8, <1>9 DEF SyncInv

LEMMA PublishKeeps ==
    ASSUME SyncInv, NEW t \in Threads, Publish(t)
    PROVE  SyncInv'
<1>1. /\ TypeOK /\ ReadersInv /\ RebuildInv /\ SyncedInv /\ pc[t] = "publish" /\ Goes(t, "len")
      /\ queryScale' = scale /\ stale' = FALSE /\ synced' = Len(rows) /\ holder' = NoThread
      /\ UNCHANGED <<scaleX, rows, scale, index, local, faults>>
  BY DEF SyncInv, Publish, model
<1>2. /\ pc' \in [Threads -> {"idle", "sync", "rebuild", "publish", "len", "scale", "find"}]
      /\ pc'[t] = "len"
      /\ \A u \in Threads : u # t => pc'[u] = pc[u]
  BY <1>1, GoesMoves
<1>3. /\ holder = t /\ \A u \in Threads : ~Reading(u) /\ (u # t => ~Rebuilding(u))
      /\ rows # <<>>
  BY <1>1, RebuildsAlone DEF Rebuilding
<1>4. index = [rows |-> rows, scale |-> scale]
  BY <1>1 DEF RebuildInv
<1>5. Settled'
  BY <1>1, <1>4 DEF Settled
<1>6. TypeOK'
  <2>1. \A u \in Threads : pc'[u] \in {"rebuild", "publish"} <=> holder' = u
    BY <1>1, <1>2, <1>3, EnnModelAssumption DEF Rebuilding
  <2>2. {scale', queryScale', synced'} \subseteq 0..Len(rows)
    BY <1>1 DEF TypeOK
  <2>. QED
    BY <1>1, <1>2, <2>1, <2>2 DEF TypeOK
<1>7. ReadersInv'
  BY <1>1, <1>2, <1>3, <1>5 DEF ReadersInv, Reading
<1>8. RebuildInv'
  BY <1>1, <1>2, <1>3 DEF RebuildInv, Rebuilding
<1>9. SyncedInv'
  <2>1. ~scaleX => scale = 0
    BY <1>1 DEF SyncedInv, ScaleOf
  <2>. QED
    BY <1>1, <1>4, <1>5, <2>1 DEF SyncedInv, ScaleOf
<1>. QED
  BY <1>6, <1>7, <1>8, <1>9 DEF SyncInv

-----------------------------------------------------------------------------
\* Every step.

\* A search finds the engine of the rows, under the scale it has read.
LEMMA ReadersAreUsable ==
    ASSUME SyncInv, NEW t \in Threads, pc[t] = "find"
    PROVE  Usable(t) /\ rows # <<>>
BY DEF SyncInv, ReadersInv, Reading, Settled, Usable

LEMMA FindAnswers ==
    ASSUME SyncInv, NEW t \in Threads, Find(t)
    PROVE  AnswersAreNearest' /\ ConditionalIsAsAdded'
<1>1. Usable(t) /\ rows # <<>> /\ rows' = rows /\ rows \in Seq(Points)
  BY ReadersAreUsable DEF Find, model, SyncInv, TypeOK
<1>2. PICK query \in Points, k \in 1..MaxNeighbors, exclude \in BOOLEAN, tieBreak \in BOOLEAN,
           whatif \in WhatIfs :
        /\ exclude => Len(rows) + Len(whatif) > 1
        /\ \E found \in IF ~Usable(t) THEN {Meaningless}
                        ELSE IF whatif = <<>>
                        THEN Neighbors(rows, query, k, exclude, tieBreak)
                        ELSE Conditional(rows, whatif, query, k, exclude, tieBreak) :
               answer' = Answered(found, query, k, exclude, whatif)
  BY Zenon DEF Find
<1>3. k \in Nat \ {0} /\ whatif \in Seq(Points) /\ Len(rows) # 0 /\ Len(rows) \in Nat
  <2>1. k \in Nat \ {0}
    BY EnnModelAssumption
  <2>2. whatif \in Seq(Points)
    <3>1. CASE whatif = <<>>
      BY <3>1
    <3>2. CASE whatif # <<>>
      <4>1. PICK p \in Points : whatif = <<p>>
        BY <3>2 DEF WhatIfs
      <4>. QED
        BY <4>1
    <3>. QED
      BY <3>1, <3>2
  <2>3. Len(rows) # 0 /\ Len(rows) \in Nat
    BY <1>1
  <2>. QED
    BY <2>1, <2>2, <2>3
<1>4. answer'.whatif = whatif /\ answer'.k = k
  BY <1>2 DEF Answered
<1>5. CASE whatif = <<>>
  <2>1. PICK found \in Neighbors(rows, query, k, exclude, tieBreak) :
            answer' = Answered(found, query, k, exclude, whatif)
    BY <1>1, <1>2, <1>5
  <2>2. exclude => Len(rows) > 1
    BY <1>2, <1>3, <1>5
  <2>3. Right(answer', rows)
    BY <1>1, <1>3, <2>1, <2>2, NeighborsAreRight
  <2>. QED
    BY <1>1, <1>4, <1>5, <2>3 DEF Right, AnswersAreNearest, ConditionalIsAsAdded
<1>6. CASE whatif # <<>>
  <2>1. PICK found \in Conditional(rows, whatif, query, k, exclude, tieBreak) :
            answer' = Answered(found, query, k, exclude, whatif)
    BY <1>1, <1>2, <1>6
  <2>2. Right(answer', rows \o whatif)
    BY <1>1, <1>2, <1>3, <1>6, <2>1, ConditionalIsRight
  <2>. QED
    BY <1>1, <1>4, <1>6, <2>2 DEF Right, AnswersAreNearest, ConditionalIsAsAdded
<1>. QED
  BY <1>5, <1>6

LEMMA WithoutRowsAnswers ==
    ASSUME SyncInv, NEW t \in Threads, AnswerWithoutRows(t)
    PROVE  AnswersAreNearest' /\ ConditionalIsAsAdded'
<1>1. rows = <<>> /\ rows' = rows /\ rows \in Seq(Points)
  BY DEF AnswerWithoutRows, model, SyncInv, TypeOK
<1>2. PICK query \in Points, k \in 1..MaxNeighbors, p \in Points :
          \E found \in Conditional(rows, <<p>>, query, k, FALSE, TRUE) :
              answer' = Answered(found, query, k, FALSE, <<p>>)
  BY DEF AnswerWithoutRows
<1>3. PICK found \in Conditional(rows, <<p>>, query, k, FALSE, TRUE) :
          answer' = Answered(found, query, k, FALSE, <<p>>)
  BY <1>2
<1>4. k \in Nat \ {0} /\ <<p>> \in Seq(Points) /\ <<p>> # <<>>
  BY EnnModelAssumption
<1>5. FALSE \in BOOLEAN /\ TRUE \in BOOLEAN /\ (FALSE => Len(rows) + Len(<<p>>) > 1)
  OBVIOUS
<1>6. Right(Answered(found, query, k, FALSE, <<p>>), rows \o <<p>>)
  BY <1>1, <1>4, <1>5, ConditionalIsRight
<1>7. answer'.whatif = <<p>>
  BY <1>3 DEF Answered
<1>. QED
  BY <1>1, <1>3, <1>4, <1>6, <1>7 DEF Right, AnswersAreNearest, ConditionalIsAsAdded

LEMMA NoAnswerAnswers ==
    ASSUME answer' = NoAnswer
    PROVE  AnswersAreNearest' /\ ConditionalIsAsAdded'
<1>1. answer'.k = 0
  BY DEF NoAnswer
<1>. QED
  BY <1>1 DEF AnswersAreNearest, ConditionalIsAsAdded

LEMMA NextKeeps == EnnInv /\ [Next]_vars => EnnInv'
<1> SUFFICES ASSUME EnnInv, [Next]_vars PROVE EnnInv'
  OBVIOUS
<1>1. SyncInv /\ AnswersAreNearest /\ ConditionalIsAsAdded
  BY DEF EnnInv
<1>2. CASE Add
  <2>1. answer' = NoAnswer
    BY <1>2 DEF Add
  <2>. QED
    BY <1>1, <1>2, <2>1, AddKeeps, NoAnswerAnswers DEF EnnInv
<1>3. ASSUME NEW t \in Threads,
             \/ Begin(t) \/ SyncScaled(t) \/ SyncPlain(t) \/ Rebuild(t) \/ RebuildFails(t)
             \/ Publish(t) \/ ReadLen(t) \/ ReadScale(t)
      PROVE  EnnInv'
  <2>1. SyncInv'
    BY <1>1, <1>3, BeginKeeps, SyncScaledKeeps, SyncPlainKeeps, RebuildKeeps, RebuildFailsKeeps,
       PublishKeeps, ReadLenKeeps, ReadScaleKeeps
  <2>2. answer' = NoAnswer
    BY <1>3, Zenon DEF Begin, SyncScaled, SyncPlain, Rebuild, RebuildFails, Publish, ReadLen,
                       ReadScale, Goes
  <2>. QED
    BY <2>1, <2>2, NoAnswerAnswers DEF EnnInv
<1>4. ASSUME NEW t \in Threads, AnswerWithoutRows(t)
      PROVE  EnnInv'
  <2>1. UNCHANGED <<scaleX, rows, scale, stale, synced, index, queryScale, holder, pc,
                    local, faults>>
    BY <1>4 DEF AnswerWithoutRows, model, backend
  <2>2. SyncInv'
    BY <1>1, <2>1, NothingMovesKeeps
  <2>. QED
    BY <1>1, <1>4, <2>2, WithoutRowsAnswers DEF EnnInv
<1>5. ASSUME NEW t \in Threads, Find(t)
      PROVE  EnnInv'
  BY <1>1, <1>5, FindKeeps, FindAnswers DEF EnnInv
<1>6. CASE UNCHANGED vars
  <2>1. /\ UNCHANGED <<scaleX, rows, scale, stale, synced, index, queryScale, holder, pc,
                       local, faults>>
        /\ UNCHANGED answer
    BY <1>6 DEF vars
  <2>2. SyncInv'
    BY <1>1, <2>1, NothingMovesKeeps
  <2>3. AnswersAreNearest' /\ ConditionalIsAsAdded'
    BY <1>1, <2>1 DEF AnswersAreNearest, ConditionalIsAsAdded
  <2>. QED
    BY <2>2, <2>3 DEF EnnInv
<1>7. \/ Add
      \/ \E t \in Threads :
            \/ Begin(t) \/ AnswerWithoutRows(t) \/ SyncScaled(t) \/ SyncPlain(t) \/ Rebuild(t)
            \/ RebuildFails(t) \/ Publish(t) \/ ReadLen(t) \/ ReadScale(t) \/ Find(t)
      \/ UNCHANGED vars
  BY Zenon DEF Next
<1>. QED
  BY <1>2, <1>3, <1>4, <1>5, <1>6, <1>7, Zenon

-----------------------------------------------------------------------------
\* The theorems.

\* What is inductive: readers, the thread that rebuilds and what counts as up
\* to date, and with them the answers.
THEOREM EnnInvariance == Spec => []EnnInv
<1>1. Init => EnnInv
  <2> SUFFICES ASSUME Init PROVE EnnInv
    OBVIOUS
  <2>1. SyncInv /\ answer.k = 0
    BY InitEstablishes DEF NoAnswer
  <2>. QED
    BY <2>1 DEF EnnInv, AnswersAreNearest, ConditionalIsAsAdded
<1>. QED
  BY <1>1, NextKeeps, PTL DEF Spec

\* No caller searches an index that another one has rebuilt, emptied or left
\* behind the rows, or with a scale other than the engine's: the search reads
\* the size, the scale and the rows under a lock each (ENNIndex::search).
SearchesMeetTheRows == \A t \in Threads : pc[t] = "find" => Usable(t)

THEOREM SearchesAlwaysMeetTheRows == Spec => []SearchesMeetTheRows
<1>1. EnnInv => SearchesMeetTheRows
  BY ReadersAreUsable DEF EnnInv, SearchesMeetTheRows
<1>. QED
  BY <1>1, EnnInvariance, PTL

\* Every posterior rests on the nearest of all rows that were added
\* (ensure_index_sync, ENNIndex::search, exact_f64_batch_topk).
THEOREM AnswersAlwaysNearest == Spec => []AnswersAreNearest
<1>1. EnnInv => AnswersAreNearest
  BY DEF EnnInv
<1>. QED
  BY <1>1, EnnInvariance, PTL

\* Every conditional posterior rests on the neighbours there would be if the
\* what-if points had been added (get_conditional_neighbor_data).
THEOREM ConditionalAlwaysAsAdded == Spec => []ConditionalIsAsAdded
<1>1. EnnInv => ConditionalIsAsAdded
  BY DEF EnnInv
<1>. QED
  BY <1>1, EnnInvariance, PTL

\* The same of a behaviour of the model and the asks: the asks leave the
\* model alone.
THEOREM SurrogateImplementsModel == SurrogateSpec => Spec
<1>1. SurrogateInit => Init
  BY DEF SurrogateInit
<1>2. [SurrogateNext]_surrogateVars => [Next]_vars
  BY DEF SurrogateNext, surrogateVars
<1>. QED
  BY <1>1, <1>2, PTL DEF SurrogateSpec, Spec

=============================================================================
