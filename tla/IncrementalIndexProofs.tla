----------------------- MODULE IncrementalIndexProofs -----------------------
(***************************************************************************)
(* The fragments of a disk backend's index list each indexed row once,     *)
(* under pages that are numbered, linked and placed as they should be, and *)
(* there are few of them, after any appends, syncs, compactions, resets    *)
(* and reopenings. A search of them loses no row that waits for the index, *)
(* and finds the nearest rows where it scores every leaf.                  *)
(*                                                                         *)
(* The order of the lemmas is that of the code: sequences and sums, the    *)
(* split of a batch into clusters, the pages of a tree, the span that a    *)
(* sync indexes, the merge of fragments, compaction and the steps; then    *)
(* candidates in order, the search of one index, of all fragments and of   *)
(* the tail.                                                               *)
(***************************************************************************)
EXTENDS IncrementalIndex, NumberFacts, FiniteSetTheorems

-----------------------------------------------------------------------------
(* Sets in order                                                           *)

\* ahead[e] are the elements before e in a strict total order of a finite set.
IsOrder(S, ahead) ==
    /\ IsFiniteSet(S)
    /\ ahead \in [S -> SUBSET S]
    /\ \A e \in S : e \notin ahead[e]
    /\ \A d, e \in S : d # e => d \in ahead[e] \/ e \in ahead[d]
    /\ \A d, e \in S : d \in ahead[e] => ahead[d] \subseteq ahead[e]

\* What Ordered makes of such a set: every element has a place, one more than
\* there are elements before it.
LEMMA RankIs ==
    ASSUME NEW S, NEW ahead, IsOrder(S, ahead)
    PROVE  /\ Cardinality(S) \in Nat
           /\ \A e \in S : Cardinality(ahead[e]) \in 0..(Cardinality(S) - 1)
           /\ \A d, e \in S : d \in ahead[e] <=> Cardinality(ahead[d]) < Cardinality(ahead[e])
<1>1. Cardinality(S) \in Nat
  BY FS_CardinalityType DEF IsOrder
<1>2. ASSUME NEW e \in S PROVE Cardinality(ahead[e]) \in 0..(Cardinality(S) - 1)
  <2>1. ahead[e] \in SUBSET (S \ {e}) /\ IsFiniteSet(S)
    BY DEF IsOrder
  <2>2. IsFiniteSet(S \ {e}) /\ Cardinality(S \ {e}) = Cardinality(S) - 1
    BY <2>1, FS_RemoveElement
  <2>3. IsFiniteSet(ahead[e]) /\ Cardinality(ahead[e]) <= Cardinality(S) - 1
    BY <2>1, <2>2, FS_Subset
  <2>. QED
    BY <1>1, <2>3, FS_CardinalityType
<1>3. ASSUME NEW d \in S, NEW e \in S, d \in ahead[e]
      PROVE  Cardinality(ahead[d]) < Cardinality(ahead[e])
  <2>1. ahead[e] \in SUBSET S /\ IsFiniteSet(S) /\ ahead[d] \in SUBSET (ahead[e] \ {d})
    BY <1>3 DEF IsOrder
  <2>2. IsFiniteSet(ahead[e])
    BY <2>1, FS_Subset
  <2>3. IsFiniteSet(ahead[e] \ {d}) /\ Cardinality(ahead[e] \ {d}) = Cardinality(ahead[e]) - 1
    BY <1>3, <2>2, FS_RemoveElement
  <2>4. Cardinality(ahead[d]) <= Cardinality(ahead[e]) - 1
    BY <2>1, <2>3, FS_Subset
  <2>. QED
    BY <1>1, <1>2, <2>4
<1>4. ASSUME NEW d \in S, NEW e \in S, Cardinality(ahead[d]) < Cardinality(ahead[e])
      PROVE  d \in ahead[e]
  <2>1. d # e
    BY <1>1, <1>2, <1>4
  <2>2. d \in ahead[e] \/ e \in ahead[d]
    BY <2>1 DEF IsOrder
  <2>. QED
    BY <1>1, <1>2, <1>3, <1>4, <2>2
<1>. QED
  BY <1>1, <1>2, <1>3, <1>4

\* Such a set as a sequence: each element once, none before one it follows.
LEMMA OrderedIs ==
    ASSUME NEW S, NEW ahead, IsOrder(S, ahead)
    PROVE  /\ Cardinality(S) \in Nat
           /\ Ordered(S, ahead) \in [1..Cardinality(S) -> S]
           /\ \A m \in 1..Cardinality(S) : Cardinality(ahead[Ordered(S, ahead)[m]]) = m - 1
           /\ \A m, n \in 1..Cardinality(S) :
                 m < n <=> Ordered(S, ahead)[m] \in ahead[Ordered(S, ahead)[n]]
           /\ \A m, n \in 1..Cardinality(S) : Ordered(S, ahead)[m] = Ordered(S, ahead)[n] => m = n
           /\ \A e \in S : \E m \in 1..Cardinality(S) : Ordered(S, ahead)[m] = e
<1> DEFINE n == Cardinality(S)
           rank == [e \in S |-> Cardinality(ahead[e]) + 1]
           order == Ordered(S, ahead)
<1>1. n \in Nat /\ \A e \in S : rank[e] \in 1..n /\ rank[e] = Cardinality(ahead[e]) + 1
  BY RankIs
<1>2. \A d, e \in S : d \in ahead[e] <=> rank[d] < rank[e]
  <2>1. \A e \in S : Cardinality(ahead[e]) \in 0..(Cardinality(S) - 1)
    BY RankIs
  <2>2. \A d, e \in S : d \in ahead[e] <=> Cardinality(ahead[d]) < Cardinality(ahead[e])
    BY RankIs
  <2>. QED
    BY <1>1, <2>1, <2>2
<1>3. rank \in Injection(S, 1..n)
  <2>1. rank \in [S -> 1..n]
    BY <1>1
  <2>2. ASSUME NEW d \in S, NEW e \in S, rank[d] = rank[e] PROVE d = e
    <3>1. d # e => d \in ahead[e] \/ e \in ahead[d]
      BY DEF IsOrder
    <3>2. ~(rank[d] < rank[e]) /\ ~(rank[e] < rank[d])
      BY <1>1, <2>2
    <3>. QED
      BY <1>2, <3>1, <3>2
  <2> HIDE DEF rank
  <2>. QED
    BY <2>1, <2>2 DEF Injection, IsInjective
<1>4. \A m \in 1..n : \E e \in S : rank[e] = m
  <2>1. IsFiniteSet(1..n) /\ Cardinality(1..n) = n
    <3>1. IsFiniteSet(1..n) /\ Cardinality(1..n) = IF 1 > n THEN 0 ELSE n - 1 + 1
      BY <1>1, FS_Interval
    <3>. QED
      BY <1>1, <3>1
  <2> HIDE DEF rank
  <2>2. rank \in Surjection(S, 1..n)
    BY <1>3, <2>1, FS_Injection
  <2>. QED
    BY <2>2 DEF Surjection
<1>5. /\ DOMAIN order = 1..n
      /\ \A m \in 1..n : order[m] = CHOOSE e \in S : Cardinality(ahead[e]) = m - 1
  BY DEF Ordered
<1>6. ASSUME NEW m \in 1..n PROVE order[m] \in S /\ rank[order[m]] = m
  <2>1. PICK e \in S : rank[e] = m
    BY <1>4
  <2>2. Cardinality(ahead[e]) = m - 1
    <3>1. Cardinality(ahead[e]) \in 0..(Cardinality(S) - 1)
      BY RankIs
    <3>. QED
      BY <1>1, <2>1, <3>1
  <2>3. order[m] \in S /\ Cardinality(ahead[order[m]]) = m - 1
    BY <1>5, <2>2
  <2>. QED
    BY <1>1, <2>3
<1>7. order \in [1..n -> S]
  <2>1. order = [m \in 1..n |-> order[m]]
    BY DEF Ordered
  <2>. QED
    BY <1>6, <2>1
<1>8. \A a, b \in 1..n : order[a] = order[b] => a = b
  BY <1>6
<1>9. \A a, b \in 1..n : a < b <=> order[a] \in ahead[order[b]]
  <2> TAKE a, b \in 1..n
  <2>1. order[a] \in S /\ order[b] \in S /\ rank[order[a]] = a /\ rank[order[b]] = b
    BY <1>6
  <2> HIDE DEF order, rank
  <2>. QED
    BY <1>2, <2>1
<1>10. \A e \in S : \E m \in 1..n : order[m] = e
  <2> TAKE e \in S
  <2>1. rank[e] \in 1..n
    BY <1>1
  <2>2. order[rank[e]] \in S /\ rank[order[rank[e]]] = rank[e]
    BY <1>6, <2>1
  <2>3. order[rank[e]] = e
    BY <1>3, <2>2 DEF Injection, IsInjective
  <2>. QED
    BY <2>1, <2>3
<1>11. \A m \in 1..n : Cardinality(ahead[order[m]]) = m - 1
  <2> TAKE m \in 1..n
  <2>1. order[m] \in S /\ rank[order[m]] = m
    BY <1>6
  <2>2. Cardinality(ahead[order[m]]) \in 0..(Cardinality(S) - 1)
    BY <2>1, RankIs
  <2>. QED
    BY <1>1, <2>1, <2>2
<1>. QED
  BY <1>1, <1>7, <1>8, <1>9, <1>10, <1>11

\* Numbers in ascending order.
LEMMA AscendingIs ==
    ASSUME NEW S \in SUBSET Int, IsFiniteSet(S)
    PROVE  /\ Cardinality(S) \in Nat
           /\ Ascending(S) \in [1..Cardinality(S) -> S]
           /\ \A m, n \in 1..Cardinality(S) : m < n <=> Ascending(S)[m] < Ascending(S)[n]
           /\ \A m, n \in 1..Cardinality(S) : Ascending(S)[m] = Ascending(S)[n] => m = n
           /\ \A e \in S : \E m \in 1..Cardinality(S) : Ascending(S)[m] = e
<1> DEFINE ahead == [e \in S |-> {d \in S : d < e}]
<1>1. IsOrder(S, ahead)
  <2>1. ahead \in [S -> SUBSET S]
    OBVIOUS
  <2>2. \A d, e \in S : d \in ahead[e] <=> d < e
    OBVIOUS
  <2>3. \A e \in S : ahead[e] \subseteq S
    OBVIOUS
  <2> HIDE DEF ahead
  <2>4. \A e \in S : e \notin ahead[e]
    BY <2>2
  <2>5. \A d, e \in S : d # e => d \in ahead[e] \/ e \in ahead[d]
    BY <2>2
  <2>6. ASSUME NEW d \in S, NEW e \in S, d \in ahead[e], NEW c \in ahead[d] PROVE c \in ahead[e]
    <3>1. c \in S /\ c < d /\ d < e
      BY <2>2, <2>3, <2>6
    <3>2. c \in Int /\ d \in Int /\ e \in Int
      BY <3>1
    <3>3. c < e
      BY <3>1, <3>2
    <3>. QED
      BY <2>2, <3>1, <3>3
  <2>. QED
    BY <2>1, <2>4, <2>5, <2>6 DEF IsOrder
<1>2. Ascending(S) = Ordered(S, ahead)
  BY DEF Ascending
<1>3. /\ Cardinality(S) \in Nat
      /\ Ordered(S, ahead) \in [1..Cardinality(S) -> S]
      /\ \A m, n \in 1..Cardinality(S) :
            m < n <=> Ordered(S, ahead)[m] \in ahead[Ordered(S, ahead)[n]]
      /\ \A m, n \in 1..Cardinality(S) : Ordered(S, ahead)[m] = Ordered(S, ahead)[n] => m = n
      /\ \A e \in S : \E m \in 1..Cardinality(S) : Ordered(S, ahead)[m] = e
  <2> HIDE DEF ahead
  <2>. QED
    BY <1>1, OrderedIs
<1>4. \A d, e \in S : d \in ahead[e] <=> d < e
  OBVIOUS
<1> HIDE DEF ahead
<1>5. \A m, n \in 1..Cardinality(S) : m < n <=> Ascending(S)[m] < Ascending(S)[n]
  <2> TAKE m, n \in 1..Cardinality(S)
  <2>1. Ordered(S, ahead)[m] \in S /\ Ordered(S, ahead)[n] \in S
    BY <1>3
  <2>. QED
    BY <1>2, <1>3, <1>4, <2>1
<1>. QED
  BY <1>2, <1>3, <1>5

\* Some elements of a sequence are a sequence, in their order.
LEMMA ChosenIs ==
    ASSUME NEW s, NEW places \in SUBSET Nat, NEW top \in Nat, \A p \in places : p <= top
    PROVE  /\ IsFiniteSet(places) /\ Cardinality(places) \in Nat
           /\ Ascending(places) \in [1..Cardinality(places) -> places]
           /\ \A m, n \in 1..Cardinality(places) :
                 m < n <=> Ascending(places)[m] < Ascending(places)[n]
           /\ \A m, n \in 1..Cardinality(places) :
                 Ascending(places)[m] = Ascending(places)[n] => m = n
           /\ \A p \in places : \E m \in 1..Cardinality(places) : Ascending(places)[m] = p
           /\ Chosen(s, places) = [m \in 1..Cardinality(places) |-> s[Ascending(places)[m]]]
           /\ Len(Chosen(s, places)) = Cardinality(places)
           /\ DOMAIN Chosen(s, places) = 1..Cardinality(places)
           /\ \A m \in 1..Cardinality(places) : Chosen(s, places)[m] = s[Ascending(places)[m]]
<1>1. IsFiniteSet(places)
  BY FS_BoundedSetOfNaturals
<1>2. places \in SUBSET Int
  OBVIOUS
<1>3. /\ Cardinality(places) \in Nat
      /\ Ascending(places) \in [1..Cardinality(places) -> places]
      /\ \A m, n \in 1..Cardinality(places) :
            m < n <=> Ascending(places)[m] < Ascending(places)[n]
      /\ \A m, n \in 1..Cardinality(places) :
            Ascending(places)[m] = Ascending(places)[n] => m = n
      /\ \A p \in places : \E m \in 1..Cardinality(places) : Ascending(places)[m] = p
  BY <1>1, <1>2, AscendingIs
<1>4. Chosen(s, places) = [m \in 1..Cardinality(places) |-> s[Ascending(places)[m]]]
  BY DEF Chosen
<1>5. Len(Chosen(s, places)) = Cardinality(places)
  BY <1>3, <1>4
<1>. QED
  BY <1>1, <1>3, <1>4, <1>5

\* The elements chosen, as a set.
LEMMA ChosenOf ==
    ASSUME NEW T, NEW s \in Seq(T), NEW places \in SUBSET (1..Len(s))
    PROVE  /\ Chosen(s, places) \in Seq(T)
           /\ ToSet(Chosen(s, places)) = {s[p] : p \in places}
           /\ Len(Chosen(s, places)) = Cardinality(places)
           /\ Cardinality(places) \in 0..Len(s)
           /\ (places = {}) = (Chosen(s, places) = <<>>)
<1> DEFINE n == Cardinality(places)
           at == Ascending(places)
<1>1. places \in SUBSET Nat /\ Len(s) \in Nat /\ \A p \in places : p <= Len(s)
  OBVIOUS
<1>2. /\ IsFiniteSet(places) /\ n \in Nat
      /\ at \in [1..n -> places]
      /\ \A p \in places : \E m \in 1..n : at[m] = p
      /\ Chosen(s, places) = [m \in 1..n |-> s[at[m]]]
      /\ Len(Chosen(s, places)) = n
  BY <1>1, ChosenIs
<1> HIDE DEF n, at
<1>3. ASSUME NEW m \in 1..n PROVE s[at[m]] \in T
  <2>1. at[m] \in 1..Len(s)
    BY <1>2
  <2>. QED
    BY <2>1
<1>4. Chosen(s, places) \in Seq(T)
  BY <1>2, <1>3
<1>5. ToSet(Chosen(s, places)) = {s[at[m]] : m \in 1..n}
  BY <1>2 DEF ToSet
<1>6. {s[at[m]] : m \in 1..n} = {s[p] : p \in places}
  BY <1>2
<1>7. n <= Len(s)
  <2>1. IsFiniteSet(1..Len(s)) /\ Cardinality(1..Len(s)) = Len(s)
    <3>1. IsFiniteSet(1..Len(s)) /\ Cardinality(1..Len(s)) = IF 1 > Len(s) THEN 0 ELSE Len(s) - 1 + 1
      BY <1>1, FS_Interval
    <3>. QED
      BY <1>1, <3>1
  <2>. QED
    BY <2>1, FS_Subset DEF n
<1>8. (places = {}) = (Chosen(s, places) = <<>>)
  <2>1. places = {} <=> n = 0
    BY <1>2, FS_EmptySet DEF n
  <2>2. n = 0 <=> Chosen(s, places) = <<>>
    BY <1>2, <1>4
  <2>. QED
    BY <2>1, <2>2
<1>9. n \in 0..Len(s)
  BY <1>1, <1>2, <1>7
<1>. QED
  BY <1>2, <1>4, <1>5, <1>6, <1>8, <1>9 DEF n

-----------------------------------------------------------------------------
(* Sums, and places in a concatenation                                     *)

\* The sums of any counts.
LEMMA SumsIs ==
    ASSUME NEW n \in Nat, NEW counts \in [1..n -> Int]
    PROVE  /\ Sums(counts) \in [0..n -> Int]
           /\ Sums(counts)[0] = 0
           /\ \A k \in 1..n : Sums(counts)[k] = Sums(counts)[k - 1] + counts[k]
<1> DEFINE g == [k \in 1..n |-> [a \in Int |-> a + counts[k]]]
           Steps(h) == h = [k \in 0..Len(counts) |-> IF k = 0 THEN 0 ELSE h[k - 1] + counts[k]]
           sum == CHOOSE h : Steps(h)
           S == {k \in 0..n : sum[k] \in Int}
<1>1. Len(counts) = n /\ \A k \in 1..n : counts[k] \in Int
  OBVIOUS
<1>2. g \in [1..n -> [Int -> Int]]
  BY <1>1
<1> HIDE DEF g
<1>3. PICK f : Iterates(f, n, Int, 0, g)
  <2>1. n \in Nat /\ 0 \in Int
    OBVIOUS
  <2>. QED
    BY <1>2, <2>1, Iterated
<1>4. Steps(f)
  <2>1. f \in [0..n -> Int] /\ f[0] = 0 /\ \A k \in 1..n : f[k] = g[k][f[k - 1]]
    BY <1>3 DEF Iterates
  <2>2. ASSUME NEW k \in 1..n PROVE f[k] = f[k - 1] + counts[k]
    <3>1. k - 1 \in 0..n
      OBVIOUS
    <3>2. f[k - 1] \in Int
      BY <2>1, <3>1
    <3>. QED
      BY <2>1, <3>2 DEF g
  <2>3. \A k \in 0..n : k # 0 => k \in 1..n
    OBVIOUS
  <2>. QED
    BY <1>1, <2>1, <2>2, <2>3
<1> HIDE DEF Steps
<1>5. Steps(sum)
  BY <1>4
<1> HIDE DEF sum
<1>6. /\ DOMAIN sum = 0..n /\ sum[0] = 0
      /\ \A k \in 1..n : sum[k] = sum[k - 1] + counts[k]
  <2>1. 0 \in 0..n /\ \A k \in 1..n : k \in 0..n /\ k # 0
    OBVIOUS
  <2>. QED
    BY <1>1, <1>5, <2>1 DEF Steps
<1>7. \A k \in 0..n : k \in S
  <2>1. 0 \in S
    BY <1>6
  <2>2. ASSUME NEW k \in 0..(n - 1), k \in S PROVE k + 1 \in S
    <3>1. k + 1 \in 1..n /\ k + 1 \in 0..n /\ (k + 1) - 1 = k
      OBVIOUS
    <3>2. sum[k + 1] = sum[k] + counts[k + 1]
      BY <1>6, <3>1
    <3>. QED
      BY <1>1, <2>2, <3>1, <3>2
  <2> HIDE DEF S
  <2>. QED
    BY <2>1, <2>2, UpTo
<1>8. sum \in [0..n -> Int]
  <2>1. Steps(sum) => sum = [k \in 0..n |-> sum[k]]
    BY <1>1, <1>6 DEF Steps
  <2>. QED
    BY <1>5, <1>7, <2>1
<1>9. Sums(counts) = sum
  BY Zenon DEF Sums, sum, Steps
<1>. QED
  BY <1>6, <1>8, <1>9

\* Sums of natural numbers grow, and a number below the last sum is in the
\* part of one summand.
LEMMA SumsGrow ==
    ASSUME NEW n \in Nat, NEW counts \in [1..n -> Nat]
    PROVE  /\ Sums(counts) \in [0..n -> Nat]
           /\ Sums(counts)[0] = 0
           /\ \A k \in 1..n : Sums(counts)[k] = Sums(counts)[k - 1] + counts[k]
           /\ \A i, j \in 0..n : i <= j => Sums(counts)[i] <= Sums(counts)[j]
           /\ \A p \in 1..Sums(counts)[n] :
                 \E i \in 1..n : \E j \in 1..counts[i] : p = Sums(counts)[i - 1] + j
<1> DEFINE sum == Sums(counts)
<1>1. counts \in [1..n -> Int]
  OBVIOUS
<1>2. /\ sum \in [0..n -> Int] /\ sum[0] = 0
      /\ \A k \in 1..n : sum[k] = sum[k - 1] + counts[k]
  BY <1>1, SumsIs
<1> HIDE DEF sum
<1>3. \A j \in 0..n : sum[j] \in Nat /\ \A i \in 0..j : sum[i] <= sum[j]
  <2> DEFINE S == {j \in 0..n : sum[j] \in Nat /\ \A i \in 0..j : sum[i] <= sum[j]}
  <2>1. 0 \in S
    BY <1>2
  <2>2. ASSUME NEW k \in 0..(n - 1), k \in S PROVE k + 1 \in S
    <3>1. k + 1 \in 1..n /\ k + 1 \in 0..n /\ (k + 1) - 1 = k
      OBVIOUS
    <3>2. sum[k + 1] = sum[k] + counts[k + 1] /\ counts[k + 1] \in Nat
      BY <1>2, <3>1
    <3>3. \A i \in 0..(k + 1) : i \in 0..k \/ i = k + 1
      OBVIOUS
    <3>4. \A i \in 0..k : sum[i] \in Int
      BY <1>2
    <3>. QED
      BY <2>2, <3>1, <3>2, <3>3, <3>4
  <2>3. \A k \in 0..n : k \in S
    <3> HIDE DEF S
    <3>. QED
      BY <2>1, <2>2, UpTo
  <2>. QED
    BY <2>3
<1>4. ASSUME NEW p \in 1..sum[n]
      PROVE  \E i \in 1..n : \E j \in 1..counts[i] : p = sum[i - 1] + j
  <2> DEFINE T == {k \in 0..n : p <= sum[k]}
  <2>1. T \in SUBSET Nat /\ n \in T
    BY <1>3
  <2>2. PICK i \in T : \A y \in T : i <= y
    BY <2>1, LeastNumber
  <2>3. i # 0
    BY <1>2, <2>2
  <2>4. i \in 1..n /\ i - 1 \in 0..n /\ i - 1 \notin T
    BY <2>2, <2>3
  <2>5. sum[i - 1] < p /\ p <= sum[i] /\ sum[i - 1] \in Int
    BY <1>2, <2>2, <2>4
  <2>6. sum[i] = sum[i - 1] + counts[i] /\ counts[i] \in Nat
    BY <1>2, <2>4
  <2>7. p - sum[i - 1] \in 1..counts[i] /\ p = sum[i - 1] + (p - sum[i - 1])
    BY <2>5, <2>6
  <2>. QED
    BY <2>4, <2>7
<1>5. sum \in [0..n -> Nat]
  BY <1>2, <1>3
<1>. QED
  BY <1>2, <1>3, <1>4, <1>5 DEF sum

\* The place of an element in a concatenation is that of one element.
LEMMA PlaceOnce ==
    ASSUME NEW n \in Nat, NEW counts \in [1..n -> Nat], NEW a \in 1..n, NEW b \in 1..n,
           NEW i \in 1..counts[a], NEW j \in 1..counts[b],
           Sums(counts)[a - 1] + i = Sums(counts)[b - 1] + j
    PROVE  a = b /\ i = j
<1> DEFINE sum == Sums(counts)
<1>1. /\ sum \in [0..n -> Nat]
      /\ \A k \in 1..n : sum[k] = sum[k - 1] + counts[k]
      /\ \A k, m \in 0..n : k <= m => sum[k] <= sum[m]
  BY SumsGrow
<1>2. sum[a - 1] + i = sum[b - 1] + j
  OBVIOUS
<1> HIDE DEF sum
<1>3. a - 1 \in 0..n /\ b - 1 \in 0..n /\ a \in 0..n /\ b \in 0..n
  OBVIOUS
<1>4. sum[a - 1] \in Nat /\ sum[b - 1] \in Nat /\ counts[a] \in Nat /\ counts[b] \in Nat
      /\ sum[a] = sum[a - 1] + counts[a] /\ sum[b] = sum[b - 1] + counts[b]
  BY <1>1, <1>3
<1>5. ~(a < b)
  <2> SUFFICES ASSUME a < b PROVE FALSE
    OBVIOUS
  <2>1. sum[a] <= sum[b - 1]
    <3>1. a <= b - 1
      OBVIOUS
    <3>. QED
      BY <1>1, <1>3, <3>1
  <2>2. i \in Nat /\ j \in Nat /\ i <= counts[a] /\ 1 <= j
    BY <1>4
  <2>. QED
    BY <1>2, <1>4, <2>1, <2>2, SMTT(30)
<1>6. ~(b < a)
  <2> SUFFICES ASSUME b < a PROVE FALSE
    OBVIOUS
  <2>1. sum[b] <= sum[a - 1]
    <3>1. b <= a - 1
      OBVIOUS
    <3>. QED
      BY <1>1, <1>3, <3>1
  <2>2. i \in Nat /\ j \in Nat /\ j <= counts[b] /\ 1 <= i
    BY <1>4
  <2>. QED
    BY <1>2, <1>4, <2>1, <2>2, SMTT(30)
<1>. QED
  BY <1>2, <1>4, <1>5, <1>6, SMTT(30)

\* Two sequences one after the other.
LEMMA ConcatIs ==
    ASSUME NEW T, NEW a \in Seq(T), NEW b \in Seq(T)
    PROVE  /\ a \o b \in Seq(T)
           /\ Len(a \o b) = Len(a) + Len(b)
           /\ \A p \in 1..Len(a) : (a \o b)[p] = a[p]
           /\ \A p \in 1..Len(b) : (a \o b)[Len(a) + p] = b[p]
  OBVIOUS

\* n sequences of elements of T, and their lengths.
AreSeqs(n, seqs, T) == seqs \in [1..n -> Seq(T)]
Lengths(n, seqs) == [i \in 1..n |-> Len(seqs[i])]

\* The sequences of seqs one after the other.
LEMMA FlattenIs ==
    ASSUME NEW T, NEW n \in Nat, NEW seqs, AreSeqs(n, seqs, T)
    PROVE  /\ FlattenSeq(seqs) \in Seq(T)
           /\ Lengths(n, seqs) \in [1..n -> Nat]
           /\ Len(FlattenSeq(seqs)) = Sums(Lengths(n, seqs))[n]
           /\ \A i \in 1..n : \A j \in 1..Len(seqs[i]) :
                 /\ Sums(Lengths(n, seqs))[i - 1] + j \in 1..Sums(Lengths(n, seqs))[n]
                 /\ FlattenSeq(seqs)[Sums(Lengths(n, seqs))[i - 1] + j] = seqs[i][j]
<1> DEFINE counts == Lengths(n, seqs)
<1>1. counts \in [1..n -> Nat] /\ \A i \in 1..n : counts[i] = Len(seqs[i])
  BY DEF Lengths, AreSeqs
<1> HIDE DEF counts
<1> DEFINE sum == Sums(counts)
           g == [k \in 1..n |-> [t \in Seq(T) |-> t \o seqs[k]]]
           Steps(h) == h = [i \in 1..Len(seqs) |-> IF i = 1 THEN seqs[i] ELSE h[i - 1] \o seqs[i]]
           flat == CHOOSE h : Steps(h)
           Right(k) == /\ flat[k] \in Seq(T)
                       /\ Len(flat[k]) = sum[k]
                       /\ \A i \in 1..k : \A j \in 1..counts[i] :
                             /\ sum[i - 1] + j \in 1..sum[k]
                             /\ flat[k][sum[i - 1] + j] = seqs[i][j]
           S == {k \in 0..n : k # 0 => Right(k)}
<1>2. Len(seqs) = n /\ \A k \in 1..n : seqs[k] \in Seq(T) /\ counts[k] \in Nat
                                      /\ Len(seqs[k]) = counts[k]
  BY <1>1 DEF AreSeqs
<1>3. /\ sum \in [0..n -> Nat] /\ sum[0] = 0
      /\ \A k \in 1..n : sum[k] = sum[k - 1] + counts[k]
      /\ \A i, j \in 0..n : i <= j => sum[i] <= sum[j]
  BY <1>1, SumsGrow
<1> HIDE DEF sum
<1>4. CASE n = 0
  <2>1. Len(seqs) = 0 /\ seqs = <<>>
    BY <1>2, <1>4 DEF AreSeqs
  <2>2. FlattenSeq(seqs) = <<>>
    BY <2>1 DEF FlattenSeq
  <2>. QED
    BY <1>1, <1>3, <1>4, <2>2 DEF sum, counts
<1>5. CASE n # 0
  <2>1. PICK f : Iterates(f, n, Seq(T), <<>>, g)
    <3>1. g \in [1..n -> [Seq(T) -> Seq(T)]] /\ <<>> \in Seq(T)
      BY <1>2
    <3> HIDE DEF g
    <3>. QED
      BY <3>1, Iterated
  <2> DEFINE h == [i \in 1..n |-> f[i]]
  <2>2. Steps(h)
    <3>1. f \in [0..n -> Seq(T)] /\ f[0] = <<>> /\ \A k \in 1..n : f[k] = g[k][f[k - 1]]
      BY <2>1 DEF Iterates
    <3>2. ASSUME NEW k \in 1..n PROVE f[k] = f[k - 1] \o seqs[k]
      <4>1. k - 1 \in 0..n
        OBVIOUS
      <4>2. f[k - 1] \in Seq(T)
        BY <3>1, <4>1
      <4>. QED
        BY <3>1, <4>2
    <3>3. n >= 1 => f[1] = seqs[1]
      <4>1. n >= 1 => f[1] = f[0] \o seqs[1] /\ seqs[1] \in Seq(T)
        BY <1>2, <3>2
      <4>. QED
        BY <3>1, <4>1
    <3>4. \A k \in 1..n : h[k] = IF k = 1 THEN seqs[k] ELSE h[k - 1] \o seqs[k]
      <4> TAKE k \in 1..n
      <4>1. CASE k = 1
        BY <3>3, <4>1
      <4>2. CASE k # 1
        <5>1. k - 1 \in 1..n
          BY <4>2
        <5>2. h[k] = f[k] /\ h[k - 1] = f[k - 1]
          BY <5>1
        <5>. QED
          BY <3>2, <4>2, <5>2
      <4>. QED
        BY <4>1, <4>2
    <3>5. h = [k \in 1..n |-> h[k]]
      OBVIOUS
    <3> HIDE DEF h
    <3>. QED
      BY <1>2, <3>4, <3>5
  <2> HIDE DEF Steps, h
  <2>3. Steps(flat)
    BY <2>2
  <2>4. FlattenSeq(seqs) = flat[n]
    <3>1. Len(seqs) # 0
      BY <1>2, <1>5
    <3>2. FlattenSeq(seqs) = flat[Len(seqs)]
      BY <3>1, Zenon DEF FlattenSeq, flat, Steps
    <3>. QED
      BY <1>2, <3>2
  <2> HIDE DEF flat
  <2>5. \A k \in 1..n : flat[k] = IF k = 1 THEN seqs[k] ELSE flat[k - 1] \o seqs[k]
    BY <1>2, <2>3 DEF Steps
  <2>6. \A k \in 0..n : k \in S
    <3>1. 0 \in S
      OBVIOUS
    <3>2. ASSUME NEW k \in 0..(n - 1), k \in S PROVE k + 1 \in S
      <4>1. k + 1 \in 1..n /\ k + 1 \in 0..n /\ (k + 1) - 1 = k /\ k \in 0..n
        OBVIOUS
      <4>2. seqs[k + 1] \in Seq(T) /\ Len(seqs[k + 1]) = counts[k + 1] /\ counts[k + 1] \in Nat
        BY <1>2, <4>1
      <4>3. sum[k + 1] = sum[k] + counts[k + 1] /\ sum[k] \in Nat /\ sum[k + 1] \in Nat
        BY <1>3, <4>1
      <4>4. CASE k = 0
        <5>1. flat[1] = seqs[1]
          BY <2>5, <4>1, <4>4
        <5>2. \A i \in 1..1 : i = 1
          OBVIOUS
        <5>3. sum[1] = counts[1] /\ sum[1 - 1] = 0
          <6>1. sum[0 + 1] = sum[0] + counts[0 + 1] /\ sum[0] = 0 /\ counts[0 + 1] \in Nat
            BY <1>3, <4>2, <4>3, <4>4
          <6>2. 0 + 1 = 1 /\ 1 - 1 = 0
            OBVIOUS
          <6>. QED
            BY <6>1, <6>2
        <5>4. Right(1)
          BY <4>2, <4>4, <5>1, <5>2, <5>3
        <5> HIDE DEF Right
        <5>. QED
          BY <4>1, <4>4, <5>4
      <4>5. CASE k # 0
        <5>1. Right(k)
          BY <3>2, <4>5
        <5>2. flat[k + 1] = flat[k] \o seqs[k + 1]
          <6>1. k + 1 # 1
            BY <4>5
          <6>. QED
            BY <2>5, <4>1, <6>1
        <5>3. flat[k] \in Seq(T) /\ Len(flat[k]) = sum[k]
          BY <5>1
        <5>4. /\ flat[k + 1] \in Seq(T) /\ Len(flat[k + 1]) = sum[k + 1]
              /\ \A p \in 1..sum[k] : flat[k + 1][p] = flat[k][p]
              /\ \A j \in 1..counts[k + 1] : flat[k + 1][sum[k] + j] = seqs[k + 1][j]
          <6> DEFINE a == flat[k]
                     b == seqs[k + 1]
          <6>1. a \in Seq(T) /\ b \in Seq(T)
            BY <4>2, <5>3
          <6> HIDE DEF a, b
          <6>2. /\ a \o b \in Seq(T)
                /\ Len(a \o b) = Len(a) + Len(b)
                /\ \A p \in 1..Len(a) : (a \o b)[p] = a[p]
                /\ \A p \in 1..Len(b) : (a \o b)[Len(a) + p] = b[p]
            BY <6>1, ConcatIs
          <6>3. /\ flat[k + 1] \in Seq(T) /\ Len(flat[k + 1]) = Len(flat[k]) + Len(seqs[k + 1])
                /\ \A p \in 1..Len(flat[k]) : flat[k + 1][p] = flat[k][p]
                /\ \A j \in 1..Len(seqs[k + 1]) : flat[k + 1][Len(flat[k]) + j] = seqs[k + 1][j]
            BY <5>2, <6>2 DEF a, b
          <6>. QED
            BY <4>2, <4>3, <5>3, <6>3
        <5>5. ASSUME NEW i \in 1..(k + 1), NEW j \in 1..counts[i]
              PROVE  /\ sum[i - 1] + j \in 1..sum[k + 1]
                     /\ flat[k + 1][sum[i - 1] + j] = seqs[i][j]
          <6>1. CASE i = k + 1
            <7>1. i - 1 = k
              BY <6>1
            <7>2. j \in 1..counts[k + 1]
              BY <6>1
            <7>3. sum[k] + j \in 1..sum[k + 1]
              BY <4>2, <4>3, <7>2
            <7>. QED
              BY <5>4, <6>1, <7>1, <7>2, <7>3
          <6>2. CASE i # k + 1
            <7>1. i \in 1..k
              BY <6>2
            <7>2. sum[i - 1] + j \in 1..sum[k] /\ flat[k][sum[i - 1] + j] = seqs[i][j]
              BY <5>1, <7>1
            <7>3. sum[i - 1] + j \in 1..sum[k + 1]
              BY <4>2, <4>3, <7>2
            <7>. QED
              BY <5>4, <7>2, <7>3
          <6>. QED
            BY <6>1, <6>2
        <5>6. Right(k + 1)
          BY <5>4, <5>5
        <5> HIDE DEF Right
        <5>. QED
          BY <4>1, <5>6
      <4>. QED
        BY <4>4, <4>5
    <3> HIDE DEF S
    <3>. QED
      BY <3>1, <3>2, UpTo
  <2>7. Right(n)
    BY <1>5, <2>6
  <2>8. \A i \in 1..n : counts[i] = Len(seqs[i])
    BY <1>1
  <2> HIDE DEF Right
  <2>9. /\ flat[n] \in Seq(T)
        /\ Len(flat[n]) = sum[n]
        /\ \A i \in 1..n : \A j \in 1..Len(seqs[i]) :
              /\ sum[i - 1] + j \in 1..sum[n]
              /\ flat[n][sum[i - 1] + j] = seqs[i][j]
    BY <2>7, <2>8 DEF Right
  <2>. QED
    BY <1>1, <2>4, <2>9 DEF sum, counts
<1>. QED
  BY <1>4, <1>5

\* Every place of a concatenation is that of a place of one of its n parts.
PlacesAre(n, seqs) ==
    \A p \in 1..Len(FlattenSeq(seqs)) : \E i \in 1..n : \E j \in 1..Len(seqs[i]) :
        p = Sums(Lengths(n, seqs))[i - 1] + j /\ FlattenSeq(seqs)[p] = seqs[i][j]

\* Places of a concatenation are those of its parts.
LEMMA FlattenPlaces ==
    ASSUME NEW T, NEW n \in Nat, NEW seqs, AreSeqs(n, seqs, T)
    PROVE  PlacesAre(n, seqs)
<1> SUFFICES ASSUME NEW p \in 1..Len(FlattenSeq(seqs))
             PROVE  \E i \in 1..n : \E j \in 1..Len(seqs[i]) :
                       p = Sums(Lengths(n, seqs))[i - 1] + j /\ FlattenSeq(seqs)[p] = seqs[i][j]
  BY DEF PlacesAre
<1>1. /\ Lengths(n, seqs) \in [1..n -> Nat]
      /\ Len(FlattenSeq(seqs)) = Sums(Lengths(n, seqs))[n]
      /\ \A i \in 1..n : \A j \in 1..Len(seqs[i]) :
            FlattenSeq(seqs)[Sums(Lengths(n, seqs))[i - 1] + j] = seqs[i][j]
  BY FlattenIs
<1>2. PICK i \in 1..n : \E j \in 1..Lengths(n, seqs)[i] : p = Sums(Lengths(n, seqs))[i - 1] + j
  <2>1. p \in 1..Sums(Lengths(n, seqs))[n]
    BY <1>1
  <2>. QED
    BY <1>1, <2>1, SumsGrow
<1>3. Lengths(n, seqs)[i] = Len(seqs[i])
  BY DEF Lengths
<1>. QED
  BY <1>1, <1>2, <1>3

-----------------------------------------------------------------------------
(* Clusters                                                                *)

\* f says where each of the rows lies.
Valued(f, rows) == \A r \in rows : f[r] \in Int

\* A distance is a number.
LEMMA L2Is ==
    ASSUME NEW a \in Int, NEW b \in Int
    PROVE  L2(a, b) \in Nat
<1>1. a - b \in Int
  OBVIOUS
<1>2. \A d \in Int : d * d \in Nat
  OBVIOUS
<1>. QED
  BY <1>1, <1>2 DEF L2

\* The mean of some rows is a number.
LEMMA MeanIs ==
    ASSUME NEW rows \in SUBSET Nat, IsFiniteSet(rows), rows # {}, NEW f, Valued(f, rows)
    PROVE  Mean(f, rows) \in Int
<1> DEFINE n == Cardinality(rows)
           at == Ascending(rows)
           seq == [i \in 1..n |-> f[at[i]]]
<1>1. n \in Nat /\ n # 0
  BY FS_CardinalityType, FS_EmptySet
<1>2. rows \in SUBSET Int
  OBVIOUS
<1>3. at \in [1..n -> rows]
  BY <1>2, AscendingIs
<1>4. Mean(f, rows) = Sums(seq)[n] \div n
  BY DEF Mean
<1> HIDE DEF n, at
<1>5. seq \in [1..n -> Int]
  BY <1>3 DEF Valued
<1> HIDE DEF seq
<1>6. Sums(seq) \in [0..n -> Int]
  BY <1>1, <1>5, SumsIs
<1>7. Sums(seq)[n] \in Int
  BY <1>1, <1>6
<1>8. \A a \in Int : a \div n \in Int
  BY <1>1
<1>. QED
  BY <1>4, <1>7, <1>8

\* The closest of some centroids is one of them.
LEMMA ClosestIn ==
    ASSUME NEW n \in Nat \ {0}, NEW cs \in [1..n -> Int], NEW p \in Int
    PROVE  ClosestChild(p, cs) \in 1..n
<1> DEFINE far == [i \in 1..n |-> L2(p, cs[i])]
           T == {far[i] : i \in 1..n}
<1>1. \A i \in 1..n : far[i] \in Nat /\ far[i] = L2(p, cs[i])
  BY L2Is
<1> HIDE DEF far
<1>2. T \in SUBSET Nat /\ far[1] \in T
  BY <1>1
<1>3. PICK m \in T : \A y \in T : m <= y
  BY <1>2, LeastNumber
<1> DEFINE I == {i \in 1..n : far[i] = m}
<1>4. I \in SUBSET Nat /\ I # {}
  BY <1>3
<1>5. PICK i \in I : \A y \in I : i <= y
  BY <1>4, LeastNumber
<1>6. i \in 1..n /\ far[i] = m
  BY <1>5
<1>7. \A j \in 1..n : far[i] <= far[j]
  BY <1>3, <1>6
<1>8. ASSUME NEW j \in 1..(i - 1) PROVE far[j] > far[i]
  <2>1. j \in 1..n /\ j < i
    BY <1>6
  <2>2. j \notin I
    BY <1>5, <1>6, <2>1
  <2>3. far[j] # m /\ m <= far[j] /\ far[j] \in Nat
    BY <1>1, <1>3, <2>1, <2>2
  <2>. QED
    BY <1>1, <1>6, <2>3
<1>9. DOMAIN cs = 1..n
  OBVIOUS
<1>10. /\ \A j \in DOMAIN cs : L2(p, cs[i]) <= L2(p, cs[j])
       /\ \A j \in 1..(i - 1) : L2(p, cs[j]) > L2(p, cs[i])
  <2>1. \A j \in 1..(i - 1) : j \in 1..n
    BY <1>6
  <2>. QED
    BY <1>1, <1>6, <1>7, <1>8, <1>9, <2>1
<1>. QED
  BY <1>6, <1>9, <1>10 DEF ClosestChild

\* Every assignment a run may end with puts every point into a cluster.
LEMMA KMeansRunIs ==
    ASSUME NEW n \in Nat \ {0}, NEW points \in [1..n -> Int], NEW k0 \in Nat \ {0},
           NEW as \in KMeansRun(points, k0)
    PROVE  as \in [1..n -> 1..k0]
<1> DEFINE k == Min({k0, Len(points)})
           A == [1..n -> 1..k]
           first == {AssignClusters(points, cs) : cs \in KMeansPlusPlusInit(points, k)}
           g == [r \in 1..MaxIters |-> [all \in SUBSET A |-> LloydRound(points, all, k)]]
           Steps(h) == h = [r \in 0..MaxIters |-> IF r = 0 THEN first
                                                  ELSE LloydRound(points, h[r - 1], k)]
           rounds == CHOOSE h : Steps(h)
<1>1. Len(points) = n /\ DOMAIN points = 1..n
  OBVIOUS
<1>2. k \in Nat \ {0} /\ k <= k0 /\ k <= n
  BY <1>1, MinOfTwo
<1>3. MaxIters \in Nat
  BY KMeansAssumption
<1> HIDE DEF k
<1>4. ASSUME NEW cs \in [1..k -> Int] PROVE AssignClusters(points, cs) \in A
  <2>1. AssignClusters(points, cs) = [i \in 1..n |-> ClosestChild(points[i], cs)]
    BY <1>1 DEF AssignClusters
  <2>2. \A i \in 1..n : ClosestChild(points[i], cs) \in 1..k
    BY <1>2, ClosestIn
  <2>. QED
    BY <2>1, <2>2
<1>5. first \in SUBSET A
  <2>1. ASSUME NEW cs \in KMeansPlusPlusInit(points, k) PROVE cs \in [1..k -> Int]
    <3>1. PICK d \in [1..k -> 1..n] : cs = [m \in 1..k |-> points[d[m]]]
      BY <1>1 DEF KMeansPlusPlusInit
    <3>. QED
      BY <3>1
  <2>. QED
    BY <1>4, <2>1
<1>6. ASSUME NEW all PROVE LloydRound(points, all, k) \in SUBSET A
  <2>1. ASSUME NEW bs PROVE RecomputeCentroids(points, bs, k) \in [1..k -> Int]
    <3>1. ASSUME NEW c \in 1..k,
                 {i \in DOMAIN points : bs[i] = c} # {}
          PROVE  Mean(points, {i \in DOMAIN points : bs[i] = c}) \in Int
      <4> DEFINE own == {i \in DOMAIN points : bs[i] = c}
      <4>1. own \in SUBSET Nat /\ own # {} /\ own \in SUBSET (1..n)
        BY <1>1, <3>1
      <4>2. IsFiniteSet(own)
        <5>1. \A i \in own : i <= n
          BY <4>1
        <5> HIDE DEF own
        <5>. QED
          BY <4>1, <5>1, FS_BoundedSetOfNaturals
      <4>3. Valued(points, own)
        BY <4>1 DEF Valued
      <4> HIDE DEF own
      <4>4. Mean(points, own) \in Int
        BY <4>1, <4>2, <4>3, MeanIs
      <4>. QED
        BY <4>4 DEF own
    <3>. QED
      BY <3>1 DEF RecomputeCentroids
  <2>. QED
    BY <1>4, <2>1 DEF LloydRound
<1> HIDE DEF first, A
<1>7. g \in [1..MaxIters -> [SUBSET A -> SUBSET A]]
  BY <1>6
<1> HIDE DEF g
<1>8. PICK f : Iterates(f, MaxIters, SUBSET A, first, g)
  BY <1>3, <1>5, <1>7, Iterated
<1>9. /\ f \in [0..MaxIters -> SUBSET A] /\ f[0] = first
      /\ \A r \in 1..MaxIters : f[r] = LloydRound(points, f[r - 1], k)
  <2>1. /\ f \in [0..MaxIters -> SUBSET A] /\ f[0] = first
        /\ \A r \in 1..MaxIters : f[r] = g[r][f[r - 1]]
    BY <1>8 DEF Iterates
  <2>2. ASSUME NEW r \in 1..MaxIters PROVE g[r][f[r - 1]] = LloydRound(points, f[r - 1], k)
    <3>1. r - 1 \in 0..MaxIters
      BY <1>3
    <3>2. f[r - 1] \in SUBSET A
      BY <2>1, <3>1
    <3>. QED
      BY <3>2 DEF g
  <2>. QED
    BY <2>1, <2>2
<1>10. Steps(f)
  <2>1. \A r \in 0..MaxIters : r # 0 => r \in 1..MaxIters
    BY <1>3
  <2>. QED
    BY <1>9, <2>1
<1> HIDE DEF Steps
<1>11. Steps(rounds)
  BY <1>10
<1> HIDE DEF rounds
<1>12. rounds[MaxIters] \in SUBSET A
  <2>1. rounds = [r \in 0..MaxIters |-> IF r = 0 THEN first ELSE LloydRound(points, rounds[r - 1], k)]
    BY <1>11 DEF Steps
  <2>2. MaxIters \in 0..MaxIters
    BY <1>3
  <2>3. rounds[MaxIters] = IF MaxIters = 0 THEN first ELSE LloydRound(points, rounds[MaxIters - 1], k)
    BY <2>1, <2>2
  <2>. QED
    BY <1>5, <1>6, <2>3
<1>13. KMeansRun(points, k0) = rounds[MaxIters]
  BY Zenon DEF KMeansRun, rounds, Steps, first, k
<1>14. as \in [1..n -> 1..k]
  BY <1>12, <1>13 DEF A
<1>15. \A i \in 1..k : i \in 1..k0
  BY <1>2
<1>. QED
  BY <1>14, <1>15

\* A batch is split into at least one cluster.
LEMMA ClusterCountIs ==
    ASSUME NEW n \in Nat
    PROVE  ClusterCount(n) \in Nat \ {0}
<1> DEFINE q == (n + LeafCapacity - 1) \div LeafCapacity
<1>1. LeafCapacity \in Nat \ {0} /\ MaxClusters \in Nat
  BY KMeansAssumption
<1>2. n + LeafCapacity - 1 \in Int
  BY <1>1
<1>3. q \in Int
  BY <1>1, <1>2
<1> HIDE DEF q
<1>4. Min({MaxClusters, q}) \in Int
  BY <1>1, <1>3, MinOfTwo
<1>5. Max({2, Min({MaxClusters, q})}) \in Nat \ {0}
  <2> DEFINE m == Min({MaxClusters, q})
  <2>1. m \in Int /\ 2 \in Int
    BY <1>4
  <2> HIDE DEF m
  <2>2. Max({2, m}) = IF 2 >= m THEN 2 ELSE m
    BY <2>1, MaxOfTwo
  <2>3. Max({2, m}) \in Nat \ {0}
    BY <2>1, <2>2
  <2>. QED
    BY <2>3 DEF m
<1>. QED
  BY <1>5 DEF ClusterCount, q

\* The clusters of a split name the places of their rows: no place is in two
\* of them, and each is in one.
SplitAt(ids, cs, own) ==
    /\ cs \in Seq(Seq(Nat))
    /\ own \in [1..Len(cs) -> SUBSET (1..Len(ids))]
    /\ \A i \in 1..Len(cs) : own[i] # {} /\ cs[i] = Chosen(ids, own[i])
    /\ \A i, j \in 1..Len(cs) : i # j => own[i] \cap own[j] = {}
    /\ \A p \in 1..Len(ids) : \E i \in 1..Len(cs) : p \in own[i]

\* Every split of a batch gives clusters of its rows.
LEMMA SplitsIs ==
    ASSUME NEW ids \in Seq(Nat), ids # <<>>, NEW val, Valued(val, ToSet(ids)),
           NEW cs \in Splits(ids, val)
    PROVE  \E own : SplitAt(ids, cs, own)
<1> DEFINE n == Len(ids)
           k == ClusterCount(Len(ids))
           points == [i \in DOMAIN ids |-> val[ids[i]]]
<1>1. n \in Nat \ {0} /\ DOMAIN ids = 1..n
  OBVIOUS
<1>2. k \in Nat \ {0}
  BY <1>1, ClusterCountIs
<1>3. points \in [1..n -> Int]
  BY <1>1 DEF Valued, ToSet
<1> DEFINE Own(as, c) == {j \in DOMAIN ids : as[j] = c}
<1>4. PICK as \in KMeansRun(points, k) :
        cs = Chosen([c \in 1..k |-> Chosen(ids, Own(as, c))], {c \in 1..k : Own(as, c) # {}})
  BY DEF Splits
<1> HIDE DEF k, points
<1>5. as \in [1..n -> 1..k]
  BY <1>1, <1>2, <1>3, KMeansRunIs
<1> DEFINE mine == [c \in 1..k |-> Own(as, c)]
           groups == [c \in 1..k |-> Chosen(ids, mine[c])]
           places == {c \in 1..k : mine[c] # {}}
<1>6. \A c \in 1..k : mine[c] = {j \in 1..n : as[j] = c}
  BY <1>1
<1>7. cs = Chosen(groups, places)
  BY <1>4
<1> HIDE DEF mine
<1>8. ASSUME NEW c \in 1..k PROVE Chosen(ids, mine[c]) \in Seq(Nat)
  <2>1. mine[c] \in SUBSET (1..Len(ids))
    BY <1>6
  <2>. QED
    BY <2>1, ChosenOf
<1>9. groups \in Seq(Seq(Nat)) /\ Len(groups) = k
  BY <1>2, <1>8
<1>10. /\ IsFiniteSet(places) /\ Cardinality(places) \in Nat
       /\ Ascending(places) \in [1..Cardinality(places) -> places]
       /\ \A a, b \in 1..Cardinality(places) : Ascending(places)[a] = Ascending(places)[b] => a = b
       /\ \A p \in places : \E m \in 1..Cardinality(places) : Ascending(places)[m] = p
       /\ Len(cs) = Cardinality(places)
       /\ \A m \in 1..Cardinality(places) : cs[m] = groups[Ascending(places)[m]]
  <2>1. places \in SUBSET Nat /\ k \in Nat /\ \A p \in places : p <= k
    BY <1>2
  <2> HIDE DEF places, groups
  <2>2. /\ IsFiniteSet(places) /\ Cardinality(places) \in Nat
        /\ Ascending(places) \in [1..Cardinality(places) -> places]
        /\ \A a, b \in 1..Cardinality(places) : Ascending(places)[a] = Ascending(places)[b] => a = b
        /\ \A p \in places : \E m \in 1..Cardinality(places) : Ascending(places)[m] = p
    BY <2>1, ChosenIs
  <2>3. /\ Len(Chosen(groups, places)) = Cardinality(places)
        /\ \A m \in 1..Cardinality(places) : Chosen(groups, places)[m] = groups[Ascending(places)[m]]
    BY <2>1, ChosenIs, ZenonT(90)
  <2>. QED
    BY <1>7, <2>2, <2>3
<1>11. cs \in Seq(Seq(Nat))
  <2>1. places \in SUBSET (1..Len(groups))
    BY <1>9
  <2> HIDE DEF places, groups
  <2>. QED
    BY <1>7, <1>9, <2>1, ChosenOf
<1> DEFINE at == Ascending(places)
           own == [m \in 1..Len(cs) |-> mine[at[m]]]
<1>12. \A m \in 1..Len(cs) : at[m] \in 1..k /\ mine[at[m]] # {} /\ cs[m] = Chosen(ids, mine[at[m]])
  <2> TAKE m \in 1..Len(cs)
  <2>1. at[m] \in places
    BY <1>10
  <2>2. at[m] \in 1..k
    BY <2>1
  <2> HIDE DEF at
  <2>. QED
    BY <1>10, <2>1, <2>2 DEF at
<1>13. own \in [1..Len(cs) -> SUBSET (1..Len(ids))]
  <2>1. \A c \in 1..k : mine[c] \in SUBSET (1..Len(ids))
    BY <1>6
  <2> HIDE DEF at
  <2>. QED
    BY <1>12, <2>1
<1>14. \A a, b \in 1..Len(cs) : at[a] = at[b] => a = b
  BY <1>10
<1>15. \A m \in 1..Len(cs) : own[m] = mine[at[m]]
  OBVIOUS
<1>16. \A p \in places : \E m \in 1..Len(cs) : at[m] = p
  BY <1>10
<1> HIDE DEF own, at
<1>17. ASSUME NEW i \in 1..Len(cs), NEW j \in 1..Len(cs), i # j PROVE own[i] \cap own[j] = {}
  <2>1. at[i] # at[j] /\ at[i] \in 1..k /\ at[j] \in 1..k
    BY <1>12, <1>17, <1>14
  <2>2. own[i] = {q \in 1..n : as[q] = at[i]} /\ own[j] = {q \in 1..n : as[q] = at[j]}
    BY <1>6, <1>15, <2>1
  <2>. QED
    BY <2>1, <2>2
<1>18. ASSUME NEW p \in 1..Len(ids) PROVE \E i \in 1..Len(cs) : p \in own[i]
  <2>1. as[p] \in 1..k /\ p \in mine[as[p]]
    BY <1>5, <1>6
  <2>2. as[p] \in places
    BY <2>1
  <2>3. PICK m \in 1..Len(cs) : at[m] = as[p]
    BY <1>16, <2>2
  <2>. QED
    BY <1>15, <2>1, <2>3
<1>19. \A m \in 1..Len(cs) : own[m] # {} /\ cs[m] = Chosen(ids, own[m])
  BY <1>12, <1>15
<1>20. SplitAt(ids, cs, own)
  BY <1>11, <1>13, <1>17, <1>18, <1>19 DEF SplitAt
<1>. QED
  BY <1>20

\* The clusters share the rows of a list that names each once.
LEMMA SplitRows ==
    ASSUME NEW ids \in Seq(Nat), ids # <<>>, IsInjective(ids), NEW val, Valued(val, ToSet(ids)),
           NEW cs \in Splits(ids, val)
    PROVE  /\ cs \in Seq(Seq(Nat))
           /\ \A i \in 1..Len(cs) : /\ cs[i] # <<>> /\ IsInjective(cs[i])
                                    /\ ToSet(cs[i]) \subseteq ToSet(ids)
           /\ \A i, j \in 1..Len(cs) : i # j => ToSet(cs[i]) \cap ToSet(cs[j]) = {}
           /\ UNION {ToSet(cs[i]) : i \in 1..Len(cs)} = ToSet(ids)
<1>1. PICK own : SplitAt(ids, cs, own)
  BY SplitsIs
<1>2. cs \in Seq(Seq(Nat)) /\ own \in [1..Len(cs) -> SUBSET (1..Len(ids))]
  BY <1>1 DEF SplitAt
<1>3. \A i, j \in 1..Len(cs) : i # j => own[i] \cap own[j] = {}
  BY <1>1 DEF SplitAt
<1>4. ASSUME NEW i \in 1..Len(cs)
      PROVE  /\ cs[i] # <<>>
             /\ ToSet(cs[i]) = {ids[p] : p \in own[i]}
             /\ IsInjective(cs[i])
  <2>1. own[i] \in SUBSET (1..Len(ids)) /\ own[i] # {} /\ cs[i] = Chosen(ids, own[i])
    BY <1>1 DEF SplitAt
  <2>2. ToSet(cs[i]) = {ids[p] : p \in own[i]} /\ cs[i] # <<>>
    BY <2>1, ChosenOf, SMTT(30)
  <2> DEFINE places == own[i]
             at == Ascending(places)
  <2>3. places \in SUBSET Nat /\ Len(ids) \in Nat /\ \A p \in places : p <= Len(ids)
    BY <2>1
  <2> HIDE DEF places
  <2>4. /\ at \in [1..Cardinality(places) -> places]
        /\ \A a, b \in 1..Cardinality(places) : at[a] = at[b] => a = b
        /\ DOMAIN Chosen(ids, places) = 1..Cardinality(places)
        /\ \A m \in 1..Cardinality(places) : Chosen(ids, places)[m] = ids[at[m]]
    <3>1. /\ Ascending(places) \in [1..Cardinality(places) -> places]
          /\ \A a, b \in 1..Cardinality(places) : Ascending(places)[a] = Ascending(places)[b] => a = b
      BY <2>3, ChosenIs
    <3>2. Chosen(ids, places) = [m \in 1..Cardinality(places) |-> ids[Ascending(places)[m]]]
      BY DEF Chosen
    <3>. QED
      BY <3>1, <3>2
  <2> HIDE DEF at
  <2>5. \A a \in 1..Cardinality(places) : at[a] \in DOMAIN ids
    <3>1. DOMAIN ids = 1..Len(ids)
      OBVIOUS
    <3>2. \A a \in 1..Cardinality(places) : at[a] \in places
      BY <2>4
    <3>. QED
      BY <2>1, <3>1, <3>2 DEF places
  <2>6. IsInjective(Chosen(ids, places))
    BY <2>4, <2>5 DEF IsInjective
  <2>. QED
    BY <2>1, <2>2, <2>6 DEF places
<1>5. ASSUME NEW i \in 1..Len(cs) PROVE \A p \in own[i] : p \in DOMAIN ids
  <2>1. own[i] \in SUBSET (1..Len(ids))
    BY <1>2
  <2>2. DOMAIN ids = 1..Len(ids)
    OBVIOUS
  <2>. QED
    BY <2>1, <2>2
<1>6. ASSUME NEW i \in 1..Len(cs), NEW j \in 1..Len(cs), i # j
      PROVE  ToSet(cs[i]) \cap ToSet(cs[j]) = {}
  <2> SUFFICES ASSUME NEW r \in ToSet(cs[i]), r \in ToSet(cs[j]) PROVE FALSE
    OBVIOUS
  <2>1. PICK p \in own[i] : r = ids[p]
    BY <1>4
  <2>2. PICK q \in own[j] : r = ids[q]
    BY <1>4
  <2>3. p = q
    BY <1>5, <2>1, <2>2 DEF IsInjective
  <2>. QED
    BY <1>3, <1>6, <2>3
<1>7. ASSUME NEW i \in 1..Len(cs) PROVE ToSet(cs[i]) \subseteq ToSet(ids)
  <2>1. {ids[p] : p \in own[i]} \subseteq ToSet(ids)
    BY <1>5 DEF ToSet
  <2>. QED
    BY <1>4, <2>1
<1>8. ASSUME NEW r \in ToSet(ids) PROVE \E i \in 1..Len(cs) : r \in ToSet(cs[i])
  <2>1. PICK p \in 1..Len(ids) : r = ids[p]
    BY DEF ToSet
  <2>2. PICK i \in 1..Len(cs) : p \in own[i]
    BY <1>1 DEF SplitAt
  <2>. QED
    BY <1>4, <2>1, <2>2
<1>9. UNION {ToSet(cs[i]) : i \in 1..Len(cs)} = ToSet(ids)
  BY <1>7, <1>8
<1>10. \A i \in 1..Len(cs) : /\ cs[i] # <<>> /\ IsInjective(cs[i])
                             /\ ToSet(cs[i]) \subseteq ToSet(ids)
  BY <1>4, <1>7
<1>11. \A i, j \in 1..Len(cs) : i # j => ToSet(cs[i]) \cap ToSet(cs[j]) = {}
  BY <1>6
<1>. QED
  BY <1>2, <1>9, <1>10, <1>11

-----------------------------------------------------------------------------
(* Pages                                                                   *)

PageType == [id : Nat, ids : Seq(Nat), of : SUBSET Nat, kids : Seq(Nat), centroids : Seq(Int)]

IdsOf(pages) == {pages[a].id : a \in 1..Len(pages)}
RowsOf(pages) == UNION {ToSet(pages[a].ids) : a \in 1..Len(pages)}

\* A leaf is placed by rows of its own, an inner page by one centroid for each
\* of its children, which are pages too.
GoodPage(page, known) ==
    /\ page \in PageType
    /\ \A m \in 1..Len(page.kids) : page.kids[m] \in known
    /\ IsLeaf(page) => page.of # {} /\ page.of \subseteq ToSet(page.ids)
    /\ ~IsLeaf(page) => page.ids = <<>> /\ Len(page.centroids) = Len(page.kids)

\* No row is listed twice, neither by two pages nor by one.
ListedOnce(pages) ==
    \A a, b \in 1..Len(pages) : \A m \in 1..Len(pages[a].ids), n \in 1..Len(pages[b].ids) :
        pages[a].ids[m] = pages[b].ids[n] => a = b /\ m = n

\* Pages that list the given rows.
GoodPages(pages, rows) ==
    /\ pages \in Seq(PageType) /\ pages # <<>>
    /\ \A a \in 1..Len(pages) : GoodPage(pages[a], IdsOf(pages))
    /\ \A a, b \in 1..Len(pages) : pages[a].id = pages[b].id => a = b
    /\ ListedOnce(pages)
    /\ RowsOf(pages) = rows

\* What a sequence lists.
LEMMA ToSetIs ==
    ASSUME NEW T, NEW s \in Seq(T)
    PROVE  /\ ToSet(s) = {s[m] : m \in 1..Len(s)}
           /\ ToSet(s) \in SUBSET T
           /\ IsFiniteSet(ToSet(s))
           /\ (s = <<>>) = (Len(s) = 0)
           /\ (s = <<>>) = (ToSet(s) = {})
<1>1. DOMAIN s = 1..Len(s) /\ Len(s) \in Nat
  OBVIOUS
<1>2. ToSet(s) = {s[m] : m \in 1..Len(s)}
  BY <1>1 DEF ToSet
<1> DEFINE f == [m \in 1..Len(s) |-> s[m]]
<1>3. f \in Surjection(1..Len(s), ToSet(s))
  BY <1>2 DEF Surjection
<1>4. IsFiniteSet(1..Len(s))
  BY <1>1, FS_Interval
<1>5. IsFiniteSet(ToSet(s))
  BY <1>3, <1>4, FS_Surjection
<1>. QED
  BY <1>1, <1>2, <1>5

\* Where a page lies is a number.
LEMMA CentroidIs ==
    ASSUME NEW pages, NEW rows, GoodPages(pages, rows), NEW val, Valued(val, rows),
           NEW a \in 1..Len(pages)
    PROVE  Centroid(pages[a], val) \in Int
<1> DEFINE page == pages[a]
<1>1. page \in PageType /\ GoodPage(page, IdsOf(pages)) /\ ToSet(page.ids) \subseteq rows
  <2>1. pages \in Seq(PageType)
    BY DEF GoodPages
  <2>. QED
    BY <2>1 DEF GoodPages, RowsOf
<1> HIDE DEF page
<1>2. page.ids \in Seq(Nat) /\ page.of \in SUBSET Nat /\ page.kids \in Seq(Nat)
      /\ page.centroids \in Seq(Int)
  BY <1>1 DEF PageType
<1>3. CASE IsLeaf(page)
  <2>1. page.of # {} /\ page.of \in SUBSET ToSet(page.ids)
    BY <1>1, <1>3 DEF GoodPage
  <2>2. IsFiniteSet(page.of)
    BY <1>2, <2>1, ToSetIs, FS_Subset
  <2>3. Valued(val, page.of)
    BY <1>1, <2>1 DEF Valued
  <2>4. Mean(val, page.of) \in Int
    BY <1>2, <2>1, <2>2, <2>3, MeanIs
  <2>. QED
    BY <1>3, <2>4 DEF Centroid, page
<1>4. CASE ~IsLeaf(page)
  <2>1. Len(page.centroids) = Len(page.kids) /\ page.kids # <<>>
    BY <1>1, <1>4 DEF GoodPage, IsLeaf
  <2> DEFINE places == DOMAIN page.centroids
  <2>2. places = 1..Len(page.centroids) /\ Len(page.centroids) \in Nat /\ Len(page.centroids) # 0
    BY <1>2, <2>1
  <2>3. places \in SUBSET Nat /\ places # {}
    <3>1. 1 \in places
      BY <2>2
    <3>2. \A p \in places : p \in Nat
      BY <2>2
    <3>. QED
      BY <3>1, <3>2
  <2>4. IsFiniteSet(places)
    BY <2>2, FS_Interval
  <2>5. Valued(page.centroids, places)
    BY <1>2, <2>2 DEF Valued
  <2> HIDE DEF places
  <2>6. Mean(page.centroids, places) \in Int
    BY <2>3, <2>4, <2>5, MeanIs
  <2>. QED
    BY <1>4, <2>6 DEF Centroid, page, places
<1>. QED
  BY <1>3, <1>4

-----------------------------------------------------------------------------
(* Pages of several indexes under one root                                 *)

\* qs are the pages of ps numbered one after the other, from 1: the ids, the
\* children and nothing else.
Renumbered(n, ps, qs) ==
    /\ AreSeqs(n, ps, PageType) /\ AreSeqs(n, qs, PageType)
    /\ \A i \in 1..n :
         /\ Len(qs[i]) = Len(ps[i])
         /\ \A j \in 1..Len(ps[i]) :
              /\ qs[i][j].id = Sums(Lengths(n, ps))[i - 1] + j
              /\ qs[i][j].ids = ps[i][j].ids /\ qs[i][j].of = ps[i][j].of
              /\ qs[i][j].centroids = ps[i][j].centroids
              /\ Len(qs[i][j].kids) = Len(ps[i][j].kids)
              /\ \A m \in 1..Len(ps[i][j].kids) :
                    \E b \in 1..Len(ps[i]) : qs[i][j].kids[m] = Sums(Lengths(n, ps))[i - 1] + b

\* The rows of n parts.
RowsOfAll(n, part) == UNION {part[i] : i \in 1..n}

\* Each of ps has its own rows.
OwnRows(n, ps, part) ==
    /\ \A i \in 1..n : GoodPages(ps[i], part[i])
    /\ \A i, j \in 1..n : i # j => part[i] \cap part[j] = {}

\* The pages of parts with rows of their own, numbered one after the other.
LEMMA RenumberedIs ==
    ASSUME NEW n \in Nat \ {0}, NEW ps, NEW qs, NEW part,
           Renumbered(n, ps, qs), OwnRows(n, ps, part)
    PROVE  /\ GoodPages(FlattenSeq(qs), RowsOfAll(n, part))
           /\ \A p \in 1..Len(FlattenSeq(qs)) : FlattenSeq(qs)[p].id = p
           /\ Lengths(n, ps) \in [1..n -> Nat]
           /\ Len(FlattenSeq(qs)) = Sums(Lengths(n, ps))[n]
<1> DEFINE flat == FlattenSeq(qs)
           sum == Sums(Lengths(n, ps))
<1>1. AreSeqs(n, ps, PageType) /\ AreSeqs(n, qs, PageType) /\ n \in Nat
  BY DEF Renumbered
<1>2. \A i \in 1..n : Len(qs[i]) = Len(ps[i]) /\ ps[i] \in Seq(PageType) /\ qs[i] \in Seq(PageType)
  BY DEF Renumbered, AreSeqs
<1>3. Lengths(n, qs) = Lengths(n, ps)
  BY <1>2 DEF Lengths
<1>4. /\ flat \in Seq(PageType) /\ Lengths(n, ps) \in [1..n -> Nat] /\ Len(flat) = sum[n]
      /\ \A i \in 1..n : \A j \in 1..Len(qs[i]) :
            sum[i - 1] + j \in 1..sum[n] /\ flat[sum[i - 1] + j] = qs[i][j]
  <2>1. /\ FlattenSeq(qs) \in Seq(PageType)
        /\ Lengths(n, qs) \in [1..n -> Nat]
        /\ Len(FlattenSeq(qs)) = Sums(Lengths(n, qs))[n]
        /\ \A i \in 1..n : \A j \in 1..Len(qs[i]) :
             /\ Sums(Lengths(n, qs))[i - 1] + j \in 1..Sums(Lengths(n, qs))[n]
             /\ FlattenSeq(qs)[Sums(Lengths(n, qs))[i - 1] + j] = qs[i][j]
    BY <1>1, FlattenIs, SMTT(30)
  <2>. QED
    BY <1>3, <2>1
<1>5. ASSUME NEW p \in 1..Len(flat)
      PROVE  \E i \in 1..n : \E j \in 1..Len(ps[i]) : p = sum[i - 1] + j /\ flat[p] = qs[i][j]
  <2>1. PlacesAre(n, qs)
    BY <1>1, FlattenPlaces
  <2>2. PICK i \in 1..n : \E j \in 1..Len(qs[i]) : p = sum[i - 1] + j /\ flat[p] = qs[i][j]
    BY <1>3, <2>1 DEF PlacesAre
  <2>. QED
    BY <1>2, <2>2
<1>6. \A a, b \in 1..n : \A i \in 1..Len(ps[a]), j \in 1..Len(ps[b]) :
         sum[a - 1] + i = sum[b - 1] + j => a = b /\ i = j
  <2> SUFFICES ASSUME NEW a \in 1..n, NEW b \in 1..n, NEW i \in 1..Len(ps[a]), NEW j \in 1..Len(ps[b]),
                      sum[a - 1] + i = sum[b - 1] + j
               PROVE  a = b /\ i = j
    OBVIOUS
  <2> DEFINE lens == Lengths(n, ps)
  <2>1. i \in 1..lens[a] /\ j \in 1..lens[b] /\ lens \in [1..n -> Nat]
    BY <1>4 DEF Lengths
  <2>2. Sums(lens)[a - 1] + i = Sums(lens)[b - 1] + j
    OBVIOUS
  <2> HIDE DEF lens
  <2>. QED
    BY <2>1, <2>2, PlaceOnce, ZenonT(30)
<1> HIDE DEF flat, sum
<1>7. ASSUME NEW i \in 1..n, NEW j \in 1..Len(ps[i])
      PROVE  /\ sum[i - 1] + j \in 1..Len(flat) /\ flat[sum[i - 1] + j] = qs[i][j]
             /\ qs[i][j].id = sum[i - 1] + j
             /\ qs[i][j].ids = ps[i][j].ids
  BY <1>2, <1>4 DEF Renumbered, sum
<1>8. \A p \in 1..Len(flat) : flat[p].id = p
  <2> TAKE p \in 1..Len(flat)
  <2>1. PICK i \in 1..n : \E j \in 1..Len(ps[i]) : p = sum[i - 1] + j /\ flat[p] = qs[i][j]
    BY <1>5
  <2>2. PICK j \in 1..Len(ps[i]) : p = sum[i - 1] + j /\ flat[p] = qs[i][j]
    BY <2>1
  <2>. QED
    BY <1>7, <2>2
<1>9. IdsOf(flat) = 1..Len(flat)
  BY <1>8 DEF IdsOf
<1>10. flat # <<>>
  <2>1. GoodPages(ps[1], part[1]) /\ 1 \in 1..n
    BY DEF OwnRows
  <2>2. 1 \in 1..Len(ps[1])
    BY <2>1, <1>2 DEF GoodPages
  <2>3. sum[1 - 1] + 1 \in 1..Len(flat)
    BY <1>7, <2>1, <2>2
  <2>. QED
    BY <2>3
<1>11. ASSUME NEW p \in 1..Len(flat) PROVE GoodPage(flat[p], IdsOf(flat))
  <2>1. PICK i \in 1..n : \E j \in 1..Len(ps[i]) : p = sum[i - 1] + j /\ flat[p] = qs[i][j]
    BY <1>5
  <2>2. PICK j \in 1..Len(ps[i]) : p = sum[i - 1] + j /\ flat[p] = qs[i][j]
    BY <2>1
  <2>3. GoodPage(ps[i][j], IdsOf(ps[i])) /\ ps[i][j] \in PageType
    BY <1>2, <2>2 DEF OwnRows, GoodPages
  <2>4. /\ flat[p].ids = ps[i][j].ids /\ flat[p].of = ps[i][j].of
        /\ flat[p].centroids = ps[i][j].centroids
        /\ Len(flat[p].kids) = Len(ps[i][j].kids)
        /\ \A m \in 1..Len(ps[i][j].kids) :
              \E b \in 1..Len(ps[i]) : flat[p].kids[m] = sum[i - 1] + b
    <3>1. flat[p] = qs[i][j]
      BY <2>2
    <3>2. /\ qs[i][j].ids = ps[i][j].ids /\ qs[i][j].of = ps[i][j].of
          /\ qs[i][j].centroids = ps[i][j].centroids
          /\ Len(qs[i][j].kids) = Len(ps[i][j].kids)
          /\ \A m \in 1..Len(ps[i][j].kids) :
                \E b \in 1..Len(ps[i]) : qs[i][j].kids[m] = sum[i - 1] + b
      BY Zenon DEF Renumbered, sum
    <3>. QED
      BY <3>1, <3>2, Zenon
  <2>5. flat[p] \in PageType
    BY <1>4 DEF flat
  <2>6. flat[p].kids \in Seq(Nat) /\ ps[i][j].kids \in Seq(Nat)
    BY <2>3, <2>5 DEF PageType
  <2>7. IsLeaf(flat[p]) <=> IsLeaf(ps[i][j])
    <3>1. flat[p].kids = <<>> <=> Len(flat[p].kids) = 0
      BY <2>6
    <3>2. ps[i][j].kids = <<>> <=> Len(ps[i][j].kids) = 0
      BY <2>6
    <3>. QED
      BY <2>4, <3>1, <3>2 DEF IsLeaf
  <2>8. \A m \in 1..Len(flat[p].kids) : flat[p].kids[m] \in IdsOf(flat)
    BY <1>7, <1>9, <2>4
  <2>. QED
    BY <2>3, <2>4, <2>5, <2>7, <2>8 DEF GoodPage
<1>12. RowsOf(flat) = RowsOfAll(n, part)
  <2>1. \A i \in 1..n : part[i] = RowsOf(ps[i])
    BY DEF OwnRows, GoodPages
  <2>2. ASSUME NEW r \in RowsOf(flat) PROVE \E i \in 1..n : r \in RowsOf(ps[i])
    <3>1. PICK p \in 1..Len(flat) : r \in ToSet(flat[p].ids)
      BY <2>2 DEF RowsOf
    <3>2. PICK i \in 1..n : \E j \in 1..Len(ps[i]) : flat[p] = qs[i][j]
      BY <1>5
    <3>3. PICK j \in 1..Len(ps[i]) : flat[p] = qs[i][j]
      BY <3>2
    <3>4. r \in ToSet(ps[i][j].ids)
      BY <1>7, <3>1, <3>3
    <3>. QED
      BY <3>4 DEF RowsOf
  <2>3. ASSUME NEW i \in 1..n, NEW r \in RowsOf(ps[i]) PROVE r \in RowsOf(flat)
    <3>1. PICK j \in 1..Len(ps[i]) : r \in ToSet(ps[i][j].ids)
      BY <2>3 DEF RowsOf
    <3>2. sum[i - 1] + j \in 1..Len(flat) /\ r \in ToSet(flat[sum[i - 1] + j].ids)
      BY <1>7, <3>1
    <3>. QED
      BY <3>2 DEF RowsOf
  <2>. QED
    BY <2>1, <2>2, <2>3 DEF RowsOfAll
<1>13. ListedOnce(flat)
  <2> SUFFICES ASSUME NEW p \in 1..Len(flat), NEW q \in 1..Len(flat),
                      NEW k \in 1..Len(flat[p].ids), NEW m \in 1..Len(flat[q].ids),
                      flat[p].ids[k] = flat[q].ids[m]
               PROVE  p = q /\ k = m
    BY DEF ListedOnce
  <2>1. PICK a \in 1..n : \E i \in 1..Len(ps[a]) : p = sum[a - 1] + i /\ flat[p] = qs[a][i]
    BY <1>5
  <2>2. PICK i \in 1..Len(ps[a]) : p = sum[a - 1] + i /\ flat[p] = qs[a][i]
    BY <2>1
  <2>3. PICK b \in 1..n : \E j \in 1..Len(ps[b]) : q = sum[b - 1] + j /\ flat[q] = qs[b][j]
    BY <1>5
  <2>4. PICK j \in 1..Len(ps[b]) : q = sum[b - 1] + j /\ flat[q] = qs[b][j]
    BY <2>3
  <2>5. /\ k \in 1..Len(ps[a][i].ids) /\ m \in 1..Len(ps[b][j].ids)
        /\ ps[a][i].ids[k] = ps[b][j].ids[m]
    BY <1>7, <2>2, <2>4, ZenonT(30)
  <2>6. ps[a][i].ids \in Seq(Nat) /\ ps[b][j].ids \in Seq(Nat)
    <3>1. ps[a] \in Seq(PageType) /\ ps[b] \in Seq(PageType)
      BY <1>2
    <3>2. ps[a][i] \in PageType /\ ps[b][j] \in PageType
      BY <3>1, SMTT(30)
    <3>. QED
      BY <3>2 DEF PageType
  <2>7. ps[a][i].ids[k] \in ToSet(ps[a][i].ids) /\ ps[b][j].ids[m] \in ToSet(ps[b][j].ids)
    <3>1. \A s \in Seq(Nat) : DOMAIN s = 1..Len(s)
      OBVIOUS
    <3>. QED
      BY <2>5, <2>6, <3>1 DEF ToSet
  <2>8. ps[a][i].ids[k] \in part[a] /\ ps[b][j].ids[m] \in part[b]
    <3>1. RowsOf(ps[a]) = part[a] /\ RowsOf(ps[b]) = part[b]
      BY DEF OwnRows, GoodPages
    <3>. QED
      BY <2>7, <3>1 DEF RowsOf
  <2>9. a = b
    BY <2>5, <2>8 DEF OwnRows
  <2>10. i = j /\ k = m
    <3>1. ListedOnce(ps[a])
      BY DEF OwnRows, GoodPages
    <3>2. /\ j \in 1..Len(ps[a]) /\ m \in 1..Len(ps[a][j].ids)
          /\ ps[a][i].ids[k] = ps[a][j].ids[m]
      BY <2>5, <2>9
    <3>. QED
      BY <2>5, <3>1, <3>2 DEF ListedOnce
  <2>. QED
    BY <2>2, <2>4, <2>9, <2>10
<1>14. GoodPages(flat, RowsOfAll(n, part))
  <2>1. \A a, b \in 1..Len(flat) : flat[a].id = flat[b].id => a = b
    BY <1>8
  <2>2. flat \in Seq(PageType)
    BY <1>4 DEF flat
  <2>. QED
    BY <1>10, <1>11, <1>12, <1>13, <2>1, <2>2 DEF GoodPages
<1>. QED
  BY <1>4, <1>8, <1>14 DEF flat, sum

\* A new root over pages that know no page 0.
RootOver(root, pages) ==
    /\ root \in PageType /\ root.id = 0 /\ root.ids = <<>> /\ root.kids # <<>>
    /\ Len(root.centroids) = Len(root.kids)
    /\ \A m \in 1..Len(root.kids) : root.kids[m] \in IdsOf(pages)
    /\ \A a \in 1..Len(pages) : pages[a].id # 0

\* all are the pages and the root, each at one place: at tells which.
PutTogether(all, pages, root, at) ==
    /\ all \in Seq(PageType)
    /\ at \in [1..Len(all) -> 0..Len(pages)]
    /\ \A a, b \in 1..Len(all) : at[a] = at[b] => a = b
    /\ \A p \in 0..Len(pages) : \E a \in 1..Len(all) : at[a] = p
    /\ \A a \in 1..Len(all) : all[a] = IF at[a] = 0 THEN root ELSE pages[at[a]]

\* Such pages with their root are pages of the same rows.
LEMMA RootAdded ==
    ASSUME NEW pages, NEW rows, GoodPages(pages, rows), NEW root, RootOver(root, pages),
           NEW all, NEW at, PutTogether(all, pages, root, at)
    PROVE  GoodPages(all, rows) /\ IdsOf(all) = {0} \cup IdsOf(pages)
<1>1. /\ pages \in Seq(PageType) /\ Len(pages) \in Nat
      /\ all \in Seq(PageType) /\ Len(all) \in Nat
  BY DEF GoodPages, PutTogether
<1>2. ASSUME NEW a \in 1..Len(all)
      PROVE  \/ at[a] = 0 /\ all[a] = root
             \/ at[a] \in 1..Len(pages) /\ all[a] = pages[at[a]]
  <2>1. at[a] \in 0..Len(pages) /\ all[a] = IF at[a] = 0 THEN root ELSE pages[at[a]]
    BY DEF PutTogether
  <2>2. at[a] = 0 \/ at[a] \in 1..Len(pages)
    BY <1>1, <2>1
  <2>. QED
    BY <2>1, <2>2
<1>3. PICK r \in 1..Len(all) : at[r] = 0 /\ all[r] = root
  <2>1. 0 \in 0..Len(pages)
    BY <1>1
  <2>2. PICK r \in 1..Len(all) : at[r] = 0
    BY <2>1 DEF PutTogether
  <2>. QED
    BY <2>2 DEF PutTogether
<1>4. ASSUME NEW p \in 1..Len(pages)
      PROVE  \E a \in 1..Len(all) : at[a] = p /\ all[a] = pages[p]
  <2>1. p \in 0..Len(pages) /\ p # 0
    BY <1>1
  <2>2. PICK a \in 1..Len(all) : at[a] = p
    BY <2>1 DEF PutTogether
  <2>. QED
    BY <2>1, <2>2 DEF PutTogether
<1>5. IdsOf(all) = {0} \cup IdsOf(pages)
  <2>1. \A a \in 1..Len(all) : all[a].id \in {0} \cup IdsOf(pages)
    BY <1>2 DEF IdsOf, RootOver
  <2>2. \A p \in 1..Len(pages) : pages[p].id \in IdsOf(all)
    BY <1>4 DEF IdsOf
  <2>3. 0 \in IdsOf(all)
    BY <1>3 DEF IdsOf, RootOver
  <2>. QED
    BY <2>1, <2>2, <2>3 DEF IdsOf
<1>6. ASSUME NEW a \in 1..Len(all) PROVE GoodPage(all[a], IdsOf(all))
  <2>1. CASE at[a] = 0 /\ all[a] = root
    <3>1. ~IsLeaf(root)
      BY DEF RootOver, IsLeaf
    <3>. QED
      BY <1>5, <2>1, <3>1 DEF RootOver, GoodPage
  <2>2. CASE at[a] \in 1..Len(pages) /\ all[a] = pages[at[a]]
    <3>1. GoodPage(all[a], IdsOf(pages))
      BY <2>2 DEF GoodPages
    <3>. QED
      BY <1>5, <3>1 DEF GoodPage
  <2>. QED
    BY <1>2, <2>1, <2>2
<1>7. \A a, b \in 1..Len(all) : all[a].id = all[b].id => a = b
  <2> SUFFICES ASSUME NEW a \in 1..Len(all), NEW b \in 1..Len(all), all[a].id = all[b].id
               PROVE  at[a] = at[b]
    BY DEF PutTogether
  <2>1. \A p \in 1..Len(pages) : pages[p].id # 0
    BY DEF RootOver
  <2>2. root.id = 0
    BY DEF RootOver
  <2>3. \A p, q \in 1..Len(pages) : pages[p].id = pages[q].id => p = q
    BY DEF GoodPages
  <2>4. CASE at[a] = 0 /\ all[a] = root
    <3>1. all[b].id = 0
      BY <2>2, <2>4
    <3>. QED
      BY <1>2, <2>1, <2>4, <3>1
  <2>5. CASE at[a] \in 1..Len(pages) /\ all[a] = pages[at[a]]
    <3>1. all[b].id # 0
      BY <2>1, <2>5
    <3>2. at[b] \in 1..Len(pages) /\ all[b] = pages[at[b]]
      BY <1>2, <2>2, <3>1
    <3>3. pages[at[a]].id = pages[at[b]].id
      BY <2>5, <3>2
    <3>. QED
      BY <2>3, <2>5, <3>2, <3>3
  <2>. QED
    BY <1>2, <2>4, <2>5
<1>8. ListedOnce(all)
  <2> SUFFICES ASSUME NEW a \in 1..Len(all), NEW b \in 1..Len(all),
                      NEW m \in 1..Len(all[a].ids), NEW n \in 1..Len(all[b].ids),
                      all[a].ids[m] = all[b].ids[n]
               PROVE  a = b /\ m = n
    BY DEF ListedOnce
  <2>1. Len(root.ids) = 0 /\ 1..0 = {}
    BY DEF RootOver
  <2>2. at[a] \in 1..Len(pages) /\ all[a] = pages[at[a]]
    BY <1>2, <2>1
  <2>3. at[b] \in 1..Len(pages) /\ all[b] = pages[at[b]]
    BY <1>2, <2>1
  <2>4. m \in 1..Len(pages[at[a]].ids) /\ n \in 1..Len(pages[at[b]].ids)
        /\ pages[at[a]].ids[m] = pages[at[b]].ids[n]
    BY <2>2, <2>3
  <2>5. at[a] = at[b] /\ m = n
    <3>1. ListedOnce(pages)
      BY DEF GoodPages
    <3>2. \A p, q \in 1..Len(pages) : \A i \in 1..Len(pages[p].ids), j \in 1..Len(pages[q].ids) :
             pages[p].ids[i] = pages[q].ids[j] => p = q /\ i = j
      BY <3>1 DEF ListedOnce
    <3>3. PICK p \in 1..Len(pages) : p = at[a]
      BY <2>2
    <3>4. PICK q \in 1..Len(pages) : q = at[b]
      BY <2>3
    <3>5. m \in 1..Len(pages[p].ids) /\ n \in 1..Len(pages[q].ids) /\ pages[p].ids[m] = pages[q].ids[n]
      BY <2>4, <3>3, <3>4
    <3>6. p = q /\ m = n
      BY <3>2, <3>5
    <3>. QED
      BY <3>3, <3>4, <3>6
  <2>. QED
    BY <2>5 DEF PutTogether
<1>9. RowsOf(all) = rows
  <2>1. RowsOf(pages) = rows
    BY DEF GoodPages
  <2>2. ToSet(root.ids) = {}
    BY DEF RootOver, ToSet
  <2>3. \A a \in 1..Len(all) : ToSet(all[a].ids) \subseteq RowsOf(pages)
    BY <1>2, <2>2 DEF RowsOf
  <2>4. \A p \in 1..Len(pages) : ToSet(pages[p].ids) \subseteq RowsOf(all)
    BY <1>4 DEF RowsOf
  <2>. QED
    BY <2>1, <2>3, <2>4 DEF RowsOf
<1>10. all # <<>>
  BY <1>1, <1>3
<1>. QED
  BY <1>1, <1>5, <1>6, <1>7, <1>8, <1>9, <1>10 DEF GoodPages

\* The root as the first page.
LEMMA RootFirst ==
    ASSUME NEW pages, NEW rows, GoodPages(pages, rows), NEW root, RootOver(root, pages)
    PROVE  /\ GoodPages(<<root>> \o pages, rows)
           /\ Len(<<root>> \o pages) = Len(pages) + 1
           /\ (<<root>> \o pages)[1] = root
           /\ \A p \in 1..Len(pages) : (<<root>> \o pages)[p + 1] = pages[p]
<1> DEFINE all == <<root>> \o pages
           at == [a \in 1..Len(all) |-> a - 1]
<1>1. root \in PageType /\ pages \in Seq(PageType) /\ Len(pages) \in Nat
  BY DEF RootOver, GoodPages
<1>2. all \in Seq(PageType) /\ Len(all) = Len(pages) + 1
      /\ all[1] = root /\ \A p \in 1..Len(pages) : all[p + 1] = pages[p]
  BY <1>1
<1> HIDE DEF all
<1>3. PutTogether(all, pages, root, at)
  <2>1. at \in [1..Len(all) -> 0..Len(pages)]
    BY <1>1, <1>2
  <2>2. \A a, b \in 1..Len(all) : at[a] = at[b] => a = b
    BY <1>1, <1>2
  <2>3. ASSUME NEW p \in 0..Len(pages) PROVE \E a \in 1..Len(all) : at[a] = p
    <3>1. p + 1 \in 1..Len(all) /\ at[p + 1] = p
      BY <1>1, <1>2
    <3>. QED
      BY <3>1
  <2>4. \A a \in 1..Len(all) : all[a] = IF at[a] = 0 THEN root ELSE pages[at[a]]
    <3> TAKE a \in 1..Len(all)
    <3>1. CASE a = 1
      BY <1>2, <3>1
    <3>2. CASE a # 1
      <4>1. a - 1 \in 1..Len(pages) /\ a = (a - 1) + 1 /\ at[a] = a - 1
        BY <1>1, <1>2, <3>2
      <4>2. all[(a - 1) + 1] = pages[a - 1]
        BY <1>2, <4>1
      <4>. QED
        BY <4>1, <4>2
    <3>. QED
      BY <3>1, <3>2
  <2>. QED
    BY <1>2, <2>1, <2>2, <2>3, <2>4 DEF PutTogether
<1> HIDE DEF at
<1>4. GoodPages(all, rows)
  BY <1>3, RootAdded
<1>. QED
  BY <1>2, <1>4 DEF all

\* The root as the last page.
LEMMA RootLast ==
    ASSUME NEW pages, NEW rows, GoodPages(pages, rows), NEW root, RootOver(root, pages)
    PROVE  /\ GoodPages(Append(pages, root), rows)
           /\ IdsOf(Append(pages, root)) = {0} \cup IdsOf(pages)
<1> DEFINE all == Append(pages, root)
           at == [a \in 1..Len(all) |-> IF a = Len(pages) + 1 THEN 0 ELSE a]
<1>1. root \in PageType /\ pages \in Seq(PageType) /\ Len(pages) \in Nat
  BY DEF RootOver, GoodPages
<1>2. all \in Seq(PageType) /\ Len(all) = Len(pages) + 1
      /\ all[Len(pages) + 1] = root /\ \A p \in 1..Len(pages) : all[p] = pages[p]
  BY <1>1
<1> HIDE DEF all
<1>3. PutTogether(all, pages, root, at)
  <2>1. at \in [1..Len(all) -> 0..Len(pages)]
    BY <1>1, <1>2
  <2>2. \A a, b \in 1..Len(all) : at[a] = at[b] => a = b
    BY <1>1, <1>2
  <2>3. ASSUME NEW p \in 0..Len(pages) PROVE \E a \in 1..Len(all) : at[a] = p
    <3>1. CASE p = 0
      <4>1. Len(pages) + 1 \in 1..Len(all) /\ at[Len(pages) + 1] = p
        BY <1>1, <1>2, <3>1
      <4>. QED
        BY <4>1
    <3>2. CASE p # 0
      <4>1. p \in 1..Len(all) /\ at[p] = p
        BY <1>1, <1>2, <3>2
      <4>. QED
        BY <4>1
    <3>. QED
      BY <3>1, <3>2
  <2>4. \A a \in 1..Len(all) : all[a] = IF at[a] = 0 THEN root ELSE pages[at[a]]
    BY <1>1, <1>2
  <2>. QED
    BY <1>2, <2>1, <2>2, <2>3, <2>4 DEF PutTogether
<1> HIDE DEF at
<1>4. GoodPages(all, rows) /\ IdsOf(all) = {0} \cup IdsOf(pages)
  BY <1>3, RootAdded
<1>. QED
  BY <1>4 DEF all

-----------------------------------------------------------------------------
(* Building                                                                *)

\* A function of places is a sequence.
LEMMA FunctionIsSeq ==
    ASSUME NEW T, NEW n \in Nat, NEW f \in [1..n -> T]
    PROVE  f \in Seq(T) /\ Len(f) = n
OBVIOUS

\* The pages of a partition tree, numbered from 0.
GoodTree(pages, rows) == GoodPages(pages, rows) /\ \A p \in 1..Len(pages) : pages[p].id = p - 1

\* Trees of rows of their own.
OwnTrees(n, kids, part) ==
    /\ kids \in [1..n -> Seq(PageType)]
    /\ \A i \in 1..n : GoodTree(kids[i], part[i])
    /\ \A i, j \in 1..n : i # j => part[i] \cap part[j] = {}

\* A node over trees of rows of their own is a tree of all the rows.
LEMMA PartitionIs ==
    ASSUME NEW n \in Nat \ {0}, NEW kids, NEW part, OwnTrees(n, kids, part),
           NEW val, Valued(val, RowsOfAll(n, part))
    PROVE  GoodTree(PartitionToPages(kids, val), RowsOfAll(n, part))
<1> DEFINE rows == RowsOfAll(n, part)
           sum == Sums(Lengths(n, kids))
           Numbered(i, id) == 1 + PagesBefore(kids, i) + id
           Page(i, page) == [page EXCEPT !.id = Numbered(i, @),
                                         !.kids = [j \in DOMAIN @ |-> Numbered(i, @[j])]]
           qs == [i \in DOMAIN kids |-> [j \in DOMAIN kids[i] |-> Page(i, kids[i][j])]]
           root == Internal(0, [i \in DOMAIN kids |-> Numbered(i, kids[i][1].id)],
                            [i \in DOMAIN kids |-> Centroid(kids[i][1], val)])
           flat == FlattenSeq(qs)
<1>1. PartitionToPages(kids, val) = <<root>> \o flat
  BY DEF PartitionToPages
<1>2. /\ DOMAIN kids = 1..n
      /\ \A i \in 1..n : kids[i] \in Seq(PageType) /\ DOMAIN kids[i] = 1..Len(kids[i])
      /\ \A i \in 1..n : kids[i] # <<>> /\ GoodPages(kids[i], part[i])
      /\ \A i \in 1..n : \A p \in 1..Len(kids[i]) : kids[i][p].id = p - 1
  <2>1. kids \in [1..n -> Seq(PageType)] /\ \A i \in 1..n : GoodTree(kids[i], part[i])
    BY DEF OwnTrees
  <2>. QED
    BY <2>1 DEF GoodTree, GoodPages
<1>3. Lengths(n, kids) \in [1..n -> Nat]
  BY <1>2 DEF Lengths
<1>4. sum \in [0..n -> Nat]
  BY <1>3, SumsGrow
<1>5. \A i \in 1..n : PagesBefore(kids, i) = sum[i - 1]
  <2>1. [j \in DOMAIN kids |-> Len(kids[j])] = Lengths(n, kids)
    BY <1>2 DEF Lengths
  <2>. QED
    BY <2>1 DEF PagesBefore
<1> HIDE DEF sum
<1>6. \A i \in 1..n : sum[i - 1] \in Nat
  BY <1>4
<1>7. ASSUME NEW i \in 1..n, NEW j \in 1..Len(kids[i])
      PROVE  /\ qs[i][j] \in PageType
             /\ qs[i][j].id = sum[i - 1] + j
             /\ qs[i][j].ids = kids[i][j].ids /\ qs[i][j].of = kids[i][j].of
             /\ qs[i][j].centroids = kids[i][j].centroids
             /\ Len(qs[i][j].kids) = Len(kids[i][j].kids)
             /\ \A m \in 1..Len(kids[i][j].kids) :
                   \E b \in 1..Len(kids[i]) : qs[i][j].kids[m] = sum[i - 1] + b
  <2> DEFINE page == kids[i][j]
             ks == [m \in DOMAIN page.kids |-> Numbered(i, page.kids[m])]
             q == [page EXCEPT !.id = Numbered(i, page.id), !.kids = ks]
  <2>1. page \in PageType /\ page.id = j - 1 /\ GoodPage(page, IdsOf(kids[i]))
    <3>1. kids[i] \in Seq(PageType)
      BY <1>2
    <3>2. GoodPages(kids[i], part[i])
      BY <1>2
    <3>. QED
      BY <1>2, <3>1, <3>2 DEF GoodPages
  <2>2. qs[i][j] = q
    BY <1>2
  <2>3. page.kids \in Seq(Nat) /\ DOMAIN page.kids = 1..Len(page.kids) /\ Len(page.kids) \in Nat
    BY <2>1 DEF PageType
  <2>4. Numbered(i, page.id) = sum[i - 1] + j /\ Numbered(i, page.id) \in Nat
    BY <1>5, <1>6, <2>1
  <2>5. ASSUME NEW m \in 1..Len(page.kids)
        PROVE  \E b \in 1..Len(kids[i]) : ks[m] = sum[i - 1] + b
    <3>1. page.kids[m] \in IdsOf(kids[i])
      BY <2>1 DEF GoodPage
    <3>2. PICK b \in 1..Len(kids[i]) : page.kids[m] = kids[i][b].id
      BY <3>1 DEF IdsOf
    <3>3. page.kids[m] = b - 1
      BY <1>2, <3>2
    <3>4. ks[m] = Numbered(i, page.kids[m])
      BY <2>3
    <3>5. ks[m] = 1 + sum[i - 1] + (b - 1)
      BY <1>5, <3>3, <3>4
    <3>. QED
      BY <1>6, <3>5, SMTT(30)
  <2>6. \A m \in 1..Len(page.kids) : ks[m] \in Nat
    <3> TAKE m \in 1..Len(page.kids)
    <3>1. PICK b \in 1..Len(kids[i]) : ks[m] = sum[i - 1] + b
      BY <2>5
    <3>. QED
      BY <1>6, <3>1
  <2>7. ks \in Seq(Nat) /\ Len(ks) = Len(page.kids)
    <3>1. ks = [m \in 1..Len(page.kids) |-> ks[m]]
      BY <2>3
    <3> HIDE DEF ks
    <3>2. ks \in [1..Len(page.kids) -> Nat]
      BY <2>6, <3>1
    <3>. QED
      BY <2>3, <3>2, FunctionIsSeq
  <2>8. /\ q \in PageType /\ q.id = Numbered(i, page.id) /\ q.kids = ks
        /\ q.ids = page.ids /\ q.of = page.of /\ q.centroids = page.centroids
    <3> HIDE DEF ks, page, Numbered
    <3>. QED
      BY <2>1, <2>4, <2>7 DEF PageType
  <2> HIDE DEF ks, q
  <2>. QED
    BY <2>2, <2>4, <2>5, <2>7, <2>8
<1>8. Renumbered(n, kids, qs)
  <2>1. AreSeqs(n, kids, PageType)
    BY DEF AreSeqs, OwnTrees
  <2>2. \A i \in 1..n : qs[i] \in Seq(PageType) /\ Len(qs[i]) = Len(kids[i])
    <3> TAKE i \in 1..n
    <3>1. qs[i] = [j \in 1..Len(kids[i]) |-> qs[i][j]] /\ Len(kids[i]) \in Nat
      BY <1>2
    <3> HIDE DEF qs
    <3>2. qs[i] \in [1..Len(kids[i]) -> PageType]
      BY <1>7, <3>1
    <3>. QED
      BY <3>1, <3>2
  <2>3. qs = [i \in 1..n |-> qs[i]]
    BY <1>2
  <2> HIDE DEF qs
  <2>4. AreSeqs(n, qs, PageType)
    BY <2>2, <2>3 DEF AreSeqs
  <2>. QED
    BY <1>7, <2>1, <2>2, <2>4 DEF Renumbered, sum
<1>9. OwnRows(n, kids, part)
  BY <1>2 DEF OwnRows, OwnTrees
<1> HIDE DEF qs
<1>10. /\ GoodPages(flat, rows)
      /\ \A p \in 1..Len(flat) : flat[p].id = p
      /\ Len(flat) = sum[n]
  <2>1. /\ GoodPages(FlattenSeq(qs), RowsOfAll(n, part))
        /\ \A p \in 1..Len(FlattenSeq(qs)) : FlattenSeq(qs)[p].id = p
        /\ Len(FlattenSeq(qs)) = Sums(Lengths(n, kids))[n]
    BY <1>8, <1>9, RenumberedIs
  <2>. QED
    BY <2>1 DEF sum
<1>11. RootOver(root, flat)
  <2> DEFINE ks == [i \in DOMAIN kids |-> Numbered(i, kids[i][1].id)]
             cs == [i \in DOMAIN kids |-> Centroid(kids[i][1], val)]
  <2>1. ASSUME NEW i \in 1..n PROVE ks[i] \in Nat /\ ks[i] \in IdsOf(flat)
    <3>1. 1 \in 1..Len(kids[i])
      BY <1>2
    <3>2. kids[i][1].id = 0
      BY <1>2, <3>1
    <3>3. ks[i] = sum[i - 1] + 1
      BY <1>2, <1>5, <1>6, <3>2
    <3>4. AreSeqs(n, qs, PageType) /\ Lengths(n, qs) = Lengths(n, kids) /\ 1 \in 1..Len(qs[i])
      BY <1>8, <3>1 DEF Renumbered, Lengths
    <3>5. sum[i - 1] + 1 \in 1..Len(flat)
      <4>1. Sums(Lengths(n, qs))[i - 1] + 1 \in 1..Sums(Lengths(n, qs))[n]
        BY <3>4, FlattenIs
      <4>2. Sums(Lengths(n, qs))[i - 1] = sum[i - 1] /\ Sums(Lengths(n, qs))[n] = sum[n]
        BY <3>4 DEF sum
      <4>3. Len(flat) = Sums(Lengths(n, qs))[n]
        BY <3>4, FlattenIs
      <4> HIDE DEF flat, sum
      <4>. QED
        BY <4>1, <4>2, <4>3
    <3>6. flat[sum[i - 1] + 1].id = sum[i - 1] + 1
      BY <1>10, <3>5
    <3> HIDE DEF flat, ks
    <3>7. sum[i - 1] + 1 \in IdsOf(flat)
      BY <3>5, <3>6 DEF IdsOf
    <3>. QED
      BY <1>6, <3>3, <3>7
  <2>2. ASSUME NEW i \in 1..n PROVE cs[i] \in Int
    <3>1. 1 \in 1..Len(kids[i]) /\ GoodPages(kids[i], part[i])
      BY <1>2
    <3>2. Valued(val, part[i])
      BY DEF Valued, RowsOfAll
    <3>3. Centroid(kids[i][1], val) \in Int
      BY <3>1, <3>2, CentroidIs
    <3>. QED
      BY <1>2, <3>3
  <2>3. ks = [i \in 1..n |-> ks[i]] /\ cs = [i \in 1..n |-> cs[i]]
    BY <1>2
  <2>4. root = [id |-> 0, ids |-> <<>>, of |-> {}, kids |-> ks, centroids |-> cs]
    BY DEF Internal
  <2> HIDE DEF ks, cs, root
  <2>5. ks \in [1..n -> Nat] /\ cs \in [1..n -> Int]
    BY <2>1, <2>2, <2>3
  <2>6. ks \in Seq(Nat) /\ cs \in Seq(Int) /\ Len(ks) = n /\ Len(cs) = n
    BY <2>5
  <2>7. root \in PageType
    BY <2>4, <2>6 DEF PageType
  <2>8. ks # <<>>
    BY <2>6
  <2>9. \A a \in 1..Len(flat) : flat[a].id # 0
    BY <1>10
  <2>. QED
    BY <2>1, <2>4, <2>6, <2>7, <2>8, <2>9 DEF RootOver
<1> HIDE DEF flat, root
<1>12. flat \in Seq(PageType) /\ Len(flat) \in Nat
  BY <1>10 DEF GoodPages
<1>13. /\ GoodPages(<<root>> \o flat, rows)
       /\ Len(<<root>> \o flat) = Len(flat) + 1
       /\ (<<root>> \o flat)[1] = root
       /\ \A p \in 1..Len(flat) : (<<root>> \o flat)[p + 1] = flat[p]
  BY <1>10, <1>11, RootFirst
<1>14. ASSUME NEW p \in 1..Len(<<root>> \o flat) PROVE (<<root>> \o flat)[p].id = p - 1
  <2>1. CASE p = 1
    BY <1>11, <1>13, <2>1 DEF RootOver
  <2>2. CASE p # 1
    <3>1. p - 1 \in 1..Len(flat) /\ (p - 1) + 1 = p
      BY <1>12, <1>13, <2>2
    <3>2. (<<root>> \o flat)[(p - 1) + 1] = flat[p - 1]
      BY <1>13, <3>1
    <3>. QED
      BY <1>10, <3>1, <3>2
  <2>. QED
    BY <2>1, <2>2
<1>. QED
  BY <1>1, <1>13, <1>14 DEF GoodTree

\* Every tree listed under a sequence of different rows is a tree of these.
TreesOf(S, level) ==
    \A rows \in Seq(S) : rows # <<>> /\ IsInjective(rows)
        => \A t \in level[rows] : GoodTree(t, ToSet(rows))

\* A sequence of elements of S is one, whatever it was a sequence of.
LEMMA SeqWithin ==
    ASSUME NEW T, NEW s \in Seq(T), NEW S, \A m \in 1..Len(s) : s[m] \in S
    PROVE  s \in Seq(S)
<1>1. s = [m \in 1..Len(s) |-> s[m]] /\ Len(s) \in Nat
  OBVIOUS
<1>2. s \in [1..Len(s) -> S]
  BY <1>1
<1>. QED
  BY <1>1, <1>2, FunctionIsSeq

\* A single leaf is a tree of its rows.
LEMMA LeafIsTree ==
    ASSUME NEW rows \in Seq(Nat), rows # <<>>, IsInjective(rows),
           NEW of \in SUBSET ToSet(rows), of # {}
    PROVE  GoodTree(<<Leaf(0, rows, of)>>, ToSet(rows))
<1> DEFINE leaf == Leaf(0, rows, of)
           pages == <<leaf>>
<1>1. of \in SUBSET Nat
  BY ToSetIs
<1>2. leaf = [id |-> 0, ids |-> rows, of |-> of, kids |-> <<>>, centroids |-> <<>>]
  BY DEF Leaf
<1>3. leaf \in PageType /\ leaf.id = 0 /\ leaf.ids = rows /\ leaf.of = of
      /\ leaf.kids = <<>> /\ leaf.centroids = <<>>
  <2>1. <<>> \in Seq(Nat) /\ <<>> \in Seq(Int)
    OBVIOUS
  <2>. QED
    <3>1. leaf.id = 0 /\ leaf.ids = rows /\ leaf.of = of
          /\ leaf.kids = <<>> /\ leaf.centroids = <<>>
      BY <1>2
    <3> HIDE DEF leaf
    <3>2. of \in SUBSET Nat /\ leaf = [id |-> 0, ids |-> rows, of |-> of, kids |-> <<>>, centroids |-> <<>>]
      BY <1>1, <1>2
    <3>3. leaf \in PageType
      BY <2>1, <3>2 DEF PageType
    <3>. QED
      BY <3>1, <3>3
<1> HIDE DEF leaf
<1>4. pages \in Seq(PageType) /\ Len(pages) = 1 /\ pages[1] = leaf /\ pages # <<>>
  BY <1>3
<1> HIDE DEF pages
<1>5. \A a \in 1..Len(pages) : a = 1 /\ pages[a] = leaf
  BY <1>4
<1>6. \A a \in 1..Len(pages) : GoodPage(pages[a], IdsOf(pages))
  <2>1. Len(leaf.kids) = 0 /\ 1..0 = {}
    BY <1>3
  <2>2. GoodPage(leaf, IdsOf(pages))
    BY <1>3, <2>1 DEF GoodPage, IsLeaf
  <2>. QED
    BY <1>5, <2>2
<1>7. ListedOnce(pages)
  <2> SUFFICES ASSUME NEW a \in 1..Len(pages), NEW b \in 1..Len(pages),
                      NEW m \in 1..Len(pages[a].ids), NEW n \in 1..Len(pages[b].ids),
                      pages[a].ids[m] = pages[b].ids[n]
               PROVE  a = b /\ m = n
    BY DEF ListedOnce
  <2>1. a = b /\ pages[a].ids = rows /\ pages[b].ids = rows
    BY <1>3, <1>5
  <2>2. m \in DOMAIN rows /\ n \in DOMAIN rows /\ rows[m] = rows[n]
    BY <2>1
  <2>. QED
    BY <2>1, <2>2 DEF IsInjective
<1>8. RowsOf(pages) = ToSet(rows)
  <2>1. \A a \in 1..Len(pages) : pages[a].ids = rows
    BY <1>3, <1>5
  <2>2. 1 \in 1..Len(pages)
    BY <1>4
  <2>. QED
    BY <2>1, <2>2 DEF RowsOf
<1>. QED
  BY <1>3, <1>4, <1>5, <1>6, <1>7, <1>8 DEF GoodTree, GoodPages, pages, leaf

\* A split whose clusters have trees gives trees.
LEMMA SplitTreesIs ==
    ASSUME NEW rows \in Seq(Nat), rows # <<>>, IsInjective(rows), NEW val, Valued(val, ToSet(rows)),
           NEW S, ToSet(rows) \subseteq S, NEW level, TreesOf(S, level),
           NEW t \in SplitTrees(rows, level, val)
    PROVE  GoodTree(t, ToSet(rows))
<1> DEFINE Kids(cs) == {f \in [DOMAIN cs -> UNION {level[cs[i]] : i \in DOMAIN cs}] :
                            \A i \in DOMAIN cs : f[i] \in level[cs[i]]}
<1>1. PICK cs \in Splits(rows, val) :
         Len(cs) > 1 /\ \E kids \in Kids(cs) : t = PartitionToPages(kids, val)
  BY DEF SplitTrees
<1>2. PICK kids \in Kids(cs) : t = PartitionToPages(kids, val)
  BY <1>1
<1>3. /\ cs \in Seq(Seq(Nat))
      /\ \A i \in 1..Len(cs) : /\ cs[i] # <<>> /\ IsInjective(cs[i])
                               /\ ToSet(cs[i]) \subseteq ToSet(rows)
      /\ \A i, j \in 1..Len(cs) : i # j => ToSet(cs[i]) \cap ToSet(cs[j]) = {}
      /\ UNION {ToSet(cs[i]) : i \in 1..Len(cs)} = ToSet(rows)
  BY SplitRows
<1> DEFINE n == Len(cs)
           part == [i \in 1..n |-> ToSet(cs[i])]
<1>4. n \in Nat \ {0} /\ DOMAIN cs = 1..n
  BY <1>1, <1>3
<1>5. DOMAIN kids = 1..n /\ \A i \in 1..n : kids[i] \in level[cs[i]]
  BY <1>2, <1>4
<1>6. \A i \in 1..n : GoodTree(kids[i], part[i])
  <2> TAKE i \in 1..n
  <2>1. cs[i] \in Seq(Nat)
    BY <1>3
  <2>2. \A m \in 1..Len(cs[i]) : cs[i][m] \in S
    <3>1. \A m \in 1..Len(cs[i]) : cs[i][m] \in ToSet(cs[i])
      BY <2>1, ToSetIs
    <3>. QED
      BY <1>3, <3>1
  <2>3. cs[i] \in Seq(S)
    BY <2>1, <2>2, SeqWithin
  <2>4. GoodTree(kids[i], ToSet(cs[i]))
    BY <1>3, <1>5, <2>3 DEF TreesOf
  <2>. QED
    BY <2>4
<1>7. kids \in [1..n -> Seq(PageType)]
  <2>1. \A i \in 1..n : kids[i] \in Seq(PageType)
    BY <1>6 DEF GoodTree, GoodPages
  <2>2. kids = [i \in 1..n |-> kids[i]]
    BY <1>2, <1>4
  <2>. QED
    BY <2>1, <2>2
<1>8. RowsOfAll(n, part) = ToSet(rows)
  BY <1>3 DEF RowsOfAll
<1>9. \A i, j \in 1..n : i # j => part[i] \cap part[j] = {}
  BY <1>3
<1> HIDE DEF n, part
<1>10. OwnTrees(n, kids, part)
  BY <1>6, <1>7, <1>9 DEF OwnTrees
<1>11. GoodTree(PartitionToPages(kids, val), RowsOfAll(n, part))
  BY <1>4, <1>8, <1>10, PartitionIs
<1>. QED
  BY <1>2, <1>8, <1>11

\* Every partition tree of a batch is a tree of its rows (kmeans.rs:148-186).
LEMMA TreesIs ==
    ASSUME NEW ids \in Seq(Nat), ids # <<>>, IsInjective(ids), NEW val, Valued(val, ToSet(ids)),
           NEW t \in Trees(ids, val)
    PROVE  GoodTree(t, ToSet(ids))
<1> DEFINE S == ToSet(ids)
           top == Len(ids)
           Level(n, smaller) ==
               [rows \in Seq(S) |->
                   IF Len(rows) <= LeafCapacity THEN {<<Leaf(0, rows, ToSet(rows))>>}
                   ELSE IF n = 0 THEN {}
                   ELSE SplitTrees(rows, smaller, val)]
           Steps(f) == f = [n \in 0..top |-> Level(n, f[n - 1])]
           trees == CHOOSE f : Steps(f)
<1>1. top \in Nat /\ top \in 0..top
  OBVIOUS
<1>2. S \in SUBSET Nat
  BY ToSetIs
<1>3. \A smaller : \A n \in 0..top, rows \in Seq(S) :
         Level(n, smaller)[rows] = IF Len(rows) <= LeafCapacity THEN {<<Leaf(0, rows, ToSet(rows))>>}
                                   ELSE IF n = 0 THEN {} ELSE SplitTrees(rows, smaller, val)
  OBVIOUS
<1>4. \A a, b : Level(0, a) = Level(0, b)
  OBVIOUS
<1>5. Trees(ids, val) = trees[top][ids]
  BY Zenon DEF Trees, trees, Steps, Level, S, top
<1> HIDE DEF Level, S, top
<1>6. \E f : Steps(f)
  <2> DEFINE Upto(k, f) == f = [n \in 0..k |-> Level(n, f[n - 1])]
             K == {k \in 0..top : \E f : Upto(k, f)}
  <2>1. 0 \in K
    <3> DEFINE f == [n \in 0..0 |-> Level(0, 0)]
    <3>1. f = [n \in 0..0 |-> Level(n, f[n - 1])]
      <4>1. \A n \in 0..0 : n = 0 /\ Level(n, f[n - 1]) = Level(0, 0)
        BY <1>4
      <4> HIDE DEF f
      <4>2. f = [n \in 0..0 |-> Level(0, 0)]
        BY DEF f
      <4>. QED
        BY <4>1, <4>2
    <3>. QED
      BY <1>1, <3>1
  <2>2. ASSUME NEW k \in 0..(top - 1), k \in K PROVE k + 1 \in K
    <3>1. PICK f : Upto(k, f)
      BY <2>2
    <3> DEFINE g == [n \in 0..(k + 1) |-> IF n = k + 1 THEN Level(k + 1, f[k]) ELSE f[n]]
    <3>2. \A n \in 0..k : f[n] = Level(n, f[n - 1])
      BY <3>1
    <3>3. ASSUME NEW n \in 0..(k + 1) PROVE g[n] = Level(n, g[n - 1])
      <4>1. CASE n = 0
        <5>1. g[n] = f[0] /\ f[0] = Level(0, f[0 - 1])
          BY <1>1, <3>2, <4>1
        <5>. QED
          BY <1>4, <4>1, <5>1
      <4>2. CASE n \in 1..k
        <5>1. g[n] = f[n] /\ g[n - 1] = f[n - 1]
          BY <4>2
        <5>2. f[n] = Level(n, f[n - 1])
          BY <3>2, <4>2
        <5>. QED
          BY <5>1, <5>2
      <4>3. CASE n = k + 1
        <5>1. g[n] = Level(k + 1, f[k]) /\ g[n - 1] = f[k]
          BY <4>3
        <5>. QED
          BY <4>3, <5>1
      <4>4. n = 0 \/ n \in 1..k \/ n = k + 1
        OBVIOUS
      <4>. QED
        BY <4>1, <4>2, <4>3, <4>4
    <3>4. g = [n \in 0..(k + 1) |-> g[n]]
      OBVIOUS
    <3> HIDE DEF g
    <3>5. Upto(k + 1, g)
      BY <3>3, <3>4
    <3>6. k + 1 \in 0..top
      BY <1>1
    <3>. QED
      BY <3>5, <3>6
  <2>3. \A k \in 0..(top - 1) : k \in K => k + 1 \in K
    BY <2>2
  <2> HIDE DEF K
  <2>4. top \in K
    BY <1>1, <2>1, <2>3, UpTo
  <2>. QED
    BY <2>4 DEF K
<1>7. \A n \in 0..top : trees[n] = Level(n, trees[n - 1])
  <2>1. Steps(trees)
    BY <1>6
  <2> HIDE DEF trees
  <2>. QED
    BY <2>1
<1> HIDE DEF trees
<1> DEFINE K == {k \in 0..top : TreesOf(S, trees[k])}
<1>8. ASSUME NEW n \in 0..top, n = 0 \/ TreesOf(S, trees[n - 1]) PROVE TreesOf(S, trees[n])
  <2> SUFFICES ASSUME NEW rows \in Seq(S), rows # <<>>, IsInjective(rows), NEW u \in trees[n][rows]
               PROVE  GoodTree(u, ToSet(rows))
    BY DEF TreesOf
  <2>1. rows \in Seq(Nat)
    <3>1. \A m \in 1..Len(rows) : rows[m] \in S
      OBVIOUS
    <3>2. \A m \in 1..Len(rows) : rows[m] \in Nat
      BY <1>2, <3>1
    <3>. QED
      BY <3>2, SeqWithin
  <2>2. u \in IF Len(rows) <= LeafCapacity THEN {<<Leaf(0, rows, ToSet(rows))>>}
              ELSE IF n = 0 THEN {} ELSE SplitTrees(rows, trees[n - 1], val)
    <3>1. trees[n] = Level(n, trees[n - 1])
      BY <1>7
    <3>2. u \in Level(n, trees[n - 1])[rows]
      BY <3>1
    <3> DEFINE smaller == trees[n - 1]
    <3>3. u \in Level(n, smaller)[rows]
      BY <3>2
    <3> HIDE DEF smaller
    <3>4. Level(n, smaller)[rows] = IF Len(rows) <= LeafCapacity THEN {<<Leaf(0, rows, ToSet(rows))>>}
                                    ELSE IF n = 0 THEN {} ELSE SplitTrees(rows, smaller, val)
      BY <1>3, Zenon
    <3>. QED
      BY <3>3, <3>4, Zenon DEF smaller
  <2>3. CASE Len(rows) <= LeafCapacity
    <3>1. ToSet(rows) # {}
      BY <2>1, ToSetIs
    <3>. QED
      BY <2>1, <2>2, <2>3, <3>1, LeafIsTree
  <2>4. CASE ~(Len(rows) <= LeafCapacity)
    <3>1. n # 0 /\ u \in SplitTrees(rows, trees[n - 1], val)
      BY <2>2, <2>4
    <3>2. TreesOf(S, trees[n - 1])
      BY <1>8, <3>1
    <3>3. ToSet(rows) \subseteq S
      BY ToSetIs
    <3>4. Valued(val, ToSet(rows))
      BY <3>3 DEF Valued, S
    <3>. QED
      BY <2>1, <3>1, <3>2, <3>3, <3>4, SplitTreesIs
  <2>. QED
    BY <2>3, <2>4
<1>9. 0 \in K
  BY <1>1, <1>8
<1>10. \A k \in 0..(top - 1) : k \in K => k + 1 \in K
  <2> TAKE k \in 0..(top - 1)
  <2>1. k + 1 \in 0..top /\ (k + 1) - 1 = k
    BY <1>1
  <2>. QED
    BY <1>8, <2>1
<1> HIDE DEF K
<1>11. top \in K
  BY <1>1, <1>9, <1>10, UpTo
<1>12. TreesOf(S, trees[top])
  BY <1>11 DEF K
<1>13. ids \in Seq(S)
  <2>1. \A m \in 1..Len(ids) : ids[m] \in ToSet(ids)
    BY ToSetIs
  <2>. QED
    BY <2>1 DEF S
<1>. QED
  BY <1>5, <1>12, <1>13 DEF TreesOf, S

\* The size of an interval.
LEMMA IntervalIs ==
    ASSUME NEW n \in Nat
    PROVE  IsFiniteSet(1..n) /\ Cardinality(1..n) = n
BY FS_Interval

\* What a sequence lists, place by place.
LEMMA Members ==
    ASSUME NEW T, NEW s \in Seq(T)
    PROVE  /\ \A m \in 1..Len(s) : s[m] \in ToSet(s)
           /\ \A e \in ToSet(s) : \E m \in 1..Len(s) : s[m] = e
BY DEF ToSet

\* What is chosen is at one of the places, and all of the places are chosen.
LEMMA ChosenPlaces ==
    ASSUME NEW T, NEW s \in Seq(T), NEW places \in SUBSET (1..Len(s))
    PROVE  /\ Chosen(s, places) \in Seq(T)
           /\ \A m \in 1..Len(Chosen(s, places)) : \E p \in places : Chosen(s, places)[m] = s[p]
           /\ \A p \in places : \E m \in 1..Len(Chosen(s, places)) : Chosen(s, places)[m] = s[p]
<1> DEFINE c == Chosen(s, places)
           image == {s[p] : p \in places}
<1>1. c \in Seq(T) /\ ToSet(c) = image
  BY ChosenOf
<1> HIDE DEF c
<1>2. \A m \in 1..Len(c) : c[m] \in image
  BY <1>1, Members
<1>3. \A p \in places : s[p] \in ToSet(c)
  BY <1>1
<1>4. \A p \in places : \E m \in 1..Len(c) : c[m] = s[p]
  BY <1>1, <1>3, Members
<1>. QED
  BY <1>1, <1>2, <1>4 DEF c

\* The first k elements of a sequence.
LEMMA TakeIs ==
    ASSUME NEW T, NEW s \in Seq(T), NEW k \in Nat
    PROVE  /\ Take(s, k) \in Seq(T)
           /\ Len(Take(s, k)) = IF k <= Len(s) THEN k ELSE Len(s)
           /\ \A m \in 1..Len(Take(s, k)) : m \in 1..Len(s) /\ Take(s, k)[m] = s[m]
<1>1. Len(s) \in Nat
  OBVIOUS
<1>2. Min({k, Len(s)}) = IF k <= Len(s) THEN k ELSE Len(s)
  BY <1>1, MinOfTwo
<1> DEFINE top == Min({k, Len(s)})
<1>3. top \in 0..Len(s)
  BY <1>1, <1>2
<1>4. Take(s, k) = SubSeq(s, 1, top)
  BY DEF Take
<1> HIDE DEF top
<1>5. SubSeq(s, 1, top) \in Seq(T) /\ Len(SubSeq(s, 1, top)) = top
      /\ \A m \in 1..top : SubSeq(s, 1, top)[m] = s[m]
  BY <1>1, <1>3
<1>. QED
  <2>1. top = IF k <= Len(s) THEN k ELSE Len(s)
    BY <1>2 DEF top
  <2>2. \A m \in 1..top : m \in 1..Len(s)
    BY <1>1, <1>3
  <2>. QED
    BY <1>4, <1>5, <2>1, <2>2

\* A ranking permutes the elements.
LEMMA RankByIs ==
    ASSUME NEW T, NEW s \in Seq(T), NEW keys, \A m \in 1..Len(s) : keys[m] \in Int
    PROVE  /\ RankBy(s, keys) \in Seq(T)
           /\ Len(RankBy(s, keys)) = Len(s)
           /\ \A m \in 1..Len(s) : \E p \in 1..Len(s) : RankBy(s, keys)[m] = s[p]
<1> DEFINE D == DOMAIN s
           Ahead(i) == {j \in D : keys[j] < keys[i] \/ (keys[j] = keys[i] /\ j < i)}
           ahead == [i \in D |-> Ahead(i)]
           order == Ordered(D, ahead)
<1>1. D = 1..Len(s) /\ Len(s) \in Nat
  OBVIOUS
<1>2. RankBy(s, keys) = [i \in D |-> s[order[i]]]
  BY DEF RankBy
<1> HIDE DEF D
<1>3. IsFiniteSet(D) /\ Cardinality(D) = Len(s)
  <2>1. IsFiniteSet(1..Len(s)) /\ Cardinality(1..Len(s)) = Len(s)
    BY <1>1, IntervalIs
  <2>. QED
    BY <1>1, <2>1
<1>4. IsOrder(D, ahead)
  <2>1. ahead \in [D -> SUBSET D]
    OBVIOUS
  <2>2. \A i \in D : i \in Int /\ keys[i] \in Int
    BY <1>1
  <2>3. \A i, j \in D : j \in ahead[i] <=> (keys[j] < keys[i] \/ (keys[j] = keys[i] /\ j < i))
    OBVIOUS
  <2> HIDE DEF ahead
  <2>4. \A e \in D : e \notin ahead[e]
    BY <2>2, <2>3
  <2>5. \A d, e \in D : d # e => d \in ahead[e] \/ e \in ahead[d]
    BY <2>2, <2>3
  <2>6. ASSUME NEW d \in D, NEW e \in D, d \in ahead[e], NEW c \in ahead[d] PROVE c \in ahead[e]
    <3>1. c \in D
      BY <2>1
    <3>. QED
      BY <2>2, <2>3, <2>6, <3>1
  <2>. QED
    BY <1>3, <2>1, <2>4, <2>5, <2>6 DEF IsOrder
<1> HIDE DEF ahead
<1>5. order \in [1..Len(s) -> 1..Len(s)]
  BY <1>1, <1>3, <1>4, OrderedIs
<1> HIDE DEF order
<1>6. RankBy(s, keys) = [m \in 1..Len(s) |-> s[order[m]]]
  BY <1>1, <1>2
<1>7. [m \in 1..Len(s) |-> s[order[m]]] \in [1..Len(s) -> T]
  BY <1>5
<1>8. RankBy(s, keys) \in Seq(T) /\ Len(RankBy(s, keys)) = Len(s)
  BY <1>1, <1>6, <1>7, FunctionIsSeq
<1>9. \A m \in 1..Len(s) : RankBy(s, keys)[m] = s[order[m]] /\ order[m] \in 1..Len(s)
  BY <1>5, <1>6
<1>. QED
  BY <1>8, <1>9

\* Skip edges lead from pages to other pages.
GoodSkip(skip, pages) ==
    \A p \in DOMAIN skip : /\ p \in IdsOf(pages)
                           /\ skip[p] \in Seq(Nat)
                           /\ \A m \in 1..Len(skip[p]) : skip[p][m] \in IdsOf(pages) \ {p}

\* The skip edges that are built lead from leaves to other leaves.
LEMMA SkipEdgesAre ==
    ASSUME NEW pages, NEW rows, GoodPages(pages, rows), NEW val, Valued(val, rows)
    PROVE  GoodSkip(BuildSkipEdges(pages, val), pages)
<1> DEFINE leaves == LeavesOf(pages)
           Others(id) == Chosen(leaves, {i \in DOMAIN leaves : leaves[i].id # id})
           Place(id) == Centroid(CHOOSE p \in ToSet(leaves) : p.id = id, val)
           Ids(others) == [i \in DOMAIN others |-> others[i].id]
           Far(id, others) == [i \in DOMAIN others |-> L2(Place(id), Centroid(others[i], val))]
           Near(id) == Take(RankBy(Ids(Others(id)), Far(id, Others(id))), SkipNeighbors)
           skip == BuildSkipEdges(pages, val)
<1>1. skip = [id \in {leaves[i].id : i \in DOMAIN leaves} |-> Near(id)]
  BY DEF BuildSkipEdges
<1>2. pages \in Seq(PageType)
  BY DEF GoodPages
<1>3. leaves \in Seq(PageType) /\ \A i \in 1..Len(leaves) : \E a \in 1..Len(pages) : leaves[i] = pages[a]
  <2> DEFINE places == {i \in DOMAIN pages : IsLeaf(pages[i])}
  <2>1. places \in SUBSET (1..Len(pages))
    BY <1>2
  <2>2. leaves = Chosen(pages, places)
    BY DEF LeavesOf
  <2> HIDE DEF places, leaves
  <2>3. leaves \in Seq(PageType) /\ \A i \in 1..Len(leaves) : \E p \in places : leaves[i] = pages[p]
    BY <1>2, <2>1, <2>2, ChosenPlaces
  <2>. QED
    BY <2>1, <2>3
<1> HIDE DEF leaves
<1>4. DOMAIN leaves = 1..Len(leaves) /\ Len(leaves) \in Nat
  BY <1>3
<1>5. ASSUME NEW id \in {leaves[i].id : i \in DOMAIN leaves} PROVE Place(id) \in Int
  <2> DEFINE p == CHOOSE p \in ToSet(leaves) : p.id = id
  <2>1. PICK i \in 1..Len(leaves) : leaves[i].id = id
    BY <1>4, <1>5
  <2>2. leaves[i] \in ToSet(leaves)
    BY <1>3, Members
  <2>3. p \in ToSet(leaves)
    BY <2>1, <2>2
  <2> HIDE DEF p
  <2>4. PICK j \in 1..Len(leaves) : p = leaves[j]
    BY <1>3, <2>3, Members
  <2>5. PICK a \in 1..Len(pages) : p = pages[a]
    BY <1>3, <2>4
  <2>6. Centroid(p, val) \in Int
    BY <2>5, CentroidIs
  <2>. QED
    BY <2>6 DEF p
<1> HIDE DEF Place
<1>6. ASSUME NEW id \in {leaves[i].id : i \in DOMAIN leaves}
      PROVE  Near(id) \in Seq(Nat) /\ \A m \in 1..Len(Near(id)) : Near(id)[m] \in IdsOf(pages) \ {id}
  <2> DEFINE others == Others(id)
             places == {i \in DOMAIN leaves : leaves[i].id # id}
  <2>1. places \in SUBSET (1..Len(leaves))
    BY <1>4
  <2>2. others = Chosen(leaves, places)
    OBVIOUS
  <2> HIDE DEF others
  <2>3. others \in Seq(PageType) /\ \A i \in 1..Len(others) : \E p \in places : others[i] = leaves[p]
    BY <1>3, <2>1, <2>2, ChosenPlaces
  <2>4. ASSUME NEW i \in 1..Len(others)
        PROVE  others[i].id # id /\ \E a \in 1..Len(pages) : others[i] = pages[a]
    <3>1. PICK p \in places : others[i] = leaves[p]
      BY <2>3
    <3>. QED
      BY <1>3, <2>1, <3>1
  <2>5. DOMAIN others = 1..Len(others) /\ Len(others) \in Nat
    BY <2>3
  <2>6. \A i \in 1..Len(others) : /\ others[i].id \in IdsOf(pages) \ {id}
                                  /\ others[i].id \in Nat
    <3> TAKE i \in 1..Len(others)
    <3>1. others[i] \in PageType
      BY <2>3
    <3>. QED
      BY <2>4, <3>1 DEF IdsOf, PageType
  <2>7. \A i \in 1..Len(others) : L2(Place(id), Centroid(others[i], val)) \in Int
    <3> TAKE i \in 1..Len(others)
    <3>1. PICK a \in 1..Len(pages) : others[i] = pages[a]
      BY <2>4
    <3>2. Centroid(others[i], val) \in Int
      BY <3>1, CentroidIs
    <3>3. Place(id) \in Int
      BY <1>5
    <3>4. L2(Place(id), Centroid(others[i], val)) \in Nat
      BY <3>2, <3>3, L2Is
    <3>. QED
      BY <3>4
  <2> DEFINE ids == Ids(others)
             far == Far(id, others)
             ranked == RankBy(ids, far)
  <2>8. ids = [i \in 1..Len(others) |-> others[i].id]
    BY <2>5
  <2>9. ids \in Seq(Nat) /\ Len(ids) = Len(others)
    <3>1. [i \in 1..Len(others) |-> others[i].id] \in [1..Len(others) -> Nat]
      BY <2>6
    <3>. QED
      BY <2>5, <2>8, <3>1, FunctionIsSeq
  <2>10. \A i \in 1..Len(ids) : far[i] \in Int
    BY <2>5, <2>7, <2>9
  <2>11. Near(id) = Take(ranked, SkipNeighbors)
    BY DEF others
  <2> HIDE DEF ids, far
  <2>12. ranked = RankBy(ids, far)
    OBVIOUS
  <2> HIDE DEF ranked
  <2>13. /\ ranked \in Seq(Nat) /\ Len(ranked) = Len(ids)
         /\ \A m \in 1..Len(ids) : \E p \in 1..Len(ids) : ranked[m] = ids[p]
    <3>1. ids \in Seq(Nat) /\ \A i \in 1..Len(ids) : far[i] \in Int
      BY <2>9, <2>10
    <3>2. /\ RankBy(ids, far) \in Seq(Nat) /\ Len(RankBy(ids, far)) = Len(ids)
          /\ \A m \in 1..Len(ids) : \E p \in 1..Len(ids) : RankBy(ids, far)[m] = ids[p]
      BY <3>1, RankByIs
    <3>. QED
      BY <2>12, <3>2
  <2>14. SkipNeighbors \in Nat
    BY PageTreeAssumption
  <2> HIDE DEF Near
  <2>15. /\ Near(id) \in Seq(Nat)
         /\ \A m \in 1..Len(Near(id)) : m \in 1..Len(ranked) /\ Near(id)[m] = ranked[m]
    <3>1. ranked \in Seq(Nat)
      BY <2>13
    <3>2. /\ Take(ranked, SkipNeighbors) \in Seq(Nat)
          /\ \A m \in 1..Len(Take(ranked, SkipNeighbors)) :
                m \in 1..Len(ranked) /\ Take(ranked, SkipNeighbors)[m] = ranked[m]
      BY <2>14, <3>1, TakeIs
    <3>. QED
      BY <2>11, <3>2
  <2>16. \A p \in 1..Len(ids) : ids[p] \in IdsOf(pages) \ {id}
    BY <2>6, <2>8, <2>9
  <2>. QED
    BY <2>13, <2>15, <2>16
<1> HIDE DEF Near
<1>7. \A id \in DOMAIN skip : id \in IdsOf(pages)
  <2> TAKE id \in DOMAIN skip
  <2>1. PICK i \in 1..Len(leaves) : id = leaves[i].id
    BY <1>1, <1>4
  <2>. QED
    BY <1>3, <2>1 DEF IdsOf
<1>8. \A id \in DOMAIN skip : skip[id] = Near(id) /\ id \in {leaves[i].id : i \in DOMAIN leaves}
  BY <1>1
<1> HIDE DEF skip
<1>9. GoodSkip(skip, pages)
  BY <1>6, <1>7, <1>8 DEF GoodSkip
<1>. QED
  BY <1>9 DEF skip

\* An index of the rows from..to-1.
Indexes(f, from, to) ==
    /\ f.rows = to - from
    /\ GoodPages(f.pages, from..(to - 1))
    /\ f.root \in IdsOf(f.pages)
    /\ GoodSkip(f.skip, f.pages)

\* The ids of a span.
Span(from, to) == [i \in 1..(to - from) |-> from + i - 1]

\* They are the rows of the span, each once.
LEMMA SpanIs ==
    ASSUME NEW from \in Nat, NEW to \in Nat, from < to
    PROVE  /\ Span(from, to) \in Seq(Nat) /\ Span(from, to) # <<>>
           /\ IsInjective(Span(from, to))
           /\ ToSet(Span(from, to)) = from..(to - 1)
           /\ Len(Span(from, to)) = to - from
<1> DEFINE ids == Span(from, to)
           n == to - from
<1>1. n \in Nat /\ n # 0
  OBVIOUS
<1>2. ids = [i \in 1..n |-> from + i - 1]
  BY DEF Span
<1>3. \A i \in 1..n : from + i - 1 \in Nat
  OBVIOUS
<1>4. ids \in Seq(Nat) /\ Len(ids) = n
  <2>1. ids \in [1..n -> Nat]
    BY <1>2, <1>3
  <2>. QED
    BY <1>1, <2>1, FunctionIsSeq
<1>5. \A i \in 1..n : ids[i] = from + i - 1
  BY <1>2
<1>6. DOMAIN ids = 1..n
  BY <1>2
<1> HIDE DEF ids
<1>7. IsInjective(ids)
  BY <1>5, <1>6 DEF IsInjective
<1>8. ids # <<>>
  BY <1>1, <1>4
<1>9. ToSet(ids) = from..(to - 1)
  <2>1. \A m \in 1..Len(ids) : ids[m] \in from..(to - 1)
    BY <1>4, <1>5
  <2>2. ASSUME NEW r \in from..(to - 1) PROVE r \in ToSet(ids)
    <3>1. r - from + 1 \in 1..Len(ids) /\ ids[r - from + 1] = r
      BY <1>4, <1>5
    <3>. QED
      BY <1>4, <3>1, Members
  <2>3. \A e \in ToSet(ids) : e \in from..(to - 1)
    BY <1>4, <2>1, Members
  <2>. QED
    BY <2>2, <2>3
<1>. QED
  BY <1>4, <1>7, <1>8, <1>9 DEF ids

\* No skip edges are skip edges.
LEMMA NoSkipIs ==
    ASSUME NEW pages
    PROVE  GoodSkip(NoSkip, pages)
BY DEF GoodSkip, NoSkip

\* A span indexed as one leaf, placed by some of its rows.
LEMMA LeafIndexes ==
    ASSUME NEW from \in Nat, NEW to \in Nat, from < to,
           NEW of \in SUBSET (from..(to - 1)), of # {}
    PROVE  Indexes(BuildRowIdsLeaf(Span(from, to), of), from, to)
<1> DEFINE ids == Span(from, to)
           pages == <<Leaf(0, ids, of)>>
           f == BuildRowIdsLeaf(ids, of)
<1>1. f = [rows |-> Len(ids), root |-> 0, pages |-> pages, skip |-> NoSkip]
  BY DEF BuildRowIdsLeaf, Index
<1>2. /\ ids \in Seq(Nat) /\ ids # <<>> /\ IsInjective(ids)
      /\ ToSet(ids) = from..(to - 1) /\ Len(ids) = to - from
  BY SpanIs
<1> HIDE DEF ids
<1>3. GoodTree(pages, from..(to - 1))
  BY <1>2, LeafIsTree
<1> HIDE DEF pages
<1>4. 1 \in 1..Len(pages) /\ pages[1].id = 0
  BY <1>3 DEF GoodTree, GoodPages
<1>5. 0 \in IdsOf(pages)
  BY <1>4 DEF IdsOf
<1>. QED
  BY <1>1, <1>2, <1>3, <1>5, NoSkipIs DEF Indexes, GoodTree, ids

\* Every index built from the rows of a span is an index of them.
LEMMA FromRowsIndexes ==
    ASSUME NEW from \in Nat, NEW to \in Nat, from < to, NEW val, Valued(val, from..(to - 1)),
           NEW f \in BuildFromRows(Span(from, to), val)
    PROVE  Indexes(f, from, to)
<1> DEFINE ids == Span(from, to)
<1>1. /\ ids \in Seq(Nat) /\ ids # <<>> /\ IsInjective(ids)
      /\ ToSet(ids) = from..(to - 1) /\ Len(ids) = to - from
  BY SpanIs
<1>2. f \in BuildFromRows(ids, val)
  OBVIOUS
<1>3. CASE Len(ids) <= LeafCapacity
  <2>1. f = BuildRowIdsLeaf(ids, ToSet(ids))
    BY <1>2, <1>3 DEF BuildFromRows
  <2>2. ToSet(ids) \in SUBSET (from..(to - 1)) /\ ToSet(ids) # {}
    BY <1>1, ToSetIs
  <2> DEFINE of == ToSet(ids)
  <2>3. Indexes(BuildRowIdsLeaf(Span(from, to), of), from, to)
    <3> HIDE DEF of
    <3>1. of \in SUBSET (from..(to - 1)) /\ of # {}
      BY <2>2 DEF of
    <3>. QED
      BY <3>1, LeafIndexes
  <2>. QED
    BY <2>1, <2>3
<1>4. CASE ~(Len(ids) <= LeafCapacity)
  <2> HIDE DEF ids
  <2>1. PICK pages \in Trees(ids, val) :
           f = Index(Len(ids), PartitionRoot(pages), pages,
                     IF NeedsSkipEdges(Len(ids)) THEN BuildSkipEdges(pages, val) ELSE NoSkip)
    BY <1>2, <1>4 DEF BuildFromRows
  <2> DEFINE skip == IF NeedsSkipEdges(Len(ids)) THEN BuildSkipEdges(pages, val) ELSE NoSkip
  <2>2. f = [rows |-> Len(ids), root |-> PartitionRoot(pages), pages |-> pages, skip |-> skip]
    BY <2>1 DEF Index
  <2>3. Valued(val, ToSet(ids))
    BY <1>1
  <2>4. GoodTree(pages, ToSet(ids))
    BY <1>1, <2>3, TreesIs
  <2>5. GoodPages(pages, from..(to - 1))
    BY <1>1, <2>4 DEF GoodTree
  <2>6. Len(pages) \in 1..Len(pages)
    BY <2>5 DEF GoodPages
  <2>7. PartitionRoot(pages) \in IdsOf(pages)
    BY <2>6 DEF PartitionRoot, IdsOf
  <2>8. GoodSkip(skip, pages)
    BY <2>5, SkipEdgesAre, NoSkipIs
  <2> HIDE DEF skip
  <2>9. f.rows = Len(ids) /\ f.root = PartitionRoot(pages) /\ f.pages = pages /\ f.skip = skip
    BY <2>2
  <2>. QED
    BY <1>1, <2>5, <2>7, <2>8, <2>9 DEF Indexes
<1>. QED
  BY <1>3, <1>4

\* Multiples of L are L apart.
LEMMA Products ==
    ASSUME NEW L \in Nat, NEW a \in Nat, NEW b \in Nat, a < b
    PROVE  a * L \in Nat /\ b * L \in Nat /\ a * L + L <= b * L
<1> DEFINE d == b - a - 1
<1>1. d \in Nat /\ b = a + 1 + d
  OBVIOUS
<1> HIDE DEF d
<1>2. b * L = a * L + L + d * L
  <2>1. (a + 1 + d) * L = a * L + L + d * L
    BY <1>1
  <2>. QED
    BY <1>1, <2>1
<1>3. \A p, q \in Nat : p * q \in Nat
  OBVIOUS
<1>4. a * L \in Nat /\ d * L \in Nat /\ b * L \in Nat
  BY <1>1, <1>3
<1> DEFINE al == a * L
           bl == b * L
           dl == d * L
<1>5. al \in Nat /\ bl \in Nat /\ dl \in Nat /\ bl = al + L + dl
  BY <1>2, <1>4
<1> HIDE DEF al, bl, dl
<1>6. al + L <= bl
  BY <1>5
<1>. QED
  BY <1>4, <1>6 DEF al, bl

\* Division by L, with what is left over.
LEMMA Quotient ==
    ASSUME NEW L \in Nat \ {0}, NEW r \in Nat
    PROVE  r \div L \in Nat /\ (r \div L) * L <= r /\ r < (r \div L) * L + L
<1>1. r \div L \in Int
  OBVIOUS
<1>2. r = L * (r \div L) + (r % L) /\ r % L \in 0..(L - 1)
  OBVIOUS
<1> DEFINE q == r \div L
           m == r % L
<1>3. q \in Int /\ m \in 0..(L - 1) /\ r = L * q + m
  BY <1>1, <1>2
<1> HIDE DEF q, m
<1>4. L * q = q * L /\ q * L \in Int
  BY <1>3
<1>5. q * L <= r /\ r < q * L + L
  <2> DEFINE ql == q * L
  <2>1. ql \in Int /\ r = ql + m
    BY <1>3, <1>4
  <2> HIDE DEF ql
  <2>2. ql <= r /\ r < ql + L
    BY <1>3, <2>1
  <2>. QED
    BY <2>2 DEF ql
<1>6. q \in Nat
  <2>1. ASSUME q < 0 PROVE FALSE
    <3>1. -q \in Nat /\ 0 < -q
      BY <1>3, <2>1
    <3>2. 0 * L + L <= (-q) * L
      BY <3>1, Products
    <3>3. (-q) * L = -(q * L) /\ 0 * L = 0
      BY <1>3
    <3>. QED
      BY <1>4, <1>5, <3>2, <3>3
  <2>. QED
    BY <1>3, <2>1
<1>. QED
  BY <1>5, <1>6 DEF q

\* n things in bunches of L: each bunch starts at one of them, the bunches
\* follow each other and together have them all.
LEMMA Bunches ==
    ASSUME NEW L \in Nat \ {0}, NEW n \in Nat \ {0}, NEW count, count = (n + L - 1) \div L
    PROVE  /\ count \in Nat \ {0}
           /\ \A i \in 1..count : (i - 1) * L \in 0..(n - 1)
           /\ \A i, j \in 1..count : i < j => (i - 1) * L + L <= (j - 1) * L
           /\ \A d \in 0..(n - 1) :
                 \E i \in 1..count : (i - 1) * L <= d /\ d < (i - 1) * L + L
<1>1. n + L - 1 \in Nat
  OBVIOUS
<1>2. count \in Nat /\ count * L <= n + L - 1 /\ n + L - 1 < count * L + L
  BY <1>1, Quotient
<1>3. \A i \in Nat : i * L \in Nat
  OBVIOUS
<1>4. \A i, j \in Nat : i < j => i * L + L <= j * L
  BY Products
<1>5. count # 0
  <2>1. 0 * L = 0
    OBVIOUS
  <2>. QED
    BY <1>2, <2>1
<1>6. ASSUME NEW i \in 1..count PROVE (i - 1) * L \in 0..(n - 1)
  <2>1. i - 1 \in Nat /\ i - 1 < count
    BY <1>2
  <2>2. (i - 1) * L \in Nat /\ (i - 1) * L + L <= count * L
    BY <1>2, <1>3, <1>4, <2>1
  <2> DEFINE il == (i - 1) * L
             cl == count * L
  <2>3. il \in Nat /\ cl \in Nat /\ il + L <= cl /\ cl <= n + L - 1
    BY <1>2, <1>3, <2>2
  <2> HIDE DEF il, cl
  <2>4. il \in 0..(n - 1)
    BY <2>3
  <2>. QED
    BY <2>4 DEF il
<1>7. ASSUME NEW i \in 1..count, NEW j \in 1..count, i < j PROVE (i - 1) * L + L <= (j - 1) * L
  <2>1. i - 1 \in Nat /\ j - 1 \in Nat /\ i - 1 < j - 1
    BY <1>2, <1>7
  <2>. QED
    BY <1>4, <2>1
<1>8. ASSUME NEW d \in 0..(n - 1)
      PROVE  \E i \in 1..count : (i - 1) * L <= d /\ d < (i - 1) * L + L
  <2> DEFINE q == d \div L
  <2>1. d \in Nat
    OBVIOUS
  <2>2. q \in Nat /\ q * L <= d /\ d < q * L + L
    BY <2>1, Quotient
  <2> HIDE DEF q
  <2>3. q < count
    <3> SUFFICES ASSUME count <= q PROVE FALSE
      BY <1>2, <2>2
    <3>1. count * L <= q * L
      <4>1. CASE count = q
        BY <1>2, <1>3, <4>1
      <4>2. CASE count # q
        <5>1. count * L + L <= q * L
          BY <1>2, <1>4, <2>2, <4>2
        <5>. QED
          BY <1>2, <1>3, <2>2, <5>1
      <4>. QED
        BY <4>1, <4>2
    <3> DEFINE ql == q * L
               cl == count * L
    <3>2. ql \in Nat /\ cl \in Nat /\ cl <= ql /\ ql <= d /\ n + L - 1 < cl + L
      BY <1>2, <1>3, <2>2, <3>1
    <3> HIDE DEF ql, cl
    <3>. QED
      BY <3>2
  <2>4. q + 1 \in 1..count /\ (q + 1) - 1 = q
    BY <1>2, <2>2, <2>3
  <2>5. ((q + 1) - 1) * L <= d /\ d < ((q + 1) - 1) * L + L
    BY <2>2, <2>4
  <2>. QED
    BY <2>4, <2>5
<1>. QED
  BY <1>2, <1>5, <1>6, <1>7, <1>8

\* A span indexed as a root over leaves cut every L rows (sync_forest.rs:28-76).
LEMMA ForestIndexes ==
    ASSUME NEW start \in Nat, NEW end \in Nat, start < end, NEW L \in Nat \ {0},
           NEW vectors \in BOOLEAN, NEW val, Valued(val, start..(end - 1))
    PROVE  Indexes(BuildForest(start, end, L, vectors, val), start, end)
<1> DEFINE rows == start..(end - 1)
           count == (end - start + L - 1) \div L
           First(i) == start + (i - 1) * L
           Stop(i) == Min({First(i) + L, end})
           Ids(i) == [j \in 1..(Min({First(i) + L, end}) - First(i)) |-> First(i) + j - 1]
           Of(i) == IF vectors THEN ToSet(Ids(i)) ELSE {First(i)}
           leaves == [i \in 1..count |-> Leaf(i, Ids(i), IF vectors THEN ToSet(Ids(i)) ELSE {First(i)})]
           root == Internal(0, [i \in 1..count |-> i], [i \in 1..count |-> Centroid(leaves[i], val)])
           f == BuildForest(start, end, L, vectors, val)
<1>1. f = [rows |-> end - start, root |-> 0, pages |-> Append(leaves, root), skip |-> NoSkip]
  BY DEF BuildForest, Index
<1>2. /\ count \in Nat \ {0}
      /\ \A i \in 1..count : (i - 1) * L \in 0..((end - start) - 1)
      /\ \A i, j \in 1..count : i < j => (i - 1) * L + L <= (j - 1) * L
      /\ \A d \in 0..((end - start) - 1) :
            \E i \in 1..count : (i - 1) * L <= d /\ d < (i - 1) * L + L
  <2> DEFINE n == end - start
  <2>1. n \in Nat \ {0} /\ count = (n + L - 1) \div L
    OBVIOUS
  <2> HIDE DEF n, count
  <2>2. /\ count \in Nat \ {0}
        /\ \A i \in 1..count : (i - 1) * L \in 0..(n - 1)
        /\ \A i, j \in 1..count : i < j => (i - 1) * L + L <= (j - 1) * L
        /\ \A d \in 0..(n - 1) :
              \E i \in 1..count : (i - 1) * L <= d /\ d < (i - 1) * L + L
    BY <2>1, Bunches
  <2>. QED
    BY <2>2 DEF n
<1> HIDE DEF count
<1>3. /\ \A i \in 1..count : First(i) \in rows
      /\ \A i, j \in 1..count : i < j => First(i) + L <= First(j)
      /\ \A r \in rows : \E i \in 1..count : First(i) <= r /\ r < First(i) + L
  <2>1. ASSUME NEW i \in 1..count PROVE First(i) \in rows
    <3> DEFINE il == (i - 1) * L
    <3>1. il \in 0..((end - start) - 1) /\ First(i) = start + il
      BY <1>2
    <3> HIDE DEF il, First
    <3>. QED
      BY <3>1
  <2>2. ASSUME NEW i \in 1..count, NEW j \in 1..count, i < j PROVE First(i) + L <= First(j)
    <3> DEFINE il == (i - 1) * L
               jl == (j - 1) * L
    <3>1. /\ il \in 0..((end - start) - 1) /\ First(i) = start + il
          /\ jl \in 0..((end - start) - 1) /\ First(j) = start + jl
          /\ il + L <= jl
      BY <1>2, <2>2
    <3> HIDE DEF il, jl, First
    <3>. QED
      BY <3>1
  <2>3. ASSUME NEW r \in rows PROVE \E i \in 1..count : First(i) <= r /\ r < First(i) + L
    <3>1. r - start \in 0..((end - start) - 1)
      OBVIOUS
    <3>2. PICK i \in 1..count : (i - 1) * L <= r - start /\ r - start < (i - 1) * L + L
      BY <1>2, <3>1
    <3> DEFINE il == (i - 1) * L
    <3>3. il \in 0..((end - start) - 1) /\ First(i) = start + il /\ il <= r - start /\ r - start < il + L
      BY <1>2, <3>2
    <3> HIDE DEF il, First
    <3>4. First(i) <= r /\ r < First(i) + L
      BY <3>3
    <3>. QED
      BY <3>4
  <2>. QED
    BY <2>1, <2>2, <2>3
<1> HIDE DEF First
<1>4. ASSUME NEW i \in 1..count
      PROVE  /\ First(i) \in Nat /\ Stop(i) \in Nat /\ First(i) < Stop(i) /\ Stop(i) <= end
             /\ Stop(i) <= First(i) + L
             /\ (Stop(i) = end \/ Stop(i) = First(i) + L)
  <2>1. First(i) \in Nat /\ First(i) < end
    BY <1>3
  <2>2. Stop(i) = IF First(i) + L <= end THEN First(i) + L ELSE end
    BY <2>1, MinOfTwo
  <2>. QED
    BY <2>1, <2>2
<1>5. \A i \in 1..count : Ids(i) = Span(First(i), Stop(i))
  BY DEF Span
<1> HIDE DEF Ids, Stop
<1>6. ASSUME NEW i \in 1..count
      PROVE  /\ Ids(i) \in Seq(Nat) /\ Ids(i) # <<>> /\ IsInjective(Ids(i))
             /\ \A r : r \in ToSet(Ids(i)) <=> r \in First(i)..(Stop(i) - 1)
             /\ First(i) \in ToSet(Ids(i)) /\ ToSet(Ids(i)) \subseteq rows
  <2>1. /\ Ids(i) \in Seq(Nat) /\ Ids(i) # <<>> /\ IsInjective(Ids(i))
        /\ ToSet(Ids(i)) = First(i)..(Stop(i) - 1)
    <3> DEFINE a == First(i)
               b == Stop(i)
    <3>1. a \in Nat /\ b \in Nat /\ a < b /\ Ids(i) = Span(a, b)
      BY <1>4, <1>5
    <3> HIDE DEF a, b
    <3>2. /\ Ids(i) \in Seq(Nat) /\ Ids(i) # <<>> /\ IsInjective(Ids(i))
          /\ ToSet(Ids(i)) = a..(b - 1)
      BY <3>1, SpanIs
    <3>. QED
      BY <3>2 DEF a, b
  <2>2. First(i) \in First(i)..(Stop(i) - 1) /\ First(i)..(Stop(i) - 1) \subseteq rows
    <3> DEFINE a == First(i)
               b == Stop(i)
    <3>1. a \in Nat /\ b \in Nat /\ a < b /\ b <= end /\ start <= a
      BY <1>3, <1>4
    <3> HIDE DEF a, b
    <3>2. a \in a..(b - 1) /\ \A r \in a..(b - 1) : r \in start..(end - 1)
      BY <3>1
    <3>. QED
      BY <3>2 DEF a, b
  <2>. QED
    BY <2>1, <2>2
<1>7. ASSUME NEW i \in 1..count
      PROVE  /\ leaves[i] = [id |-> i, ids |-> Ids(i), of |-> Of(i), kids |-> <<>>, centroids |-> <<>>]
             /\ leaves[i] \in PageType
             /\ Of(i) # {} /\ Of(i) \subseteq ToSet(Ids(i))
  <2>1. leaves[i] = [id |-> i, ids |-> Ids(i), of |-> Of(i), kids |-> <<>>, centroids |-> <<>>]
    BY DEF Leaf
  <2>2. Of(i) # {} /\ Of(i) \subseteq ToSet(Ids(i))
    BY <1>6
  <2> HIDE DEF Of, leaves
  <2>3. Of(i) \in SUBSET Nat
    BY <1>6, <2>2
  <2>4. <<>> \in Seq(Nat) /\ <<>> \in Seq(Int) /\ i \in Nat /\ Ids(i) \in Seq(Nat)
    BY <1>6
  <2>5. leaves[i] \in PageType
    BY <2>1, <2>3, <2>4 DEF PageType
  <2>. QED
    BY <2>1, <2>2, <2>5
<1>8. leaves \in Seq(PageType) /\ Len(leaves) = count
  <2>1. leaves = [i \in 1..count |-> leaves[i]]
    OBVIOUS
  <2> HIDE DEF leaves
  <2>2. leaves \in [1..count -> PageType]
    BY <1>7, <2>1
  <2>. QED
    BY <1>2, <2>2, FunctionIsSeq
<1> HIDE DEF leaves, Of
<1>9. \A i \in 1..Len(leaves) : /\ leaves[i].id = i /\ leaves[i].ids = Ids(i) /\ leaves[i].of = Of(i)
                                /\ leaves[i].kids = <<>> /\ leaves[i].centroids = <<>>
  BY <1>7, <1>8
<1>10. GoodPages(leaves, rows)
  <2>1. ASSUME NEW a \in 1..Len(leaves) PROVE GoodPage(leaves[a], IdsOf(leaves))
    <3>1. Len(leaves[a].kids) = 0 /\ 1..0 = {}
      BY <1>9
    <3>. QED
      BY <1>7, <1>8, <1>9, <3>1 DEF GoodPage, IsLeaf
  <2>2. ListedOnce(leaves)
    <3> SUFFICES ASSUME NEW a \in 1..Len(leaves), NEW b \in 1..Len(leaves),
                        NEW m \in 1..Len(leaves[a].ids), NEW n \in 1..Len(leaves[b].ids),
                        leaves[a].ids[m] = leaves[b].ids[n]
                 PROVE  a = b /\ m = n
      BY DEF ListedOnce
    <3> DEFINE r == leaves[a].ids[m]
    <3>1. a \in 1..count /\ b \in 1..count /\ m \in 1..Len(Ids(a)) /\ n \in 1..Len(Ids(b))
          /\ r = Ids(a)[m] /\ r = Ids(b)[n]
      BY <1>8, <1>9
    <3>2. Ids(a) \in Seq(Nat) /\ Ids(b) \in Seq(Nat)
      BY <1>6, <3>1
    <3>3. r \in ToSet(Ids(a)) /\ r \in ToSet(Ids(b))
      BY <3>1, <3>2, Members
    <3>4. r \in First(a)..(Stop(a) - 1) /\ r \in First(b)..(Stop(b) - 1)
      BY <1>6, <3>1, <3>3
    <3> HIDE DEF r
    <3>5. a = b
      <4> DEFINE fa == First(a)
                 fb == First(b)
                 sa == Stop(a)
                 sb == Stop(b)
      <4>1. /\ fa \in Nat /\ fb \in Nat /\ sa \in Nat /\ sb \in Nat
            /\ sa <= fa + L /\ sb <= fb + L
            /\ r \in fa..(sa - 1) /\ r \in fb..(sb - 1)
        BY <1>4, <3>1, <3>4
      <4>2. First(a) + L <= First(b) => FALSE
        <5> SUFFICES fa + L <= fb => FALSE
          OBVIOUS
        <5> HIDE DEF fa, fb, sa, sb
        <5>. QED
          BY <4>1
      <4>3. First(b) + L <= First(a) => FALSE
        <5> SUFFICES fb + L <= fa => FALSE
          OBVIOUS
        <5> HIDE DEF fa, fb, sa, sb
        <5>. QED
          BY <4>1
      <4>4. a < b \/ b < a \/ a = b
        BY <1>2, <3>1
      <4>. QED
        BY <1>3, <3>1, <4>2, <4>3, <4>4
    <3>6. m = n
      <4>1. IsInjective(Ids(a)) /\ DOMAIN Ids(a) = 1..Len(Ids(a))
        BY <1>6, <3>1, <3>2
      <4>2. m \in DOMAIN Ids(a) /\ n \in DOMAIN Ids(a) /\ Ids(a)[m] = Ids(a)[n]
        BY <3>1, <3>5, <4>1
      <4>. QED
        BY <4>1, <4>2 DEF IsInjective
    <3>. QED
      BY <3>5, <3>6
  <2>3. RowsOf(leaves) = rows
    <3>1. \A a \in 1..Len(leaves) : ToSet(leaves[a].ids) \subseteq rows
      BY <1>6, <1>8, <1>9
    <3>2. ASSUME NEW r \in rows PROVE \E a \in 1..Len(leaves) : r \in ToSet(leaves[a].ids)
      <4>1. PICK i \in 1..count : First(i) <= r /\ r < First(i) + L
        BY <1>3
      <4>2. r \in First(i)..(Stop(i) - 1)
        BY <1>4, <4>1
      <4>3. r \in ToSet(Ids(i))
        BY <1>6, <4>2
      <4>. QED
        BY <1>8, <1>9, <4>3
    <3> HIDE DEF rows
    <3>. QED
      BY <3>1, <3>2 DEF RowsOf
  <2>4. leaves # <<>>
    BY <1>2, <1>8
  <2>5. \A a, b \in 1..Len(leaves) : leaves[a].id = leaves[b].id => a = b
    BY <1>9
  <2>. QED
    BY <1>8, <2>1, <2>2, <2>3, <2>4, <2>5 DEF GoodPages
<1>11. RootOver(root, leaves)
  <2> DEFINE ks == [i \in 1..count |-> i]
             cs == [i \in 1..count |-> Centroid(leaves[i], val)]
  <2>1. \A i \in 1..count : Centroid(leaves[i], val) \in Int
    BY <1>8, <1>10, CentroidIs
  <2>2. root = [id |-> 0, ids |-> <<>>, of |-> {}, kids |-> ks, centroids |-> cs]
    BY DEF Internal
  <2>3. ks \in [1..count -> Nat] /\ cs \in [1..count -> Int]
    BY <2>1
  <2>4. ks \in Seq(Nat) /\ Len(ks) = count /\ cs \in Seq(Int) /\ Len(cs) = count
    <3> HIDE DEF ks, cs
    <3>. QED
      BY <1>2, <2>3, FunctionIsSeq
  <2>5. \A m \in 1..count : ks[m] \in IdsOf(leaves)
    <3>1. \A m \in 1..count : ks[m] = m
      OBVIOUS
    <3>. QED
      BY <1>8, <1>9, <3>1 DEF IdsOf
  <2> HIDE DEF ks, cs, root
  <2>6. root \in PageType
    BY <2>2, <2>4 DEF PageType
  <2>7. ks # <<>>
    BY <1>2, <2>4
  <2>8. \A a \in 1..Len(leaves) : leaves[a].id # 0
    BY <1>9
  <2>. QED
    BY <2>2, <2>4, <2>5, <2>6, <2>7, <2>8 DEF RootOver
<1> HIDE DEF root, rows
<1>12. GoodPages(Append(leaves, root), rows) /\ IdsOf(Append(leaves, root)) = {0} \cup IdsOf(leaves)
  BY <1>10, <1>11, RootLast
<1>13. /\ f.rows = end - start /\ f.root = 0 /\ f.pages = Append(leaves, root) /\ f.skip = NoSkip
  BY <1>1
<1>. QED
  BY <1>12, <1>13, NoSkipIs DEF Indexes, rows

\* What a sync builds for the rows start..end-1 is an index of them.
LEMMA BuildSpanIs ==
    ASSUME NEW start \in Nat, NEW end \in Nat, start < end,
           NEW noted \in SUBSET (start..(end - 1)), NEW val, Valued(val, start..(end - 1)),
           NEW f \in BuildSpan(start, end, noted, val)
    PROVE  Indexes(f, start, end)
<1> DEFINE ids == Span(start, end)
           of == IF noted = {} THEN ToSet(ids) ELSE noted
<1>1. f \in IF end - start <= RowLimit THEN {BuildRowIdsLeaf(ids, of)}
            ELSE IF end - start <= 2 * RowLimit THEN BuildFromRows(ids, val)
            ELSE IF end - start <= MidMax THEN {BuildForest(start, end, MidLeaf, TRUE, val)}
            ELSE {BuildForest(start, end, RowLimit, FALSE, val)}
  BY DEF BuildSpan, Span
<1>2. RowLimit \in Nat \ {0} /\ MidLeaf \in Nat \ {0}
  BY IncrementalIndexAssumption
<1>3. ToSet(ids) = start..(end - 1)
  BY SpanIs
<1>4. start \in start..(end - 1)
  OBVIOUS
<1>5. of \in SUBSET (start..(end - 1)) /\ of # {}
  BY <1>3, <1>4
<1> HIDE DEF of
<1>6. \/ f = BuildRowIdsLeaf(ids, of)
      \/ f \in BuildFromRows(ids, val)
      \/ f = BuildForest(start, end, MidLeaf, TRUE, val)
      \/ f = BuildForest(start, end, RowLimit, FALSE, val)
  BY <1>1
<1>7. CASE f = BuildRowIdsLeaf(ids, of)
  BY <1>5, <1>7, LeafIndexes
<1>8. CASE f \in BuildFromRows(ids, val)
  BY <1>8, FromRowsIndexes
<1>9. CASE f = BuildForest(start, end, MidLeaf, TRUE, val)
  BY <1>2, <1>9, ForestIndexes
<1>10. CASE f = BuildForest(start, end, RowLimit, FALSE, val)
  BY <1>2, <1>10, ForestIndexes
<1>. QED
  BY <1>6, <1>7, <1>8, <1>9, <1>10

-----------------------------------------------------------------------------
(* Fragments that follow each other                                        *)

\* frags are n fragments, the i-th of the rows cut[i-1]..cut[i]-1.
Follow(n, frags, cut) ==
    /\ \E T : frags \in Seq(T)
    /\ Len(frags) = n
    /\ cut \in [0..n -> Nat]
    /\ \A i \in 1..n : cut[i - 1] < cut[i] /\ Indexes(frags[i], cut[i - 1], cut[i])

\* The cuts are in order, and every row is between two of them.
LEMMA CutsGrow ==
    ASSUME NEW n \in Nat, NEW cut \in [0..n -> Nat], \A i \in 1..n : cut[i - 1] < cut[i]
    PROVE  /\ \A i, j \in 0..n : i <= j => cut[i] <= cut[j]
           /\ \A r \in cut[0]..(cut[n] - 1) : \E i \in 1..n : r \in cut[i - 1]..(cut[i] - 1)
<1>1. ASSUME NEW i \in 0..n, NEW j \in 0..n, i <= j PROVE cut[i] <= cut[j]
  <2> DEFINE S == {k \in 0..(n - i) : cut[i] <= cut[i + k]}
  <2>1. 0 \in S
    OBVIOUS
  <2>2. \A k \in 0..((n - i) - 1) : k \in S => k + 1 \in S
    <3> SUFFICES ASSUME NEW k \in 0..((n - i) - 1), k \in S PROVE k + 1 \in S
      OBVIOUS
    <3>1. i + k + 1 \in 1..n /\ (i + k + 1) - 1 = i + k /\ i + k \in 0..n /\ i + (k + 1) = i + k + 1
          /\ k + 1 \in 0..(n - i)
      OBVIOUS
    <3>2. cut[i + k] < cut[i + k + 1]
      BY <3>1
    <3>3. cut[i] \in Nat /\ cut[i + k] \in Nat /\ cut[i + k + 1] \in Nat
      BY <3>1
    <3>. QED
      BY <3>1, <3>2, <3>3
  <2> HIDE DEF S
  <2>3. n - i \in Nat
    OBVIOUS
  <2>4. \A k \in 0..(n - i) : k \in S
    BY <2>1, <2>2, <2>3, UpTo
  <2>5. j - i \in S
    BY <1>1, <2>4
  <2>. QED
    BY <2>5 DEF S
<1>2. ASSUME NEW r \in cut[0]..(cut[n] - 1) PROVE \E i \in 1..n : r \in cut[i - 1]..(cut[i] - 1)
  <2> DEFINE T == {k \in 0..n : r < cut[k]}
  <2>1. cut[0] \in Nat /\ cut[n] \in Nat
    OBVIOUS
  <2>2. n \in T /\ T \in SUBSET Nat
    BY <2>1
  <2>3. PICK i \in T : \A k \in T : i <= k
    BY <2>2, LeastNumber
  <2>4. i # 0
    BY <2>1, <2>3
  <2>5. i \in 1..n /\ i - 1 \in 0..n /\ i - 1 \notin T
    BY <2>3, <2>4
  <2>6. cut[i] \in Nat /\ cut[i - 1] \in Nat /\ r < cut[i] /\ ~(r < cut[i - 1])
    BY <2>3, <2>5
  <2>. QED
    BY <2>1, <2>5, <2>6
<1>. QED
  BY <1>1, <1>2

\* The counts of the fragments add up to the rows they have.
LEMMA RowsAddUp ==
    ASSUME NEW n \in Nat, NEW frags, NEW cut, Follow(n, frags, cut)
    PROVE  /\ [j \in DOMAIN frags |-> frags[j].rows] \in [1..n -> Nat]
           /\ \A k \in 0..n : Sums([j \in DOMAIN frags |-> frags[j].rows])[k] = cut[k] - cut[0]
<1> DEFINE counts == [j \in DOMAIN frags |-> frags[j].rows]
           sum == Sums(counts)
<1>1. DOMAIN frags = 1..n
  BY DEF Follow
<1>2. cut \in [0..n -> Nat]
  BY DEF Follow
<1>3. \A i \in 1..n : counts[i] = cut[i] - cut[i - 1] /\ cut[i - 1] < cut[i]
  BY <1>1 DEF Follow, Indexes
<1>4. \A i \in 1..n : cut[i] \in Nat /\ cut[i - 1] \in Nat
  BY <1>2
<1>5. counts = [j \in 1..n |-> counts[j]]
  BY <1>1
<1> HIDE DEF counts
<1>6. counts \in [1..n -> Nat]
  BY <1>3, <1>4, <1>5
<1>7. sum[0] = 0 /\ \A k \in 1..n : sum[k] = sum[k - 1] + counts[k]
  BY <1>6, SumsGrow
<1> DEFINE S == {k \in 0..n : sum[k] = cut[k] - cut[0]}
<1>8. 0 \in S
  BY <1>2, <1>7
<1>9. \A k \in 0..(n - 1) : k \in S => k + 1 \in S
  <2> SUFFICES ASSUME NEW k \in 0..(n - 1), k \in S PROVE k + 1 \in S
    OBVIOUS
  <2>1. k + 1 \in 1..n /\ (k + 1) - 1 = k /\ k + 1 \in 0..n
    OBVIOUS
  <2>2. sum[k + 1] = sum[k] + counts[k + 1] /\ counts[k + 1] = cut[k + 1] - cut[k]
    BY <1>3, <1>7, <2>1
  <2>3. cut[k] \in Nat /\ cut[k + 1] \in Nat /\ cut[0] \in Nat
    BY <1>2, <2>1
  <2>. QED
    BY <2>1, <2>2, <2>3
<1> HIDE DEF S
<1>10. \A k \in 0..n : k \in S
  BY <1>8, <1>9, UpTo
<1>. QED
  BY <1>6, <1>10 DEF S, counts

-----------------------------------------------------------------------------
(* Merging                                                                 *)

\* The pages of the parts and the rows of each.
PagesOf(n, parts) == [i \in 1..n |-> parts[i].pages]
PartOf(n, cut) == [i \in 1..n |-> cut[i - 1]..(cut[i] - 1)]

\* Fragments that follow each other have rows of their own.
LEMMA PartsOwn ==
    ASSUME NEW n \in Nat, NEW parts, NEW cut, Follow(n, parts, cut)
    PROVE  /\ AreSeqs(n, PagesOf(n, parts), PageType)
           /\ OwnRows(n, PagesOf(n, parts), PartOf(n, cut))
           /\ RowsOfAll(n, PartOf(n, cut)) = cut[0]..(cut[n] - 1)
           /\ Lengths(n, PagesOf(n, parts)) \in [1..n -> Nat]
           /\ Sums(Lengths(n, PagesOf(n, parts))) \in [0..n -> Nat]
<1> DEFINE ps == PagesOf(n, parts)
           part == PartOf(n, cut)
<1>1. /\ cut \in [0..n -> Nat] /\ \A i \in 1..n : cut[i - 1] < cut[i]
      /\ \A i \in 1..n : GoodPages(parts[i].pages, cut[i - 1]..(cut[i] - 1))
  BY DEF Follow, Indexes
<1>2. /\ \A i, j \in 0..n : i <= j => cut[i] <= cut[j]
      /\ \A r \in cut[0]..(cut[n] - 1) : \E i \in 1..n : r \in cut[i - 1]..(cut[i] - 1)
  BY <1>1, CutsGrow
<1>3. \A i \in 1..n : ps[i] = parts[i].pages /\ part[i] = cut[i - 1]..(cut[i] - 1)
  BY DEF PagesOf, PartOf
<1>4. ps = [i \in 1..n |-> ps[i]]
  BY DEF PagesOf
<1> HIDE DEF ps, part
<1>5. \A i \in 1..n : GoodPages(ps[i], part[i])
  BY <1>1, <1>3
<1>6. AreSeqs(n, ps, PageType)
  <2>1. \A i \in 1..n : ps[i] \in Seq(PageType)
    BY <1>5 DEF GoodPages
  <2>. QED
    BY <1>4, <2>1 DEF AreSeqs
<1>7. ASSUME NEW i \in 1..n, NEW j \in 1..n, i < j PROVE part[i] \cap part[j] = {}
  <2>1. i \in 0..n /\ j - 1 \in 0..n /\ i <= j - 1
    BY <1>7
  <2>2. cut[i] <= cut[j - 1] /\ cut[i] \in Nat /\ cut[j - 1] \in Nat
    BY <1>1, <1>2, <2>1
  <2>3. \A r \in part[i] : r < cut[i]
    BY <1>1, <1>3, <2>2
  <2>4. \A r \in part[j] : r \in Int /\ cut[j - 1] <= r
    BY <1>1, <1>3, <2>2
  <2>5. \A r \in part[i] : r \in Int
    BY <1>1, <1>3, <2>2
  <2>. QED
    BY <2>2, <2>3, <2>4, <2>5
<1>8. OwnRows(n, ps, part)
  <2>1. \A i, j \in 1..n : i # j => part[i] \cap part[j] = {}
    <3> TAKE i, j \in 1..n
    <3>1. i < j \/ j < i \/ i = j
      OBVIOUS
    <3>. QED
      BY <1>7, <3>1
  <2>. QED
    BY <1>5, <2>1 DEF OwnRows
<1>9. RowsOfAll(n, part) = cut[0]..(cut[n] - 1)
  <2>1. \A i \in 1..n : \A r \in part[i] : r \in cut[0]..(cut[n] - 1)
    <3> TAKE i \in 1..n
    <3> TAKE r \in part[i]
    <3>1. 0 \in 0..n /\ i - 1 \in 0..n /\ 0 <= i - 1 /\ i \in 0..n /\ n \in 0..n /\ i <= n
      OBVIOUS
    <3>2. cut[0] <= cut[i - 1] /\ cut[i] <= cut[n] /\ cut[0] \in Nat /\ cut[n] \in Nat
          /\ cut[i] \in Nat /\ cut[i - 1] \in Nat
      BY <1>1, <1>2, <3>1
    <3>. QED
      BY <1>3, <3>2, SMTT(30)
  <2>2. \A r \in cut[0]..(cut[n] - 1) : \E i \in 1..n : r \in part[i]
    BY <1>2, <1>3
  <2>. QED
    BY <2>1, <2>2 DEF RowsOfAll
<1>10. Lengths(n, ps) \in [1..n -> Nat]
  BY <1>6, FlattenIs
<1>11. Sums(Lengths(n, ps)) \in [0..n -> Nat]
  BY <1>10, SumsGrow
<1>. QED
  BY <1>6, <1>8, <1>9, <1>10, <1>11 DEF ps, part

\* A page of a part is renumbered by its place.
LEMMA RemapIs ==
    ASSUME NEW n \in Nat, NEW parts, NEW cut, Follow(n, parts, cut),
           NEW i \in 1..n, NEW j \in 1..Len(parts[i].pages)
    PROVE  RemapId(parts, i, parts[i].pages[j].id) = Sums(Lengths(n, PagesOf(n, parts)))[i - 1] + j
<1> DEFINE pages == parts[i].pages
           sum == Sums(Lengths(n, PagesOf(n, parts)))
           id == pages[j].id
<1>1. DOMAIN parts = 1..n
  BY DEF Follow
<1>2. GoodPages(pages, cut[i - 1]..(cut[i] - 1))
  BY DEF Follow, Indexes
<1>3. [m \in DOMAIN parts |-> parts[m].pages] = PagesOf(n, parts)
  BY <1>1 DEF PagesOf
<1>4. [m \in DOMAIN PagesOf(n, parts) |-> Len(PagesOf(n, parts)[m])] = Lengths(n, PagesOf(n, parts))
  BY DEF PagesOf, Lengths
<1>5. PagesBefore([m \in DOMAIN parts |-> parts[m].pages], i) = sum[i - 1]
  BY <1>3, <1>4 DEF PagesBefore
<1>6. (CHOOSE m \in DOMAIN pages : pages[m].id = id) = j
  <2>1. DOMAIN pages = 1..Len(pages)
    BY <1>2 DEF GoodPages
  <2>2. \A m \in 1..Len(pages) : pages[m].id = id => m = j
    BY <1>2 DEF GoodPages
  <2>. QED
    BY <2>1, <2>2
<1>7. RemapId(parts, i, id) = 1 + sum[i - 1] + j - 1
  BY <1>5, <1>6 DEF RemapId
<1>8. sum[i - 1] \in Nat
  <2>1. sum \in [0..n -> Nat]
    BY PartsOwn
  <2> HIDE DEF sum
  <2>. QED
    BY <2>1
<1> HIDE DEF sum
<1>. QED
  BY <1>7, <1>8 DEF sum, id, pages

\* The pages of the parts as a merge renumbers them.
Remapped(n, parts) ==
    [i \in 1..n |-> [j \in DOMAIN parts[i].pages |-> RemapPage(parts, i, parts[i].pages[j])]]

\* A merge numbers the pages of its parts one after the other.
LEMMA RemappedIs ==
    ASSUME NEW n \in Nat, NEW parts, NEW cut, Follow(n, parts, cut)
    PROVE  Renumbered(n, PagesOf(n, parts), Remapped(n, parts))
<1> DEFINE ps == PagesOf(n, parts)
           qs == Remapped(n, parts)
           sum == Sums(Lengths(n, ps))
<1>1. /\ AreSeqs(n, ps, PageType)
      /\ sum \in [0..n -> Nat]
  BY PartsOwn
<1>2. \A i \in 1..n : ps[i] = parts[i].pages
  BY DEF PagesOf
<1>3. \A i \in 1..n : /\ ps[i] \in Seq(PageType) /\ DOMAIN ps[i] = 1..Len(ps[i]) /\ Len(ps[i]) \in Nat
                      /\ GoodPages(ps[i], cut[i - 1]..(cut[i] - 1))
  <2>1. \A i \in 1..n : GoodPages(ps[i], cut[i - 1]..(cut[i] - 1))
    BY <1>2 DEF Follow, Indexes
  <2>2. \A i \in 1..n : ps[i] \in Seq(PageType)
    BY <2>1 DEF GoodPages
  <2>. QED
    BY <2>1, <2>2
<1>4. \A i \in 1..n : qs[i] = [j \in 1..Len(ps[i]) |-> RemapPage(parts, i, ps[i][j])]
  BY <1>2, <1>3 DEF Remapped
<1>5. qs = [i \in 1..n |-> qs[i]]
  BY DEF Remapped
<1> HIDE DEF qs, ps, sum
<1>6. \A i \in 1..n : sum[i - 1] \in Nat
  BY <1>1
<1>7. ASSUME NEW i \in 1..n, NEW j \in 1..Len(ps[i])
      PROVE  /\ qs[i][j] \in PageType
             /\ qs[i][j].id = sum[i - 1] + j
             /\ qs[i][j].ids = ps[i][j].ids /\ qs[i][j].of = ps[i][j].of
             /\ qs[i][j].centroids = ps[i][j].centroids
             /\ Len(qs[i][j].kids) = Len(ps[i][j].kids)
             /\ \A m \in 1..Len(ps[i][j].kids) :
                   \E b \in 1..Len(ps[i]) : qs[i][j].kids[m] = sum[i - 1] + b
  <2> DEFINE page == ps[i][j]
             ks == [m \in DOMAIN page.kids |-> RemapId(parts, i, page.kids[m])]
             q == [page EXCEPT !.id = RemapId(parts, i, page.id), !.kids = ks]
  <2>1. page \in PageType /\ GoodPage(page, IdsOf(ps[i]))
    <3>1. ps[i] \in Seq(PageType) /\ GoodPages(ps[i], cut[i - 1]..(cut[i] - 1))
      BY <1>3
    <3>. QED
      BY <3>1 DEF GoodPages
  <2>2. qs[i][j] = q
    BY <1>4 DEF RemapPage
  <2>3. page.kids \in Seq(Nat) /\ DOMAIN page.kids = 1..Len(page.kids) /\ Len(page.kids) \in Nat
    BY <2>1 DEF PageType
  <2>4. RemapId(parts, i, page.id) = sum[i - 1] + j
    BY <1>2, RemapIs DEF sum, ps
  <2>5. ASSUME NEW m \in 1..Len(page.kids)
        PROVE  \E b \in 1..Len(ps[i]) : ks[m] = sum[i - 1] + b
    <3>1. page.kids[m] \in IdsOf(ps[i])
      BY <2>1 DEF GoodPage
    <3>2. \E b \in 1..Len(parts[i].pages) :
             RemapId(parts, i, page.kids[m]) = Sums(Lengths(n, PagesOf(n, parts)))[i - 1] + b
      <4> DEFINE id == page.kids[m]
      <4>1. id \in IdsOf(parts[i].pages)
        BY <1>2, <3>1
      <4> HIDE DEF id
      <4>2. \E b \in 1..Len(parts[i].pages) :
               RemapId(parts, i, id) = Sums(Lengths(n, PagesOf(n, parts)))[i - 1] + b
        <5>1. PICK b \in 1..Len(parts[i].pages) : parts[i].pages[b].id = id
          BY <4>1 DEF IdsOf
        <5>2. RemapId(parts, i, parts[i].pages[b].id) = Sums(Lengths(n, PagesOf(n, parts)))[i - 1] + b
          BY RemapIs
        <5>. QED
          BY <5>1, <5>2
      <4>. QED
        BY <4>2 DEF id
    <3>3. ks[m] = RemapId(parts, i, page.kids[m])
      BY <2>3
    <3>. QED
      BY <1>2, <3>2, <3>3 DEF sum, ps
  <2>6. \A m \in 1..Len(page.kids) : ks[m] \in Nat
    <3> TAKE m \in 1..Len(page.kids)
    <3>1. PICK b \in 1..Len(ps[i]) : ks[m] = sum[i - 1] + b
      BY <2>5
    <3>. QED
      BY <1>6, <3>1
  <2>7. ks \in Seq(Nat) /\ Len(ks) = Len(page.kids)
    <3>1. ks = [m \in 1..Len(page.kids) |-> ks[m]]
      BY <2>3
    <3> HIDE DEF ks
    <3>2. ks \in [1..Len(page.kids) -> Nat]
      BY <2>6, <3>1
    <3>. QED
      BY <2>3, <3>2, FunctionIsSeq, ZenonT(30)
  <2>8. sum[i - 1] + j \in Nat
    BY <1>6
  <2>9. /\ q \in PageType /\ q.id = sum[i - 1] + j /\ q.kids = ks
        /\ q.ids = page.ids /\ q.of = page.of /\ q.centroids = page.centroids
    <3> HIDE DEF ks, page
    <3>. QED
      BY <2>1, <2>4, <2>7, <2>8 DEF PageType
  <2> HIDE DEF ks, q
  <2>. QED
    BY <2>2, <2>5, <2>7, <2>9
<1>8. \A i \in 1..n : qs[i] \in Seq(PageType) /\ Len(qs[i]) = Len(ps[i])
  <2> TAKE i \in 1..n
  <2>1. qs[i] = [j \in 1..Len(ps[i]) |-> qs[i][j]] /\ Len(ps[i]) \in Nat
    BY <1>3, <1>4
  <2>2. qs[i] \in [1..Len(ps[i]) -> PageType]
    BY <1>7, <2>1
  <2>. QED
    BY <2>1, <2>2, FunctionIsSeq
<1>9. AreSeqs(n, qs, PageType)
  BY <1>5, <1>8 DEF AreSeqs
<1>10. Renumbered(n, ps, qs)
  BY <1>1, <1>7, <1>8, <1>9 DEF Renumbered, sum
<1>. QED
  BY <1>10 DEF ps, qs

\* Merging fragments that follow each other makes an index of all their rows.
LEMMA MergeIs ==
    ASSUME NEW n \in Nat \ {0}, NEW parts, NEW cut, Follow(n, parts, cut),
           NEW val, Valued(val, cut[0]..(cut[n] - 1))
    PROVE  Indexes(ConcatMerge(parts, val), cut[0], cut[n])
<1> DEFINE rows == cut[0]..(cut[n] - 1)
           ps == PagesOf(n, parts)
           sum == Sums(Lengths(n, ps))
           own == SkipPages(parts)
           From(e) == RemapId(parts, e[1], e[2])
           To(e) == [j \in DOMAIN parts[e[1]].skip[e[2]] |-> RemapId(parts, e[1], parts[e[1]].skip[e[2]][j])]
           skip == MergedSkip(parts)
           root == MergedRoot(parts, val)
           flat == MergedPages(parts)
           counts == [i \in DOMAIN parts |-> parts[i].rows]
           f == ConcatMerge(parts, val)
<1>1. DOMAIN parts = 1..n /\ Len(parts) = n
  BY DEF Follow
<1>2. CASE n = 1
  <2>1. f = parts[1]
    BY <1>1, <1>2 DEF ConcatMerge
  <2>2. 1 \in 1..n /\ 1 - 1 = 0
    OBVIOUS
  <2>3. Indexes(parts[1], cut[0], cut[1])
    BY <2>2 DEF Follow
  <2>. QED
    BY <1>2, <2>1, <2>3
<1>3. CASE n # 1
  <2>1. f = Index(Sums(counts)[Len(parts)], 0, Append(flat, root), skip)
    BY <1>1, <1>3 DEF ConcatMerge
  <2>2. f.rows = Sums(counts)[n] /\ f.root = 0 /\ f.pages = Append(flat, root) /\ f.skip = skip
    <3> HIDE DEF f, flat, root, skip, counts
    <3>. QED
      BY <1>1, <2>1 DEF Index
  <2>3. f.rows = cut[n] - cut[0]
    <3>1. \A k \in 0..n : Sums([j \in DOMAIN parts |-> parts[j].rows])[k] = cut[k] - cut[0]
      BY RowsAddUp
    <3>2. n \in 0..n
      OBVIOUS
    <3>. QED
      BY <2>2, <3>1, <3>2
  <2> HIDE DEF counts, f
  <2>4. flat = FlattenSeq(Remapped(n, parts))
    BY <1>1 DEF MergedPages, Remapped
  <2> HIDE DEF flat
  <2>5. /\ GoodPages(flat, rows)
        /\ \A p \in 1..Len(flat) : flat[p].id = p
        /\ Len(flat) = sum[n]
    <3>1. OwnRows(n, ps, PartOf(n, cut)) /\ RowsOfAll(n, PartOf(n, cut)) = rows
      BY PartsOwn
    <3>2. Renumbered(n, ps, Remapped(n, parts))
      BY RemappedIs
    <3> DEFINE qs == Remapped(n, parts)
               part == PartOf(n, cut)
    <3>3. OwnRows(n, ps, part) /\ RowsOfAll(n, part) = rows /\ Renumbered(n, ps, qs) /\ flat = FlattenSeq(qs)
      BY <2>4, <3>1, <3>2
    <3> HIDE DEF qs, part, ps
    <3>4. /\ GoodPages(FlattenSeq(qs), RowsOfAll(n, part))
          /\ \A p \in 1..Len(FlattenSeq(qs)) : FlattenSeq(qs)[p].id = p
          /\ Len(FlattenSeq(qs)) = Sums(Lengths(n, ps))[n]
      BY <3>3, RenumberedIs
    <3>. QED
      BY <3>3, <3>4
  <2>6. ASSUME NEW i \in 1..n, NEW id \in IdsOf(parts[i].pages)
        PROVE  \E b \in 1..Len(parts[i].pages) :
                  /\ parts[i].pages[b].id = id
                  /\ RemapId(parts, i, id) = sum[i - 1] + b
                  /\ sum[i - 1] + b \in 1..Len(flat)
    <3>1. PICK b \in 1..Len(parts[i].pages) : parts[i].pages[b].id = id
      BY DEF IdsOf
    <3>2. RemapId(parts, i, parts[i].pages[b].id) = Sums(Lengths(n, PagesOf(n, parts)))[i - 1] + b
      BY RemapIs
    <3>3. sum[i - 1] + b \in 1..sum[n]
      <4>1. AreSeqs(n, ps, PageType)
        BY PartsOwn
      <4>2. b \in 1..Len(ps[i])
        BY DEF PagesOf
      <4> HIDE DEF ps
      <4>. QED
        BY <4>1, <4>2, FlattenIs
    <3>. QED
      BY <2>5, <3>1, <3>2, <3>3
  <2> HIDE DEF ps, sum
  <2>7. IdsOf(flat) = 1..Len(flat)
    BY <2>5 DEF IdsOf
  <2>8. ASSUME NEW i \in 1..n, NEW id \in IdsOf(parts[i].pages)
        PROVE  RemapId(parts, i, id) \in Nat /\ RemapId(parts, i, id) \in IdsOf(flat)
    <3>1. RemapId(parts, i, id) \in 1..Len(flat)
      BY <2>6
    <3>2. Len(flat) \in Nat
      BY <2>5 DEF GoodPages
    <3>. QED
      BY <2>7, <3>1, <3>2
  <2>9. ASSUME NEW i \in 1..n, NEW a \in IdsOf(parts[i].pages), NEW b \in IdsOf(parts[i].pages),
               RemapId(parts, i, a) = RemapId(parts, i, b)
        PROVE  a = b
    <3>1. PICK p \in 1..Len(parts[i].pages) :
             parts[i].pages[p].id = a /\ RemapId(parts, i, a) = sum[i - 1] + p
      BY <2>6
    <3>2. PICK q \in 1..Len(parts[i].pages) :
             parts[i].pages[q].id = b /\ RemapId(parts, i, b) = sum[i - 1] + q
      BY <2>6
    <3>3. sum[i - 1] \in Nat
      <4>1. sum \in [0..n -> Nat]
        BY PartsOwn DEF sum, ps
      <4>. QED
        BY <4>1
    <3> DEFINE s == sum[i - 1]
    <3>4. Len(parts[i].pages) \in Nat
      <4>1. GoodPages(parts[i].pages, cut[i - 1]..(cut[i] - 1))
        BY DEF Follow, Indexes
      <4>. QED
        BY <4>1 DEF GoodPages
    <3>5. p \in Int /\ q \in Int
      BY <3>4
    <3>6. s \in Nat /\ s + p = s + q /\ p \in Int /\ q \in Int
      <4>1. s + p = s + q
        BY <2>9, <3>1, <3>2
      <4>. QED
        BY <3>3, <3>5, <4>1
    <3> HIDE DEF s
    <3>7. p = q
      BY <3>6
    <3>. QED
      BY <3>1, <3>2, <3>7
  <2>10. \A i \in 1..n : GoodSkip(parts[i].skip, parts[i].pages) /\ parts[i].root \in IdsOf(parts[i].pages)
    BY DEF Follow, Indexes
  <2>11. GoodSkip(skip, flat)
    <3>1. ASSUME NEW e \in own
          PROVE  /\ From(e) \in IdsOf(flat)
                 /\ To(e) \in Seq(Nat)
                 /\ \A m \in 1..Len(To(e)) : To(e)[m] \in IdsOf(flat) \ {From(e)}
      <4>1. PICK i \in 1..n : e[1] = i
        BY <1>1 DEF SkipPages
      <4> DEFINE p == e[2]
                 tos == parts[i].skip[p]
                 to == [j \in DOMAIN tos |-> RemapId(parts, i, tos[j])]
      <4>2. p \in DOMAIN parts[i].skip /\ From(e) = RemapId(parts, i, p) /\ To(e) = to
        BY <4>1 DEF SkipPages
      <4> HIDE DEF p, From, To
      <4>3. /\ p \in IdsOf(parts[i].pages) /\ tos \in Seq(Nat)
            /\ \A m \in 1..Len(tos) : tos[m] \in IdsOf(parts[i].pages) \ {p}
        BY <2>10, <4>2 DEF GoodSkip
      <4> HIDE DEF tos
      <4>4. DOMAIN tos = 1..Len(tos) /\ Len(tos) \in Nat
        BY <4>3
      <4>5. ASSUME NEW m \in 1..Len(tos)
            PROVE  RemapId(parts, i, tos[m]) \in Nat
                   /\ RemapId(parts, i, tos[m]) \in IdsOf(flat) \ {RemapId(parts, i, p)}
        <5> DEFINE t == tos[m]
        <5>1. t \in IdsOf(parts[i].pages) /\ t # p
          BY <4>3
        <5> HIDE DEF t
        <5>2. RemapId(parts, i, t) \in Nat /\ RemapId(parts, i, t) \in IdsOf(flat)
              /\ RemapId(parts, i, t) # RemapId(parts, i, p)
          BY <2>8, <2>9, <4>3, <5>1
        <5>. QED
          BY <5>2 DEF t
      <4>6. to \in Seq(Nat) /\ Len(to) = Len(tos)
            /\ \A m \in 1..Len(tos) : to[m] = RemapId(parts, i, tos[m])
        <5>1. to = [m \in 1..Len(tos) |-> RemapId(parts, i, tos[m])]
          BY <4>4
        <5>2. to \in [1..Len(tos) -> Nat]
          BY <4>5, <5>1
        <5>. QED
          BY <4>4, <5>1, <5>2, FunctionIsSeq
      <4> HIDE DEF to
      <4>7. From(e) \in IdsOf(flat)
        BY <2>8, <4>2, <4>3
      <4>. QED
        BY <4>2, <4>5, <4>6, <4>7
    <3>2. skip = [id \in {From(e) : e \in own} |-> To(CHOOSE e \in own : From(e) = id)]
      BY DEF MergedSkip
    <3> HIDE DEF skip, own, From, To
    <3>3. \A id \in DOMAIN skip : \E e \in own : id = From(e) /\ skip[id] = To(e)
      <4> SUFFICES ASSUME NEW id \in {From(e) : e \in own}
                   PROVE  \E e \in own : id = From(e) /\ skip[id] = To(e)
        BY <3>2
      <4> DEFINE e == CHOOSE y \in own : From(y) = id
      <4>1. PICK y \in own : From(y) = id
        OBVIOUS
      <4>2. e \in own /\ From(e) = id
        BY <4>1
      <4>3. skip[id] = To(e)
        BY <3>2
      <4> HIDE DEF e
      <4>. QED
        BY <4>2, <4>3
    <3>. QED
      BY <3>1, <3>3 DEF GoodSkip
  <2> HIDE DEF skip, own, From, To
  <2>12. RootOver(root, flat)
    <3> DEFINE ks == [i \in DOMAIN parts |-> RemapId(parts, i, parts[i].root)]
               cs == [i \in DOMAIN parts |-> RootCentroid(parts[i], val)]
    <3>1. \A i \in 1..n : ks[i] \in Nat /\ ks[i] \in IdsOf(flat)
      <4> TAKE i \in 1..n
      <4> DEFINE id == parts[i].root
      <4>1. id \in IdsOf(parts[i].pages)
        BY <2>10
      <4>2. ks[i] = RemapId(parts, i, id)
        BY <1>1
      <4> HIDE DEF id, ks
      <4>. QED
        BY <2>8, <4>1, <4>2
    <3>2. ASSUME NEW i \in 1..n PROVE cs[i] \in Int
      <4> DEFINE pages == parts[i].pages
                 id == parts[i].root
                 page == CHOOSE p \in ToSet(pages) : p.id = id
      <4>1. cs[i] = Centroid(page, val)
        BY <1>1 DEF RootCentroid, PageById
      <4>2. GoodPages(pages, cut[i - 1]..(cut[i] - 1)) /\ id \in IdsOf(pages)
        BY DEF Follow, Indexes
      <4>3. PICK a \in 1..Len(pages) : pages[a].id = id
        BY <4>2 DEF IdsOf
      <4>4. pages \in Seq(PageType)
        BY <4>2 DEF GoodPages
      <4> HIDE DEF pages, id
      <4>5. pages[a] \in ToSet(pages)
        BY <4>4, Members
      <4>6. page \in ToSet(pages)
        BY <4>3, <4>5
      <4> HIDE DEF page
      <4>7. PICK b \in 1..Len(pages) : page = pages[b]
        BY <4>4, <4>6, Members
      <4>8. Valued(val, cut[i - 1]..(cut[i] - 1))
        <5>1. RowsOfAll(n, PartOf(n, cut)) = cut[0]..(cut[n] - 1)
          BY PartsOwn
        <5>2. \A r \in cut[i - 1]..(cut[i] - 1) : r \in RowsOfAll(n, PartOf(n, cut))
          BY DEF RowsOfAll, PartOf
        <5>. QED
          BY <5>1, <5>2 DEF Valued
      <4> DEFINE own1 == cut[i - 1]..(cut[i] - 1)
      <4>9. GoodPages(pages, own1) /\ Valued(val, own1)
        BY <4>2, <4>8
      <4> HIDE DEF own1
      <4>10. Centroid(pages[b], val) \in Int
        BY <4>9, CentroidIs
      <4>. QED
        BY <4>1, <4>7, <4>10
    <3>3. root = [id |-> 0, ids |-> <<>>, of |-> {}, kids |-> ks, centroids |-> cs]
      BY DEF MergedRoot, Internal
    <3>4. ks = [i \in 1..n |-> ks[i]] /\ cs = [i \in 1..n |-> cs[i]]
      BY <1>1
    <3> HIDE DEF ks, cs, root
    <3>5. ks \in [1..n -> Nat] /\ cs \in [1..n -> Int]
      BY <3>1, <3>2, <3>4
    <3>6. ks \in Seq(Nat) /\ Len(ks) = n /\ cs \in Seq(Int) /\ Len(cs) = n
      BY <3>5, FunctionIsSeq
    <3>7. root \in PageType
      BY <3>3, <3>6 DEF PageType
    <3>8. ks # <<>>
      BY <3>6
    <3>9. \A a \in 1..Len(flat) : flat[a].id # 0
      BY <2>5
    <3>. QED
      BY <3>1, <3>3, <3>6, <3>7, <3>8, <3>9 DEF RootOver
  <2> HIDE DEF root, rows
  <2>13. GoodPages(Append(flat, root), rows) /\ IdsOf(Append(flat, root)) = {0} \cup IdsOf(flat)
    BY <2>5, <2>12, RootLast
  <2>14. GoodSkip(skip, Append(flat, root))
    BY <2>11, <2>13 DEF GoodSkip
  <2>. QED
    BY <2>2, <2>3, <2>13, <2>14 DEF Indexes, rows, f
<1>. QED
  BY <1>2, <1>3

-----------------------------------------------------------------------------
(* Compaction                                                              *)

\* Of numbered things, those that are good first, then by their key: one comes
\* before all others that are numbered before it and after none.
Ahead(good, key, i, j) == \/ i \in good /\ j \notin good
                          \/ (i \in good <=> j \in good) /\ key[i] < key[j]

\* There is one that comes before all others.
LEMMA FirstLeast ==
    ASSUME NEW S \in SUBSET Nat, S # {}, NEW good \in SUBSET S, NEW key \in [S -> Nat]
    PROVE  \E i \in S : /\ \A j \in S : ~Ahead(good, key, j, i)
                        /\ \A j \in S : j < i => Ahead(good, key, i, j)
<1> DEFINE D == IF good # {} THEN good ELSE S
           keys == {k \in Nat : \E i \in D : key[i] = k}
<1>1. D # {} /\ D \in SUBSET S
  OBVIOUS
<1>2. \A i, j \in S : i \in D /\ j \notin D => i \in good /\ j \notin good
  OBVIOUS
<1>3. \A i, j \in D : i \in good <=> j \in good
  OBVIOUS
<1>4. \A j \in S : j \notin D => j \notin good
  OBVIOUS
<1> HIDE DEF D
<1>5. \A i \in S : key[i] \in Nat
  OBVIOUS
<1>6. keys # {} /\ keys \in SUBSET Nat
  BY <1>1, <1>5
<1>7. PICK m \in keys : \A k \in keys : m <= k
  BY <1>6, LeastNumber
<1> DEFINE I == {i \in D : key[i] = m}
<1>8. I # {} /\ I \in SUBSET Nat
  BY <1>1, <1>7
<1> HIDE DEF I
<1>9. PICK i \in I : \A j \in I : i <= j
  BY <1>8, LeastNumber
<1>10. i \in D /\ i \in S /\ key[i] = m /\ i \in Nat
  BY <1>1, <1>9 DEF I
<1>11. \A j \in D : key[i] <= key[j]
  BY <1>1, <1>5, <1>7, <1>10
<1>12. ASSUME NEW j \in S PROVE ~Ahead(good, key, j, i)
  <2>1. CASE j \in D
    BY <1>3, <1>5, <1>10, <1>11, <2>1 DEF Ahead
  <2>2. CASE j \notin D
    BY <1>2, <1>10, <2>2 DEF Ahead
  <2>. QED
    BY <2>1, <2>2
<1>13. ASSUME NEW j \in S, j < i PROVE Ahead(good, key, i, j)
  <2>1. CASE j \in D
    <3>1. j \notin I
      BY <1>9, <1>10, <1>13
    <3>2. key[j] # m
      BY <2>1, <3>1 DEF I
    <3>3. key[i] < key[j]
      BY <1>5, <1>10, <1>11, <2>1, <3>2
    <3>. QED
      BY <1>3, <1>10, <2>1, <3>3 DEF Ahead
  <2>2. CASE j \notin D
    BY <1>2, <1>10, <2>2 DEF Ahead
  <2>. QED
    BY <2>1, <2>2
<1>. QED
  BY <1>10, <1>12, <1>13

\* The run that is merged is one of the fragments.
LEMMA SmallestRunIs ==
    ASSUME NEW len \in Nat, NEW frags, NEW cut, Follow(len, frags, cut), NEW n \in 1..len
    PROVE  SmallestRun(frags, n) \in 1..(len - n + 1)
<1> DEFINE starts == 1..(Len(frags) - n + 1)
           upTo == Sums([j \in DOMAIN frags |-> frags[j].rows])
           Rows(i) == upTo[i + n - 1] - upTo[i - 1]
           Small(i) == \A j \in i..(i + n - 1) : frags[j].rows <= MergeSmall
           Before(i, j) == \/ Small(i) /\ ~Small(j)
                           \/ Small(i) = Small(j) /\ Rows(i) < Rows(j)
           good == {i \in starts : Small(i)}
           key == [i \in starts |-> Rows(i)]
           run == SmallestRun(frags, n)
<1>1. run = CHOOSE i \in starts : /\ \A j \in starts : ~Before(j, i)
                                  /\ \A j \in 1..(i - 1) : Before(i, j)
  BY DEF SmallestRun
<1>2. Len(frags) = len
  BY DEF Follow
<1>3. starts = 1..(len - n + 1) /\ starts # {} /\ starts \in SUBSET Nat
  BY <1>2
<1>4. \A i \in starts : Rows(i) \in Nat
  <2> TAKE i \in starts
  <2>1. \A k \in 0..len : upTo[k] = cut[k] - cut[0]
    BY RowsAddUp
  <2>2. i + n - 1 \in 0..len /\ i - 1 \in 0..len /\ i - 1 <= i + n - 1 /\ 0 \in 0..len
    BY <1>3
  <2>3. cut \in [0..len -> Nat] /\ \A m \in 1..len : cut[m - 1] < cut[m]
    BY DEF Follow
  <2>4. cut[i - 1] <= cut[i + n - 1]
    BY <2>2, <2>3, CutsGrow
  <2>5. cut[i - 1] \in Nat /\ cut[i + n - 1] \in Nat /\ cut[0] \in Nat
    BY <2>2, <2>3
  <2> HIDE DEF upTo
  <2>6. Rows(i) = cut[i + n - 1] - cut[i - 1]
    BY <2>1, <2>2, <2>5
  <2>. QED
    BY <2>4, <2>5, <2>6
<1> HIDE DEF Rows, Small, run
<1>5. good \in SUBSET starts /\ key \in [starts -> Nat]
  BY <1>4
<1>6. \A i \in starts : key[i] = Rows(i)
  OBVIOUS
<1>7. \A i \in starts : Small(i) \in BOOLEAN
  BY DEF Small
<1>8. \A i \in starts : i \in good <=> Small(i)
  OBVIOUS
<1> HIDE DEF good, key, starts
<1>9. PICK i \in starts : /\ \A j \in starts : ~Ahead(good, key, j, i)
                          /\ \A j \in starts : j < i => Ahead(good, key, i, j)
  BY <1>3, <1>5, FirstLeast
<1>10. \A a, b \in starts : Ahead(good, key, a, b) <=> Before(a, b)
  BY <1>6, <1>7, <1>8 DEF Ahead
<1> HIDE DEF Before
<1>11. \A j \in 1..(i - 1) : j \in starts /\ j < i
  BY <1>3
<1>12. \E a \in starts : /\ \A j \in starts : ~Before(j, a)
                         /\ \A j \in 1..(a - 1) : Before(a, j)
  BY <1>9, <1>10, <1>11
<1>13. run \in starts
  BY <1>1, <1>12
<1>. QED
  BY <1>3, <1>13 DEF run

\* The cuts when n fragments from i on are one.
CutMerged(len, cut, i, n) == [k \in 0..(len - n + 1) |-> IF k < i THEN cut[k] ELSE cut[k + n - 1]]

\* A round of compaction leaves fragments that follow each other (sync.rs:258-294).
LEMMA AmalgamateIs ==
    ASSUME NEW len \in Nat, NEW frags, NEW cut, Follow(len, frags, cut), NEW n \in 1..len,
           NEW val, Valued(val, cut[0]..(cut[len] - 1))
    PROVE  \E cut2 : /\ Follow(len - n + 1, AmalgamateSmallestRun(frags, n, val), cut2)
                     /\ cut2[0] = cut[0] /\ cut2[len - n + 1] = cut[len]
<1> DEFINE i == SmallestRun(frags, n)
           m == len - n + 1
           cut2 == CutMerged(len, cut, i, n)
           parts == SubSeq(frags, i, i + n - 1)
           merged == ConcatMerge(parts, val)
           before == SubSeq(frags, 1, i - 1)
           after == SubSeq(frags, i + n, Len(frags))
           new == AmalgamateSmallestRun(frags, n, val)
<1>1. i \in 1..m
  BY SmallestRunIs
<1>2. new = before \o <<merged>> \o after
  BY DEF AmalgamateSmallestRun
<1> HIDE DEF i, new
<1>3. /\ Len(frags) = len /\ cut \in [0..len -> Nat]
      /\ \A k \in 1..len : cut[k - 1] < cut[k] /\ Indexes(frags[k], cut[k - 1], cut[k])
  BY DEF Follow
<1>4. PICK T : frags \in Seq(T)
  BY DEF Follow
<1>5. /\ parts \in Seq(T) /\ Len(parts) = n /\ \A k \in 1..n : parts[k] = frags[i + k - 1]
      /\ before \in Seq(T) /\ Len(before) = i - 1 /\ \A k \in 1..(i - 1) : before[k] = frags[k]
      /\ after \in Seq(T) /\ Len(after) = len - (i + n - 1)
      /\ \A k \in 1..(len - (i + n - 1)) : after[k] = frags[i + n - 1 + k]
  <2>1. i \in Nat /\ n \in Nat /\ 1 <= i /\ 1 <= n /\ i + n - 1 <= len /\ len \in Nat
    BY <1>1
  <2>2. parts \in Seq(T) /\ Len(parts) = n /\ \A k \in 1..n : parts[k] = frags[i + k - 1]
    BY <1>3, <1>4, <2>1
  <2>3. before \in Seq(T) /\ Len(before) = i - 1 /\ \A k \in 1..(i - 1) : before[k] = frags[k]
    BY <1>3, <1>4, <2>1
  <2>4. after \in Seq(T) /\ Len(after) = len - (i + n - 1)
        /\ \A k \in 1..(len - (i + n - 1)) : after[k] = frags[i + n - 1 + k]
    BY <1>3, <1>4, <2>1
  <2>. QED
    BY <2>2, <2>3, <2>4
<1> HIDE DEF parts, before, after
<1> DEFINE pcut == [k \in 0..n |-> cut[i - 1 + k]]
<1>6. /\ pcut \in [0..n -> Nat] /\ pcut[0] = cut[i - 1] /\ pcut[n] = cut[i + n - 1]
      /\ \A k \in 1..n : pcut[k] = cut[i + k - 1] /\ pcut[k - 1] = cut[(i + k - 1) - 1] /\ i + k - 1 \in 1..len
  <2>1. \A k \in 0..n : i - 1 + k \in 0..len
    BY <1>1
  <2>2. pcut \in [0..n -> Nat]
    BY <1>3, <2>1
  <2>3. pcut[0] = cut[i - 1 + 0] /\ i - 1 + 0 = i - 1 /\ pcut[n] = cut[i - 1 + n] /\ i - 1 + n = i + n - 1
    BY <1>1
  <2>4. ASSUME NEW k \in 1..n
        PROVE  pcut[k] = cut[i + k - 1] /\ pcut[k - 1] = cut[(i + k - 1) - 1] /\ i + k - 1 \in 1..len
    <3>1. k \in 0..n /\ k - 1 \in 0..n /\ i - 1 + k = i + k - 1 /\ i - 1 + (k - 1) = (i + k - 1) - 1
          /\ i + k - 1 \in 1..len
      BY <1>1
    <3>2. pcut[k] = cut[i - 1 + k] /\ pcut[k - 1] = cut[i - 1 + (k - 1)]
      BY <3>1
    <3>. QED
      BY <3>1, <3>2
  <2>. QED
    BY <2>2, <2>3, <2>4
<1> HIDE DEF pcut
<1>7. Follow(n, parts, pcut)
  BY <1>3, <1>5, <1>6 DEF Follow
<1>8. Valued(val, pcut[0]..(pcut[n] - 1))
  <2>1. i - 1 \in 0..len /\ i + n - 1 \in 0..len /\ 0 \in 0..len /\ len \in 0..len
    BY <1>1
  <2>2. \A a, b \in 0..len : a <= b => cut[a] <= cut[b]
    BY <1>3, CutsGrow
  <2>3. cut[0] <= cut[i - 1] /\ cut[i + n - 1] <= cut[len]
    BY <2>1, <2>2
  <2>4. cut[0] \in Nat /\ cut[i - 1] \in Nat /\ cut[i + n - 1] \in Nat /\ cut[len] \in Nat
    BY <1>3, <2>1
  <2>5. \A r \in pcut[0]..(pcut[n] - 1) : r \in cut[0]..(cut[len] - 1)
    BY <1>6, <2>3, <2>4, SMTT(30)
  <2>. QED
    BY <2>5 DEF Valued
<1>9. Indexes(merged, pcut[0], pcut[n])
  <2>1. n \in Nat \ {0}
    OBVIOUS
  <2>. QED
    BY <1>7, <1>8, <2>1, MergeIs
<1>10. Indexes(merged, cut[i - 1], cut[i + n - 1])
  BY <1>6, <1>9
<1> HIDE DEF merged
<1>11. /\ \E U : new \in Seq(U)
       /\ Len(new) = m
       /\ \A k \in 1..(i - 1) : new[k] = frags[k]
       /\ new[i] = merged
       /\ \A k \in (i + 1)..m : new[k] = frags[k + n - 1]
  <2> DEFINE U == T \cup {merged}
             mid == <<merged>>
             head == before \o mid
  <2>1. before \in Seq(U) /\ after \in Seq(U) /\ mid \in Seq(U) /\ Len(mid) = 1 /\ mid[1] = merged
    <3>1. \A k \in 1..Len(before) : before[k] \in U
      BY <1>5
    <3>2. \A k \in 1..Len(after) : after[k] \in U
      BY <1>5
    <3>3. merged \in U
      OBVIOUS
    <3> HIDE DEF U
    <3>4. before \in Seq(U) /\ after \in Seq(U)
      BY <1>5, <3>1, <3>2, SeqWithin
    <3>. QED
      BY <3>3, <3>4
  <2> HIDE DEF U, mid
  <2>2. /\ head \in Seq(U) /\ Len(head) = Len(before) + Len(mid)
        /\ \A p \in 1..Len(before) : head[p] = before[p]
        /\ \A p \in 1..Len(mid) : head[Len(before) + p] = mid[p]
    <3>1. before \in Seq(U) /\ mid \in Seq(U)
      BY <2>1
    <3>2. /\ before \o mid \in Seq(U) /\ Len(before \o mid) = Len(before) + Len(mid)
          /\ \A p \in 1..Len(before) : (before \o mid)[p] = before[p]
          /\ \A p \in 1..Len(mid) : (before \o mid)[Len(before) + p] = mid[p]
      BY <3>1, ConcatIs
    <3>. QED
      BY <3>2
  <2> HIDE DEF head
  <2>3. new = head \o after
    BY <1>2 DEF head, mid
  <2>4. /\ new \in Seq(U) /\ Len(new) = Len(head) + Len(after)
        /\ \A p \in 1..Len(head) : new[p] = head[p]
        /\ \A p \in 1..Len(after) : new[Len(head) + p] = after[p]
    <3>1. head \in Seq(U) /\ after \in Seq(U)
      BY <2>1, <2>2
    <3>2. /\ head \o after \in Seq(U) /\ Len(head \o after) = Len(head) + Len(after)
          /\ \A p \in 1..Len(head) : (head \o after)[p] = head[p]
          /\ \A p \in 1..Len(after) : (head \o after)[Len(head) + p] = after[p]
      BY <3>1, ConcatIs
    <3>. QED
      BY <2>3, <3>2
  <2>5. Len(head) = i /\ Len(new) = m
    BY <1>1, <1>5, <2>1, <2>2, <2>4
  <2>6. \A k \in 1..(i - 1) : new[k] = frags[k]
    <3> TAKE k \in 1..(i - 1)
    <3>1. k \in 1..Len(head) /\ k \in 1..Len(before)
      BY <1>1, <1>5, <2>5
    <3>. QED
      BY <1>5, <2>2, <2>4, <3>1
  <2>7. new[i] = merged
    <3>1. i \in 1..Len(head) /\ i = Len(before) + 1 /\ 1 \in 1..Len(mid)
      BY <1>1, <1>5, <2>1, <2>5
    <3>. QED
      BY <2>1, <2>2, <2>4, <3>1
  <2>8. ASSUME NEW k \in (i + 1)..m PROVE new[k] = frags[k + n - 1]
    <3>1. k - i \in 1..(len - (i + n - 1)) /\ k = i + (k - i) /\ i + n - 1 + (k - i) = k + n - 1
      BY <1>1
    <3>2. new[Len(head) + (k - i)] = after[k - i]
      BY <1>5, <2>4, <3>1
    <3>3. after[k - i] = frags[i + n - 1 + (k - i)]
      BY <1>5, <3>1
    <3>. QED
      BY <2>5, <3>1, <3>2, <3>3
  <2>. QED
    BY <2>4, <2>5, <2>6, <2>7, <2>8
<1>12. /\ cut2 \in [0..m -> Nat]
       /\ \A k \in 0..m : cut2[k] = IF k < i THEN cut[k] ELSE cut[k + n - 1]
  <2>1. \A k \in 0..m : k \in Int /\ (k < i => k \in 0..len) /\ (~(k < i) => k + n - 1 \in 0..len)
    BY <1>1
  <2>. QED
    BY <1>3, <2>1 DEF CutMerged
<1> HIDE DEF cut2
<1>13. ASSUME NEW k \in 1..m
       PROVE  cut2[k - 1] < cut2[k] /\ Indexes(new[k], cut2[k - 1], cut2[k])
  <2>1. CASE k < i
    <3>1. k \in 0..m /\ k - 1 \in 0..m /\ k - 1 < i /\ k \in 1..(i - 1) /\ k \in 1..len
      BY <1>1, <2>1
    <3>2. cut2[k] = cut[k] /\ cut2[k - 1] = cut[k - 1] /\ new[k] = frags[k]
      BY <1>11, <1>12, <2>1, <3>1
    <3>. QED
      BY <1>3, <3>1, <3>2
  <2>2. CASE k = i
    <3>1. k \in 0..m /\ k - 1 \in 0..m /\ k - 1 < i /\ ~(k < i)
      BY <1>1, <2>2
    <3>2. cut2[k] = cut[i + n - 1] /\ cut2[k - 1] = cut[i - 1] /\ new[k] = merged
      BY <1>11, <1>12, <2>2, <3>1
    <3>3. cut[i - 1] < cut[i + n - 1]
      <4>1. i - 1 \in 0..len /\ i \in 0..len /\ i + n - 1 \in 0..len /\ i \in 1..len /\ i <= i + n - 1
        BY <1>1
      <4>2. cut[i - 1] < cut[i]
        BY <1>3, <4>1
      <4>3. cut[i] <= cut[i + n - 1]
        BY <1>3, <4>1, CutsGrow
      <4>4. cut[i - 1] \in Nat /\ cut[i] \in Nat /\ cut[i + n - 1] \in Nat
        BY <1>3, <4>1
      <4>. QED
        BY <4>2, <4>3, <4>4
    <3>. QED
      BY <1>10, <3>2, <3>3
  <2>3. CASE k > i
    <3>1. k \in 0..m /\ k - 1 \in 0..m /\ ~(k - 1 < i) /\ ~(k < i) /\ k \in (i + 1)..m
          /\ k + n - 1 \in 1..len /\ (k - 1) + n - 1 = (k + n - 1) - 1
      BY <1>1, <2>3
    <3>2. cut2[k] = cut[k + n - 1] /\ cut2[k - 1] = cut[(k + n - 1) - 1] /\ new[k] = frags[k + n - 1]
      BY <1>11, <1>12, <3>1
    <3>. QED
      BY <1>3, <3>1, <3>2
  <2>4. k < i \/ k = i \/ k > i
    BY <1>1
  <2>. QED
    BY <2>1, <2>2, <2>3, <2>4
<1>14. cut2[0] = cut[0] /\ cut2[m] = cut[len]
  <2>1. 0 \in 0..m /\ m \in 0..m /\ 0 < i /\ ~(m < i) /\ m + n - 1 = len
    BY <1>1
  <2>. QED
    BY <1>1, <1>12, <2>1
<1>15. Follow(m, new, cut2)
  BY <1>11, <1>12, <1>13 DEF Follow
<1>. QED
  BY <1>14, <1>15 DEF new

\* The fragments cover the rows 0..to-1, one after the other.
Covers(frags, to) ==
    \E n \in Nat : \E cut : Follow(n, frags, cut) /\ cut[0] = 0 /\ cut[n] = to

\* The same, of the rows 0..to-1.
LEMMA OneRound ==
    ASSUME NEW frags, NEW to \in Nat, Covers(frags, to), NEW n \in 1..Len(frags),
           NEW val, Valued(val, 0..(to - 1))
    PROVE  /\ Covers(AmalgamateSmallestRun(frags, n, val), to)
           /\ Len(AmalgamateSmallestRun(frags, n, val)) = Len(frags) - n + 1
<1>1. PICK len \in Nat : \E cut : Follow(len, frags, cut) /\ cut[0] = 0 /\ cut[len] = to
  BY DEF Covers
<1>2. PICK cut : Follow(len, frags, cut) /\ cut[0] = 0 /\ cut[len] = to
  BY <1>1
<1>3. Len(frags) = len
  BY <1>2 DEF Follow
<1>4. Valued(val, cut[0]..(cut[len] - 1)) /\ n \in 1..len
  BY <1>2, <1>3
<1>5. PICK cut2 : /\ Follow(len - n + 1, AmalgamateSmallestRun(frags, n, val), cut2)
                  /\ cut2[0] = cut[0] /\ cut2[len - n + 1] = cut[len]
  BY <1>2, <1>4, AmalgamateIs
<1>6. len - n + 1 \in Nat
  BY <1>4
<1>7. Covers(AmalgamateSmallestRun(frags, n, val), to)
  BY <1>2, <1>5, <1>6 DEF Covers
<1>8. Len(AmalgamateSmallestRun(frags, n, val)) = len - n + 1
  BY <1>5 DEF Follow
<1>. QED
  BY <1>3, <1>7, <1>8

\* Compaction keeps the rows and leaves no more than max fragments.
LEMMA CompactIs ==
    ASSUME NEW frags, NEW to \in Nat, Covers(frags, to), NEW max \in Nat \ {0},
           NEW val, Valued(val, 0..(to - 1))
    PROVE  /\ Covers(Compact(frags, max, val), to)
           /\ Len(Compact(frags, max, val)) \in Nat /\ Len(Compact(frags, max, val)) <= max
<1> DEFINE top == Len(frags)
           MergeN(over) == Min({Max({2, Min({4, over - max})}), over})
           Level(r, prev) == IF r = 0 THEN frags
                             ELSE IF Len(prev) <= max THEN prev
                             ELSE AmalgamateSmallestRun(prev, MergeN(Len(prev)), val)
           Steps(f) == f = [r \in 0..top |-> Level(r, f[r - 1])]
           round == CHOOSE f : Steps(f)
<1>1. top \in Nat /\ top \in 0..top
  BY DEF Covers, Follow
<1>2. \A over \in Nat : over > max => MergeN(over) \in 2..over
  <2> TAKE over \in Nat
  <2> SUFFICES ASSUME over > max PROVE MergeN(over) \in 2..over
    OBVIOUS
  <2> DEFINE a == Min({4, over - max})
             b == Max({2, a})
  <2>1. over - max \in Int
    OBVIOUS
  <2>2. a \in Int
    BY <2>1, MinOfTwo
  <2> HIDE DEF a
  <2>3. b \in Int /\ 2 <= b
    BY <2>2, MaxOfTwo
  <2> HIDE DEF b
  <2>4. Min({b, over}) \in 2..over
    BY <2>3, MinOfTwo
  <2>. QED
    BY <2>4 DEF a, b
<1>3. \A prev : Level(0, prev) = frags
  OBVIOUS
<1>4. \A prev : \A r \in 1..top :
         Level(r, prev) = IF Len(prev) <= max THEN prev
                          ELSE AmalgamateSmallestRun(prev, MergeN(Len(prev)), val)
  OBVIOUS
<1>5. Compact(frags, max, val) = round[top]
  BY Zenon DEF Compact, round, Steps, Level, MergeN, top
<1> HIDE DEF Level, top, MergeN
<1>6. \E f : Steps(f)
  <2> DEFINE Upto(k, f) == f = [r \in 0..k |-> Level(r, f[r - 1])]
             K == {k \in 0..top : \E f : Upto(k, f)}
  <2>1. 0 \in K
    <3> DEFINE f == [r \in 0..0 |-> frags]
    <3>1. f = [r \in 0..0 |-> Level(r, f[r - 1])]
      <4>1. \A r \in 0..0 : Level(r, f[r - 1]) = frags
        BY <1>3
      <4> HIDE DEF f
      <4>2. f = [r \in 0..0 |-> frags]
        BY DEF f
      <4>. QED
        BY <4>1, <4>2
    <3> HIDE DEF f
    <3>2. Upto(0, f)
      BY <3>1
    <3> HIDE DEF Upto
    <3>. QED
      BY <1>1, <3>2
  <2>2. ASSUME NEW k \in 0..(top - 1), k \in K PROVE k + 1 \in K
    <3>1. PICK f : Upto(k, f)
      BY <2>2
    <3> DEFINE g == [r \in 0..(k + 1) |-> IF r = k + 1 THEN Level(k + 1, f[k]) ELSE f[r]]
    <3>2. \A r \in 0..k : f[r] = Level(r, f[r - 1])
      BY <3>1
    <3>3. ASSUME NEW r \in 0..(k + 1) PROVE g[r] = Level(r, g[r - 1])
      <4>1. CASE r = 0
        <5>1. g[r] = f[0] /\ f[0] = Level(0, f[0 - 1])
          BY <1>1, <3>2, <4>1
        <5>. QED
          BY <1>3, <4>1, <5>1
      <4>2. CASE r \in 1..k
        <5>1. g[r] = f[r] /\ g[r - 1] = f[r - 1]
          BY <4>2
        <5>2. f[r] = Level(r, f[r - 1])
          BY <3>2, <4>2
        <5>. QED
          BY <5>1, <5>2
      <4>3. CASE r = k + 1
        <5>1. g[r] = Level(k + 1, f[k]) /\ g[r - 1] = f[k]
          BY <4>3
        <5>. QED
          BY <4>3, <5>1
      <4>4. r = 0 \/ r \in 1..k \/ r = k + 1
        OBVIOUS
      <4>. QED
        BY <4>1, <4>2, <4>3, <4>4
    <3>4. g = [r \in 0..(k + 1) |-> g[r]]
      OBVIOUS
    <3> HIDE DEF g
    <3>5. Upto(k + 1, g)
      BY <3>3, <3>4
    <3>6. k + 1 \in 0..top
      BY <1>1
    <3>. QED
      BY <3>5, <3>6
  <2>3. \A k \in 0..(top - 1) : k \in K => k + 1 \in K
    BY <2>2
  <2> HIDE DEF K
  <2>4. top \in K
    BY <1>1, <2>1, <2>3, UpTo
  <2>. QED
    BY <2>4 DEF K
<1>7. \A r \in 0..top : round[r] = Level(r, round[r - 1])
  <2>1. Steps(round)
    BY <1>6
  <2> HIDE DEF round
  <2>. QED
    BY <2>1
<1> HIDE DEF round
<1> DEFINE Less(r, s) == /\ Covers(s, to) /\ Len(s) \in Nat
                         /\ Len(s) <= max \/ Len(s) + r <= top
           K == {r \in 0..top : Less(r, round[r])}
<1>8. 0 \in K
  <2>1. round[0] = frags /\ 0 \in 0..top
    BY <1>1, <1>3, <1>7
  <2>2. Less(0, frags)
    BY <1>1 DEF top
  <2> HIDE DEF Less
  <2>3. Less(0, round[0])
    BY <2>1, <2>2
  <2>. QED
    BY <2>1, <2>3
<1>9. \A k \in 0..(top - 1) : k \in K => k + 1 \in K
  <2> SUFFICES ASSUME NEW k \in 0..(top - 1), k \in K PROVE k + 1 \in K
    OBVIOUS
  <2> DEFINE s == round[k]
  <2>1. k + 1 \in 1..top /\ k + 1 \in 0..top /\ (k + 1) - 1 = k
    BY <1>1
  <2>2. round[k + 1] = Level(k + 1, s)
    BY <1>7, <2>1
  <2>3. Less(k, s)
    OBVIOUS
  <2> HIDE DEF s
  <2>4. Level(k + 1, s) = IF Len(s) <= max THEN s
                          ELSE AmalgamateSmallestRun(s, MergeN(Len(s)), val)
    BY <1>4, <2>1
  <2>5. CASE Len(s) <= max
    <3>1. Less(k + 1, s)
      BY <2>3, <2>5
    <3>. QED
      BY <2>1, <2>2, <2>4, <2>5, <3>1
  <2>6. CASE ~(Len(s) <= max)
    <3> DEFINE n == MergeN(Len(s))
               t == AmalgamateSmallestRun(s, n, val)
    <3>1. Len(s) \in Nat /\ Len(s) > max /\ Covers(s, to) /\ Len(s) + k <= top
      BY <2>3, <2>6
    <3>2. n \in 2..Len(s)
      BY <1>2, <3>1
    <3> HIDE DEF n
    <3>3. n \in 1..Len(s)
      BY <3>1, <3>2
    <3>4. Covers(t, to) /\ Len(t) = Len(s) - n + 1
      BY <3>1, <3>3, OneRound
    <3>5. round[k + 1] = t
      BY <2>2, <2>4, <2>6 DEF n
    <3> HIDE DEF t
    <3>6. Less(k + 1, t)
      BY <1>1, <3>1, <3>2, <3>4
    <3>. QED
      BY <2>1, <3>5, <3>6
  <2>. QED
    BY <2>5, <2>6
<1> HIDE DEF K
<1>10. top \in K
  BY <1>1, <1>8, <1>9, UpTo
<1> DEFINE last == round[top]
<1>11. Less(top, last)
  BY <1>10 DEF K
<1> HIDE DEF last
<1>12. Len(last) <= max
  BY <1>1, <1>11
<1>. QED
  BY <1>5, <1>11, <1>12 DEF last

-----------------------------------------------------------------------------
(* The sync of a tail                                                      *)

\* A sync leaves no more fragments than this.
FragmentLimit(rows) == LET max == IndexCompactThreshold(rows) IN Max({2 * max, max + 1})

\* The thresholds are numbers.
LEMMA LimitIs ==
    ASSUME NEW rows \in Nat
    PROVE  /\ IndexCompactThreshold(rows) \in Nat \ {0}
           /\ FragmentLimit(rows) \in Nat /\ FragmentLimit(rows) >= 2
           /\ FragmentLimit(rows) >= IndexCompactThreshold(rows)
<1> DEFINE max == IndexCompactThreshold(rows)
           a == Min({CompactMax, rows \div CompactRows})
<1>1. CompactRows \in Nat \ {0} /\ CompactMax \in Nat /\ CompactMin \in Nat \ {0}
  BY IncrementalIndexAssumption
<1>2. rows \div CompactRows \in Int
  BY <1>1
<1>3. a \in Int
  BY <1>1, <1>2, MinOfTwo
<1> HIDE DEF a
<1>4. Max({CompactMin, a}) \in Nat \ {0}
  BY <1>1, <1>3, MaxOfTwo
<1>5. max \in Nat \ {0}
  BY <1>4 DEF IndexCompactThreshold, a
<1>6. FragmentLimit(rows) = Max({2 * max, max + 1})
  BY DEF FragmentLimit
<1> HIDE DEF max
<1>7. 2 * max \in Int /\ max + 1 \in Int /\ 2 * max >= 2 /\ 2 * max >= max
  BY <1>5
<1>8. Max({2 * max, max + 1}) \in Int /\ Max({2 * max, max + 1}) >= 2 /\ Max({2 * max, max + 1}) >= max
  BY <1>5, <1>7, MaxOfTwo
<1>. QED
  BY <1>5, <1>6, <1>8 DEF max

\* Compaction is due when there are more fragments than the limit, not later.
LEMMA MaybeCompactIs ==
    ASSUME NEW frags, NEW to \in Nat, Covers(frags, to), NEW rows \in Nat,
           NEW val, Valued(val, 0..(to - 1))
    PROVE  /\ Covers(MaybeCompact(frags, rows, val), to)
           /\ Len(MaybeCompact(frags, rows, val)) <= FragmentLimit(rows)
<1> DEFINE max == IndexCompactThreshold(rows)
           limit == FragmentLimit(rows)
<1>1. max \in Nat \ {0} /\ limit \in Nat /\ limit >= max
  BY LimitIs
<1>2. MaybeCompact(frags, rows, val) = IF Len(frags) > limit THEN Compact(frags, max, val) ELSE frags
  BY DEF MaybeCompact, FragmentLimit
<1>3. Len(frags) \in Nat
  BY DEF Covers, Follow
<1> HIDE DEF max, limit
<1>4. CASE Len(frags) > limit
  <2>1. /\ Covers(Compact(frags, max, val), to)
        /\ Len(Compact(frags, max, val)) \in Nat /\ Len(Compact(frags, max, val)) <= max
    BY <1>1, CompactIs
  <2>. QED
    BY <1>1, <1>2, <1>4, <2>1 DEF limit
<1>5. CASE ~(Len(frags) > limit)
  BY <1>1, <1>2, <1>3, <1>5 DEF limit
<1>. QED
  BY <1>4, <1>5

\* No fragments cover no rows.
LEMMA NoFragments == Covers(<<>>, 0)
<1> DEFINE cut == [k \in 0..0 |-> 0]
<1>1. cut \in [0..0 -> Nat] /\ cut[0] = 0
  OBVIOUS
<1>2. <<>> \in Seq({}) /\ Len(<<>>) = 0
  OBVIOUS
<1> HIDE DEF cut
<1>3. Follow(0, <<>>, cut)
  BY <1>1, <1>2 DEF Follow
<1>. QED
  BY <1>1, <1>3 DEF Covers

\* A fragment of the rows that follow.
LEMMA AppendCovers ==
    ASSUME NEW frags, NEW from \in Nat, Covers(frags, from), NEW to \in Nat, from < to,
           NEW f, Indexes(f, from, to)
    PROVE  Covers(Append(frags, f), to)
<1>1. PICK n \in Nat : \E cut : Follow(n, frags, cut) /\ cut[0] = 0 /\ cut[n] = from
  BY DEF Covers
<1>2. PICK cut : Follow(n, frags, cut) /\ cut[0] = 0 /\ cut[n] = from
  BY <1>1
<1> DEFINE cut2 == [k \in 0..(n + 1) |-> IF k = n + 1 THEN to ELSE cut[k]]
           new == Append(frags, f)
<1>3. PICK T : frags \in Seq(T)
  BY <1>2 DEF Follow
<1>4. /\ Len(frags) = n /\ cut \in [0..n -> Nat]
      /\ \A i \in 1..n : cut[i - 1] < cut[i] /\ Indexes(frags[i], cut[i - 1], cut[i])
  BY <1>2 DEF Follow
<1>5. /\ new \in Seq(T \cup {f}) /\ Len(new) = n + 1 /\ new[n + 1] = f
      /\ \A i \in 1..n : new[i] = frags[i]
  <2> DEFINE U == T \cup {f}
  <2>1. f \in U /\ \A m \in 1..Len(frags) : frags[m] \in U
    BY <1>3
  <2> HIDE DEF U
  <2>2. frags \in Seq(U)
    BY <1>3, <2>1, SeqWithin
  <2>3. new \in Seq(U) /\ Len(new) = n + 1 /\ new[n + 1] = f
        /\ \A i \in 1..n : new[i] = frags[i]
    BY <1>4, <2>1, <2>2
  <2>. QED
    BY <2>3 DEF U
<1> HIDE DEF new
<1>6. /\ cut2 \in [0..(n + 1) -> Nat] /\ cut2[n + 1] = to
      /\ \A k \in 0..n : cut2[k] = cut[k]
  BY <1>4
<1> HIDE DEF cut2
<1>7. ASSUME NEW i \in 1..(n + 1)
      PROVE  cut2[i - 1] < cut2[i] /\ Indexes(new[i], cut2[i - 1], cut2[i])
  <2>1. CASE i = n + 1
    <3>1. i - 1 = n /\ n \in 0..n
      BY <2>1
    <3>. QED
      BY <1>2, <1>5, <1>6, <2>1, <3>1
  <2>2. CASE i # n + 1
    <3>1. i \in 1..n /\ i - 1 \in 0..n /\ i \in 0..n
      BY <2>2
    <3>. QED
      BY <1>4, <1>5, <1>6, <3>1
  <2>. QED
    BY <2>1, <2>2
<1>8. Follow(n + 1, new, cut2)
  BY <1>5, <1>6, <1>7 DEF Follow
<1>9. cut2[0] = 0 /\ n + 1 \in Nat
  BY <1>2, <1>6
<1>. QED
  BY <1>6, <1>8, <1>9 DEF Covers, new

\* Rows divided by a scale are numbers.
LEMMA ValIs ==
    ASSUME NEW rows \in Seq(Points), NEW s \in Scales
    PROVE  Valued(Val(rows, s), 0..(Len(rows) - 1))
<1>1. Points \subseteq Nat /\ Scales \subseteq Nat \ {0}
  BY IncrementalIndexAssumption
<1>2. ASSUME NEW r \in 0..(Len(rows) - 1) PROVE Val(rows, s)[r] \in Int
  <2>1. r + 1 \in 1..Len(rows)
    OBVIOUS
  <2>2. rows[r + 1] \in Int /\ s \in Nat \ {0}
    <3>1. rows[r + 1] \in Points
      BY <2>1
    <3>2. rows[r + 1] \in Nat
      BY <1>1, <3>1
    <3>3. s \in Nat \ {0}
      BY <1>1
    <3>. QED
      BY <3>2, <3>3
  <2>3. Val(rows, s)[r] = rows[r + 1] \div s
    BY DEF Val
  <2>. QED
    BY <2>2, <2>3
<1>. QED
  BY <1>2 DEF Valued

\* Whatever a sync builds, the fragments then cover all rows and are few.
LEMMA SyncedIs ==
    ASSUME NEW rows \in Seq(Points), NEW s \in Scales, NEW from \in Nat, from < Len(rows),
           NEW noted \in SUBSET (from..(Len(rows) - 1)), NEW frags, Covers(frags, from),
           NEW new \in Synced(frags, from, noted, rows, s)
    PROVE  Covers(new, Len(rows)) /\ Len(new) <= FragmentLimit(Len(rows))
<1> DEFINE val == Val(rows, s)
           to == Len(rows)
<1>1. PICK f \in BuildSpan(from, to, noted, val) : new = MaybeCompact(Append(frags, f), to, val)
  BY DEF Synced
<1>2. Valued(val, 0..(to - 1)) /\ to \in Nat
  BY ValIs
<1>3. Valued(val, from..(to - 1))
  BY <1>2 DEF Valued
<1> HIDE DEF val, to
<1>4. from < to /\ noted \in SUBSET (from..(to - 1))
  BY DEF to
<1>5. Indexes(f, from, to)
  BY <1>1, <1>2, <1>3, <1>4, BuildSpanIs
<1> DEFINE app == Append(frags, f)
<1>6. Covers(app, to)
  BY <1>2, <1>4, <1>5, AppendCovers
<1> HIDE DEF app
<1>7. Covers(MaybeCompact(app, to, val), to) /\ Len(MaybeCompact(app, to, val)) <= FragmentLimit(to)
  BY <1>2, <1>6, MaybeCompactIs
<1>. QED
  BY <1>1, <1>7 DEF app, to

\* One fragment for all, when there are any.
LEMMA MergedCovers ==
    ASSUME NEW frags, NEW to \in Nat, Covers(frags, to), frags # <<>>,
           NEW val, Valued(val, 0..(to - 1))
    PROVE  Covers(<<ConcatMerge(frags, val)>>, to) /\ Len(<<ConcatMerge(frags, val)>>) = 1
<1>1. PICK n \in Nat : \E cut : Follow(n, frags, cut) /\ cut[0] = 0 /\ cut[n] = to
  BY DEF Covers
<1>2. PICK cut : Follow(n, frags, cut) /\ cut[0] = 0 /\ cut[n] = to
  BY <1>1
<1>3. Len(frags) = n /\ n # 0
  <2>1. PICK T : frags \in Seq(T)
    BY <1>2 DEF Follow
  <2>2. Len(frags) = n
    BY <1>2 DEF Follow
  <2>. QED
    BY <2>1, <2>2
<1>4. cut \in [0..n -> Nat] /\ \A i \in 1..n : cut[i - 1] < cut[i]
  BY <1>2 DEF Follow
<1>5. 0 < to
  <2>1. 1 \in 1..n /\ 0 \in 0..n /\ 1 \in 0..n /\ n \in 0..n /\ 1 - 1 = 0 /\ 1 <= n
    BY <1>3
  <2>2. cut[0] < cut[1]
    BY <1>4, <2>1
  <2>3. cut[1] <= cut[n]
    BY <1>4, <2>1, CutsGrow
  <2>4. cut[1] \in Nat
    BY <1>4, <2>1
  <2>. QED
    BY <1>2, <2>2, <2>3, <2>4
<1> DEFINE f == ConcatMerge(frags, val)
<1>6. Indexes(f, 0, to)
  <2>1. n \in Nat \ {0} /\ Valued(val, cut[0]..(cut[n] - 1))
    BY <1>2, <1>3
  <2>2. Indexes(ConcatMerge(frags, val), cut[0], cut[n])
    BY <1>2, <2>1, MergeIs
  <2>. QED
    BY <1>2, <2>2
<1> HIDE DEF f
<1>7. Covers(Append(<<>>, f), to)
  BY <1>5, <1>6, NoFragments, AppendCovers
<1>8. Append(<<>>, f) = <<f>> /\ Len(<<f>>) = 1
  OBVIOUS
<1>. QED
  BY <1>7, <1>8 DEF f

-----------------------------------------------------------------------------
(* The steps                                                               *)

\* The rows that wait in the pending centroid are rows of the tail.
IndexInv ==
    /\ x \in Seq(Points) /\ scale \in Scales /\ defer \in BOOLEAN
    /\ indexed_rows \in 0..Len(x)
    /\ pending \in SUBSET (indexed_rows..(Len(x) - 1))
    /\ pending_unindexed = Len(x) - indexed_rows
    /\ Covers(indices, indexed_rows)
    /\ Len(indices) <= FragmentLimit(indexed_rows)

\* A sync of the tail keeps the invariant, whatever rows there are by then.
LEMMA EnsureSyncKeeps ==
    ASSUME NEW frags, NEW from \in Nat, NEW noted, NEW rows \in Seq(Points), NEW s \in Scales,
           from <= Len(rows), noted \in SUBSET (from..(Len(rows) - 1)),
           Covers(frags, from), Len(frags) <= FragmentLimit(from),
           EnsureSync(frags, from, noted, rows, s),
           x' = rows, scale' = s, defer' \in BOOLEAN
    PROVE  IndexInv'
<1>1. indexed_rows' = Len(rows) /\ pending_unindexed' = 0 /\ Len(rows) \in Nat
  BY DEF EnsureSync
<1>2. /\ pending' \in SUBSET (indexed_rows'..(Len(x') - 1))
      /\ Covers(indices', indexed_rows')
      /\ Len(indices') <= FragmentLimit(indexed_rows')
  <2>1. CASE from >= Len(rows)
    <3>1. from = Len(rows) /\ indices' = frags /\ pending' = noted
      BY <1>1, <2>1 DEF EnsureSync
    <3>. QED
      BY <1>1, <3>1
  <2>2. CASE from < Len(rows)
    <3>1. indices' \in Synced(frags, from, noted, rows, s) /\ pending' = {}
      BY <1>1, <2>2 DEF EnsureSync
    <3>2. Covers(indices', Len(rows)) /\ Len(indices') <= FragmentLimit(Len(rows))
      BY <2>2, <3>1, SyncedIs
    <3>. QED
      BY <1>1, <3>1, <3>2
  <2>. QED
    BY <1>1, <2>1, <2>2
<1>3. indexed_rows' \in 0..Len(x') /\ pending_unindexed' = Len(x') - indexed_rows'
  BY <1>1
<1>. QED
  BY <1>2, <1>3 DEF IndexInv

\* No fragments and one fragment are within every limit.
LEMMA NothingFits ==
    ASSUME NEW rows \in Nat
    PROVE  Len(<<>>) <= FragmentLimit(rows) /\ 1 <= FragmentLimit(rows)
<1>1. FragmentLimit(rows) \in Nat /\ FragmentLimit(rows) >= 2
  BY LimitIs
<1>2. Len(<<>>) = 0
  OBVIOUS
<1>. QED
  BY <1>1, <1>2

\* The invariant holds for a backend that was just opened.
LEMMA InitKeeps == Init => IndexInv
<1> SUFFICES ASSUME Init PROVE IndexInv
  OBVIOUS
<1>1. /\ x = <<>> /\ scale \in Scales /\ defer \in BOOLEAN /\ indices = <<>>
      /\ indexed_rows = 0 /\ pending = {} /\ pending_unindexed = 0
  BY DEF Init
<1>2. x \in Seq(Points) /\ Len(x) = 0
  BY <1>1
<1>. QED
  BY <1>1, <1>2, NoFragments, NothingFits DEF IndexInv

\* An append, with the sync that it may trigger.
LEMMA AppendKeeps ==
    ASSUME IndexInv, NEW n \in 1..MaxBatch, NEW batch \in [1..n -> Points], AppendRows(batch)
    PROVE  IndexInv'
<1> DEFINE rows == x \o batch
           noted == pending \cup Len(x)..(Len(rows) - 1)
           unindexed == pending_unindexed + Len(batch)
           due == \/ unindexed >= HardThreshold
                  \/ ~defer /\ unindexed >= SoftThreshold
<1>1. MaxBatch \in Nat
  BY IncrementalIndexAssumption
<1>2. batch \in Seq(Points) /\ Len(batch) = n /\ n \in Nat
  BY <1>1
<1>3. x \in Seq(Points) /\ Len(x) \in Nat
  BY DEF IndexInv
<1>4. rows \in Seq(Points) /\ Len(rows) = Len(x) + n
  BY <1>2, <1>3
<1>5. /\ x' = rows /\ scale' = scale /\ defer' = defer
      /\ IF due THEN EnsureSync(indices, indexed_rows, noted, rows, scale)
         ELSE /\ pending' = noted /\ pending_unindexed' = unindexed
              /\ UNCHANGED <<indices, indexed_rows>>
  BY DEF AppendRows
<1> HIDE DEF rows, noted, unindexed, due
<1>6. indexed_rows \in Nat /\ indexed_rows <= Len(rows)
  BY <1>2, <1>3, <1>4 DEF IndexInv
<1>7. noted \in SUBSET (indexed_rows..(Len(rows) - 1))
  <2>1. pending \in SUBSET (indexed_rows..(Len(x) - 1)) /\ indexed_rows <= Len(x)
    BY DEF IndexInv
  <2>2. \A r \in noted : r \in indexed_rows..(Len(x) - 1) \/ r \in Len(x)..(Len(rows) - 1)
    BY <2>1 DEF noted
  <2> HIDE DEF noted
  <2>3. \A r \in noted : r \in indexed_rows..(Len(rows) - 1)
    <3> TAKE r \in noted
    <3>1. r \in indexed_rows..(Len(x) - 1) \/ r \in Len(x)..(Len(rows) - 1)
      BY <2>2
    <3>. QED
      BY <1>2, <1>3, <1>4, <1>6, <2>1, <3>1
  <2>. QED
    BY <2>3
<1>8. CASE due
  <2>1. EnsureSync(indices, indexed_rows, noted, rows, scale)
    BY <1>5, <1>8
  <2>. QED
    BY <1>4, <1>5, <1>6, <1>7, <2>1, EnsureSyncKeeps DEF IndexInv
<1>9. CASE ~due
  <2>1. /\ pending' = noted /\ pending_unindexed' = unindexed
        /\ indices' = indices /\ indexed_rows' = indexed_rows
    BY <1>5, <1>9
  <2>2. unindexed = Len(rows) - indexed_rows
    BY <1>2, <1>3, <1>4, <1>6 DEF IndexInv, unindexed
  <2>3. indexed_rows' \in 0..Len(x') /\ Len(x') \in Nat
    BY <1>4, <1>5, <1>6, <2>1
  <2>4. x' \in Seq(Points) /\ scale' \in Scales /\ defer' \in BOOLEAN
    BY <1>4, <1>5 DEF IndexInv
  <2>5. Covers(indices', indexed_rows') /\ Len(indices') <= FragmentLimit(indexed_rows')
    BY <2>1 DEF IndexInv
  <2>6. /\ pending' \in SUBSET (indexed_rows'..(Len(x') - 1))
        /\ pending_unindexed' = Len(x') - indexed_rows'
    BY <1>5, <1>7, <2>1, <2>2
  <2>. QED
    BY <2>3, <2>4, <2>5, <2>6 DEF IndexInv
<1>. QED
  BY <1>8, <1>9

\* A sync on demand: another scale starts the index over.
LEMMA SyncKeeps ==
    ASSUME IndexInv, NEW s \in Scales, EnsureIndexSync(s)
    PROVE  IndexInv'
<1>1. scale' = s /\ x' = x /\ defer' = defer
  BY DEF EnsureIndexSync
<1>2. x \in Seq(Points) /\ Len(x) \in Nat
  BY DEF IndexInv
<1>3. CASE s = scale
  <2>1. EnsureSync(indices, indexed_rows, pending, x, s)
    BY <1>3 DEF EnsureIndexSync
  <2>2. /\ indexed_rows \in Nat /\ indexed_rows <= Len(x)
        /\ pending \in SUBSET (indexed_rows..(Len(x) - 1))
        /\ Covers(indices, indexed_rows) /\ Len(indices) <= FragmentLimit(indexed_rows)
    BY <1>2 DEF IndexInv
  <2>3. defer' \in BOOLEAN
    BY <1>1 DEF IndexInv
  <2>. QED
    BY <1>1, <1>2, <2>1, <2>2, <2>3, EnsureSyncKeeps
<1>4. CASE s # scale
  <2>1. EnsureSync(<<>>, 0, {}, x, s)
    BY <1>4 DEF EnsureIndexSync
  <2>2. 0 \in Nat /\ 0 <= Len(x) /\ {} \in SUBSET (0..(Len(x) - 1))
    BY <1>2
  <2>3. defer' \in BOOLEAN
    BY <1>1 DEF IndexInv
  <2>. QED
    BY <1>1, <1>2, <2>1, <2>2, <2>3, NoFragments, NothingFits, EnsureSyncKeeps
<1>. QED
  BY <1>3, <1>4

\* An index that is dropped leaves all rows to the tail.
LEMMA StaleKeeps == IndexInv /\ MarkIndexStale => IndexInv'
<1> SUFFICES ASSUME IndexInv, MarkIndexStale PROVE IndexInv'
  OBVIOUS
<1>1. /\ indices' = <<>> /\ indexed_rows' = 0 /\ pending' = {}
      /\ pending_unindexed' = Len(x) /\ x' = x /\ scale' = scale /\ defer' = defer
  BY DEF MarkIndexStale
<1>2. x \in Seq(Points) /\ Len(x) \in Nat
  BY DEF IndexInv
<1>3. Len(indices') <= FragmentLimit(indexed_rows') /\ Covers(indices', indexed_rows')
  BY <1>1, NoFragments, NothingFits
<1>4. indexed_rows' \in 0..Len(x') /\ pending_unindexed' = Len(x') - indexed_rows'
  BY <1>1, <1>2
<1>. QED
  BY <1>1, <1>3, <1>4 DEF IndexInv

\* A hard persist and the reopening: one fragment, or none without rows.
LEMMA PersistKeeps == IndexInv /\ PersistAndReopen => IndexInv'
<1> SUFFICES ASSUME IndexInv, PersistAndReopen PROVE IndexInv'
  OBVIOUS
<1> DEFINE to == Len(x)
           val == Val(x, scale)
<1>1. /\ indexed_rows' = to /\ pending' = {} /\ pending_unindexed' = 0
      /\ x' = x /\ scale' = scale /\ defer' = TRUE
      /\ IF indexed_rows >= to THEN indices' = IF indices = <<>> THEN <<>>
                                               ELSE <<ConcatMerge(indices, val)>>
         ELSE \E frags \in Synced(indices, indexed_rows, pending, x, scale) :
                  indices' = <<ConcatMerge(frags, val)>>
  BY DEF PersistAndReopen
<1>2. /\ x \in Seq(Points) /\ scale \in Scales /\ to \in Nat /\ indexed_rows \in 0..to
      /\ pending \in SUBSET (indexed_rows..(to - 1)) /\ Covers(indices, indexed_rows)
  BY DEF IndexInv
<1>3. Valued(val, 0..(to - 1))
  BY <1>2, ValIs
<1>4. Len(<<>>) <= FragmentLimit(to) /\ 1 <= FragmentLimit(to)
  BY <1>2, NothingFits
<1> HIDE DEF val
<1>5. Covers(indices', to) /\ Len(indices') <= FragmentLimit(to)
  <2>1. CASE indexed_rows >= to /\ indices = <<>>
    <3>1. indices' = <<>> /\ indexed_rows = to
      BY <1>1, <1>2, <2>1
    <3>. QED
      BY <1>2, <1>4, <2>1, <3>1
  <2>2. CASE indexed_rows >= to /\ indices # <<>>
    <3>1. indices' = <<ConcatMerge(indices, val)>> /\ indexed_rows = to
      BY <1>1, <1>2, <2>2
    <3>2. Covers(indices, to)
      BY <1>2, <3>1
    <3> HIDE DEF to
    <3>3. Covers(<<ConcatMerge(indices, val)>>, to) /\ Len(<<ConcatMerge(indices, val)>>) = 1
      BY <1>2, <1>3, <2>2, <3>2, MergedCovers
    <3>. QED
      BY <1>4, <3>1, <3>3
  <2>3. CASE indexed_rows < to
    <3>1. PICK frags \in Synced(indices, indexed_rows, pending, x, scale) :
              indices' = <<ConcatMerge(frags, val)>>
      BY <1>1, <1>2, <2>3
    <3>2. Covers(frags, to)
      BY <1>2, <2>3, SyncedIs
    <3>3. frags # <<>>
      <4>1. SUFFICES ASSUME frags = <<>> PROVE FALSE
        OBVIOUS
      <4>2. PICK n \in Nat : \E cut : Follow(n, frags, cut) /\ cut[0] = 0 /\ cut[n] = to
        BY <3>2 DEF Covers
      <4>3. n = 0 /\ to = 0
        BY <4>1, <4>2 DEF Follow
      <4>. QED
        BY <1>2, <2>3, <4>3
    <3> HIDE DEF to
    <3>4. Covers(<<ConcatMerge(frags, val)>>, to) /\ Len(<<ConcatMerge(frags, val)>>) = 1
      BY <1>2, <1>3, <3>2, <3>3, MergedCovers
    <3>. QED
      BY <1>4, <3>1, <3>4
  <2>. QED
    BY <1>2, <2>1, <2>2, <2>3
<1>6. indexed_rows' \in 0..Len(x') /\ pending_unindexed' = Len(x') - indexed_rows'
  BY <1>1, <1>2
<1>. QED
  BY <1>1, <1>2, <1>5, <1>6 DEF IndexInv

\* Every step keeps the invariant; a search changes only the cache.
LEMMA StepKeeps == IndexInv /\ [Next]_vars => IndexInv'
<1> SUFFICES ASSUME IndexInv, [Next]_vars PROVE IndexInv'
  OBVIOUS
<1>1. ASSUME NEW n \in 1..MaxBatch, NEW batch \in [1..n -> Points], AppendRows(batch)
      PROVE  IndexInv'
  BY <1>1, AppendKeeps
<1>2. ASSUME NEW s \in Scales, EnsureIndexSync(s) PROVE IndexInv'
  BY <1>2, SyncKeeps
<1>3. CASE MarkIndexStale
  BY <1>3, StaleKeeps
<1>4. CASE Search
  BY <1>4 DEF Search, IndexInv
<1>5. CASE PersistAndReopen
  BY <1>5, PersistKeeps
<1>6. CASE UNCHANGED vars
  BY <1>6 DEF vars, IndexInv
<1>. QED
  BY <1>1, <1>2, <1>3, <1>4, <1>5, <1>6 DEF Next

\* The inductive invariant: at every time the fragments cover the indexed prefix
\* one after the other, with pages as they should be, there are no more of them
\* than compaction allows, and the pending centroid sums up rows of the tail.
THEOREM Invariance == Spec => []IndexInv
BY InitKeeps, StepKeeps, PTL DEF Spec

-----------------------------------------------------------------------------
(* What the invariant gives                                                *)

\* The fields of the handle have the values they may have.
LEMMA TypeFromInv == IndexInv => TypeOK
<1> SUFFICES ASSUME IndexInv PROVE TypeOK
  OBVIOUS
<1>1. PICK n \in Nat : \E cut : Follow(n, indices, cut) /\ cut[0] = 0 /\ cut[n] = indexed_rows
  BY DEF IndexInv, Covers
<1>2. PICK cut : Follow(n, indices, cut) /\ cut[0] = 0 /\ cut[n] = indexed_rows
  BY <1>1
<1>3. Len(x) \in Nat /\ indexed_rows \in 0..Len(x)
  BY DEF IndexInv
<1>4. ASSUME NEW i \in DOMAIN indices PROVE indices[i].rows \in 1..Len(x)
  <2>1. i \in 1..n /\ cut \in [0..n -> Nat] /\ \A j \in 1..n : cut[j - 1] < cut[j]
    BY <1>2 DEF Follow
  <2>2. i - 1 \in 0..n /\ i \in 0..n /\ n \in 0..n /\ i <= n
    BY <2>1
  <2>3. cut[i - 1] < cut[i] /\ cut[i] <= cut[n]
    BY <2>1, <2>2, CutsGrow
  <2>4. indices[i].rows = cut[i] - cut[i - 1]
    BY <1>2, <2>1 DEF Follow, Indexes
  <2>5. cut[i] \in Nat /\ cut[i - 1] \in Nat
    BY <2>1, <2>2
  <2>. QED
    BY <1>2, <1>3, <2>3, <2>4, <2>5
<1>5. pending \subseteq 0..(Len(x) - 1)
  BY <1>3 DEF IndexInv
<1>. QED
  BY <1>4, <1>5 DEF IndexInv, TypeOK

\* Few fragments are a part of the invariant.
LEMMA BoundFromInv == IndexInv => FragmentsBounded
BY DEF IndexInv, FragmentsBounded, FragmentLimit

\* Leaves placed by their own rows are a part of good pages.
LEMMA PlacedFromInv == IndexInv => PlacedByOwnRows
<1> SUFFICES ASSUME IndexInv, NEW i \in DOMAIN indices, NEW p \in ToSet(indices[i].pages), IsLeaf(p)
             PROVE  p.of # {} /\ p.of \subseteq ToSet(p.ids)
  BY DEF PlacedByOwnRows
<1>1. PICK n \in Nat : \E cut : Follow(n, indices, cut) /\ cut[0] = 0 /\ cut[n] = indexed_rows
  BY DEF IndexInv, Covers
<1>2. PICK cut : Follow(n, indices, cut) /\ cut[0] = 0 /\ cut[n] = indexed_rows
  BY <1>1
<1>3. Indexes(indices[i], cut[i - 1], cut[i])
  BY <1>2 DEF Follow
<1> DEFINE pages == indices[i].pages
<1>4. pages \in Seq(PageType) /\ \A a \in 1..Len(pages) : GoodPage(pages[a], IdsOf(pages))
  BY <1>3 DEF Indexes, GoodPages
<1>5. PICK a \in 1..Len(pages) : p = pages[a]
  BY <1>4, ToSetIs
<1>6. GoodPage(p, IdsOf(pages))
  BY <1>4, <1>5
<1>. QED
  BY <1>6 DEF GoodPage

\* Good pages and cuts are well-formed fragments; the cuts are the sums of the
\* rows that the fragments count.
LEMMA WellFormedFromInv == IndexInv => FragmentsWellFormed
<1> SUFFICES ASSUME IndexInv PROVE FragmentsWellFormed
  OBVIOUS
<1> DEFINE Rows(f) == UNION {ToSet(f.pages[i].ids) : i \in DOMAIN f.pages}
           Start(i) == Sums([j \in DOMAIN indices |-> indices[j].rows])[i - 1]
           Good(f, from, to) ==
               /\ Rows(f) = from..(to - 1)
               /\ \A a, b \in DOMAIN f.pages : f.pages[a].id = f.pages[b].id => a = b
               /\ \A a, b \in DOMAIN f.pages :
                      \A m \in DOMAIN f.pages[a].ids, n \in DOMAIN f.pages[b].ids :
                          f.pages[a].ids[m] = f.pages[b].ids[n] => a = b /\ m = n
               /\ f.root \in PageIds(f)
               /\ \A p \in ToSet(f.pages) : ToSet(p.kids) \subseteq PageIds(f)
               /\ \A p \in DOMAIN f.skip : ToSet(f.skip[p]) \subseteq PageIds(f) \ {p}
<1>1. PICK n \in Nat : \E cut : Follow(n, indices, cut) /\ cut[0] = 0 /\ cut[n] = indexed_rows
  BY DEF IndexInv, Covers
<1>2. PICK cut : Follow(n, indices, cut) /\ cut[0] = 0 /\ cut[n] = indexed_rows
  BY <1>1
<1>3. /\ DOMAIN indices = 1..n /\ Len(indices) = n /\ cut \in [0..n -> Nat]
      /\ \A i \in 1..n : Indexes(indices[i], cut[i - 1], cut[i])
  BY <1>2 DEF Follow
<1>4. \A i \in 1..(n + 1) : Start(i) = cut[i - 1]
  <2> TAKE i \in 1..(n + 1)
  <2>1. i - 1 \in 0..n
    OBVIOUS
  <2>2. cut[i - 1] \in Nat
    BY <1>3, <2>1
  <2>. QED
    BY <1>2, <2>1, <2>2, RowsAddUp
<1> HIDE DEF Start
<1>5. ASSUME NEW f, NEW from \in Nat, NEW to \in Nat, Indexes(f, from, to)
      PROVE  Good(f, from, to)
  <2> DEFINE pages == f.pages
  <2>1. GoodPages(pages, from..(to - 1)) /\ f.root \in IdsOf(pages) /\ GoodSkip(f.skip, pages)
    BY <1>5 DEF Indexes
  <2>2. /\ pages \in Seq(PageType) /\ DOMAIN pages = 1..Len(pages)
        /\ \A a \in 1..Len(pages) : GoodPage(pages[a], IdsOf(pages))
        /\ \A a, b \in 1..Len(pages) : pages[a].id = pages[b].id => a = b
        /\ ListedOnce(pages) /\ RowsOf(pages) = from..(to - 1)
    BY <2>1 DEF GoodPages
  <2>3. PageIds(f) = IdsOf(pages)
    BY <2>2 DEF PageIds, IdsOf
  <2>4. \A a \in 1..Len(pages) : /\ pages[a].ids \in Seq(Nat) /\ pages[a].kids \in Seq(Nat)
                                 /\ DOMAIN pages[a].ids = 1..Len(pages[a].ids)
    <3> TAKE a \in 1..Len(pages)
    <3>1. pages[a] \in PageType
      BY <2>2 DEF GoodPage
    <3>2. pages[a].ids \in Seq(Nat) /\ pages[a].kids \in Seq(Nat)
      BY <3>1 DEF PageType
    <3>. QED
      BY <3>2
  <2>5. Rows(f) = from..(to - 1)
    BY <2>2 DEF RowsOf
  <2>6. \A a, b \in DOMAIN pages : \A m \in DOMAIN pages[a].ids, k \in DOMAIN pages[b].ids :
            pages[a].ids[m] = pages[b].ids[k] => a = b /\ m = k
    <3>1. ListedOnce(pages) /\ DOMAIN pages = 1..Len(pages)
      BY <2>2
    <3>2. \A a \in 1..Len(pages) : DOMAIN pages[a].ids = 1..Len(pages[a].ids)
      BY <2>4
    <3> HIDE DEF pages
    <3> SUFFICES ASSUME NEW a \in 1..Len(pages), NEW b \in 1..Len(pages),
                        NEW m \in 1..Len(pages[a].ids), NEW k \in 1..Len(pages[b].ids),
                        pages[a].ids[m] = pages[b].ids[k]
                 PROVE  a = b /\ m = k
      BY <3>1, <3>2, SMTT(30)
    <3>. QED
      BY <3>1 DEF ListedOnce
  <2>7. \A p \in ToSet(pages) : ToSet(p.kids) \subseteq IdsOf(pages)
    <3> TAKE p \in ToSet(pages)
    <3>1. PICK a \in 1..Len(pages) : p = pages[a]
      BY <2>2, ToSetIs
    <3>2. p.kids \in Seq(Nat) /\ \A m \in 1..Len(p.kids) : p.kids[m] \in IdsOf(pages)
      BY <2>2, <2>4, <3>1 DEF GoodPage
    <3>3. ToSet(p.kids) = {p.kids[m] : m \in 1..Len(p.kids)}
      BY <3>2, ToSetIs
    <3>. QED
      BY <3>2, <3>3
  <2>8. \A p \in DOMAIN f.skip : ToSet(f.skip[p]) \subseteq IdsOf(pages) \ {p}
    <3> TAKE p \in DOMAIN f.skip
    <3>1. /\ f.skip[p] \in Seq(Nat)
          /\ \A m \in 1..Len(f.skip[p]) : f.skip[p][m] \in IdsOf(pages) \ {p}
      BY <2>1 DEF GoodSkip
    <3>2. ToSet(f.skip[p]) = {f.skip[p][m] : m \in 1..Len(f.skip[p])}
      BY <3>1, ToSetIs
    <3>. QED
      BY <3>1, <3>2
  <2>. QED
    BY <2>1, <2>2, <2>3, <2>5, <2>6, <2>7, <2>8
<1> HIDE DEF Good
<1>6. Start(Len(indices) + 1) = indexed_rows
  <2>1. n + 1 \in 1..(n + 1) /\ (n + 1) - 1 = n
    OBVIOUS
  <2>. QED
    BY <1>2, <1>3, <1>4, <2>1
<1>7. \A i \in DOMAIN indices : Good(indices[i], Start(i), Start(i + 1))
  <2> TAKE i \in DOMAIN indices
  <2>1. i \in 1..(n + 1) /\ i + 1 \in 1..(n + 1) /\ (i + 1) - 1 = i
    BY <1>3
  <2>2. Start(i) = cut[i - 1] /\ Start(i + 1) = cut[i]
    BY <1>4, <2>1
  <2>3. cut[i - 1] \in Nat /\ cut[i] \in Nat /\ Indexes(indices[i], cut[i - 1], cut[i])
    BY <1>3
  <2>. QED
    BY <1>5, <2>2, <2>3
<1>. QED
  BY <1>6, <1>7, Zenon DEF FragmentsWellFormed, Good, Start, Rows

-----------------------------------------------------------------------------
(* Candidates in order                                                     *)

\* A candidate: a row and its distance.
Candidate == Nat \X Nat

\* The order of candidates is total and strict.
LEMMA BetterIs ==
    /\ \A a \in Candidate : ~Better(a, a)
    /\ \A a, b \in Candidate : a # b => Better(a, b) \/ Better(b, a)
    /\ \A a, b, c \in Candidate : Better(a, b) /\ Better(b, c) => Better(a, c)
<1>1. \A a \in Candidate : a[1] \in Nat /\ a[2] \in Nat /\ a = <<a[1], a[2]>>
  BY DEF Candidate
<1>2. \A a \in Candidate : ~Better(a, a)
  BY <1>1 DEF Better
<1>3. \A a, b \in Candidate : a # b => Better(a, b) \/ Better(b, a)
  <2> SUFFICES ASSUME NEW a \in Candidate, NEW b \in Candidate, a # b
               PROVE  Better(a, b) \/ Better(b, a)
    OBVIOUS
  <2>1. a[1] # b[1] \/ a[2] # b[2]
    BY <1>1
  <2>. QED
    BY <1>1, <2>1 DEF Better
<1>4. \A a, b, c \in Candidate : Better(a, b) /\ Better(b, c) => Better(a, c)
  BY <1>1 DEF Better
<1>. QED
  BY <1>2, <1>3, <1>4

\* What TopK does: it sorts by a permutation of the places, and cuts.
LEMMA TopKIs ==
    ASSUME NEW s \in Seq(Candidate)
    PROVE  \E order \in [1..Len(s) -> 1..Len(s)] :
              /\ \A k \in Nat : TopK(s, k) = Take([m \in 1..Len(s) |-> s[order[m]]], k)
              /\ \A m, n \in 1..Len(s) : m < n => \/ Better(s[order[m]], s[order[n]])
                                                  \/ s[order[m]] = s[order[n]]
              /\ \A m, n \in 1..Len(s) : order[m] = order[n] => m = n
              /\ \A p \in 1..Len(s) : \E m \in 1..Len(s) : order[m] = p
<1> DEFINE D == DOMAIN s
           ahead == [i \in D |-> {j \in D : Better(s[j], s[i]) \/ (s[j] = s[i] /\ j < i)}]
           order == Ordered(D, ahead)
<1>1. D = 1..Len(s) /\ Len(s) \in Nat
  OBVIOUS
<1>2. \A k \in Nat : TopK(s, k) = Take([i \in D |-> s[order[i]]], k)
  BY DEF TopK
<1> HIDE DEF D
<1>3. IsFiniteSet(D) /\ Cardinality(D) = Len(s)
  <2>1. IsFiniteSet(1..Len(s)) /\ Cardinality(1..Len(s)) = Len(s)
    BY <1>1, IntervalIs
  <2>. QED
    BY <1>1, <2>1
<1>4. \A i, j \in D : j \in ahead[i] <=> (Better(s[j], s[i]) \/ (s[j] = s[i] /\ j < i))
  OBVIOUS
<1>5. ahead \in [D -> SUBSET D]
  OBVIOUS
<1> HIDE DEF ahead
<1>6. \A i \in D : i \in Int /\ s[i] \in Candidate
  BY <1>1
<1>7. IsOrder(D, ahead)
  <2>1. \A e \in D : e \notin ahead[e]
    BY <1>4, <1>6, BetterIs
  <2>2. \A d, e \in D : d # e => d \in ahead[e] \/ e \in ahead[d]
    <3> SUFFICES ASSUME NEW d \in D, NEW e \in D, d # e PROVE d \in ahead[e] \/ e \in ahead[d]
      OBVIOUS
    <3>1. d < e \/ e < d
      BY <1>6
    <3>2. s[d] = s[e] \/ Better(s[d], s[e]) \/ Better(s[e], s[d])
      BY <1>6, BetterIs
    <3>. QED
      BY <1>4, <3>1, <3>2
  <2>3. ASSUME NEW d \in D, NEW e \in D, d \in ahead[e], NEW c \in ahead[d] PROVE c \in ahead[e]
    <3>1. c \in D
      BY <1>5
    <3>2. s[c] \in Candidate /\ s[d] \in Candidate /\ s[e] \in Candidate
      BY <1>6, <3>1
    <3>3. Better(s[c], s[d]) \/ (s[c] = s[d] /\ c < d)
      BY <1>4, <3>1
    <3>4. Better(s[d], s[e]) \/ (s[d] = s[e] /\ d < e)
      BY <1>4, <2>3
    <3>5. c < d /\ d < e => c < e
      BY <1>6, <3>1
    <3>6. Better(s[c], s[e]) \/ (s[c] = s[e] /\ c < e)
      BY <3>2, <3>3, <3>4, <3>5, BetterIs
    <3>. QED
      BY <1>4, <3>1, <3>6
  <2>. QED
    BY <1>3, <1>5, <2>1, <2>2, <2>3 DEF IsOrder
<1>8. /\ order \in [1..Len(s) -> D]
      /\ \A m, n \in 1..Len(s) : m < n <=> order[m] \in ahead[order[n]]
      /\ \A m, n \in 1..Len(s) : order[m] = order[n] => m = n
      /\ \A e \in D : \E m \in 1..Len(s) : order[m] = e
  BY <1>3, <1>7, OrderedIs
<1> HIDE DEF order
<1>9. \A m, n \in 1..Len(s) : m < n => Better(s[order[m]], s[order[n]]) \/ s[order[m]] = s[order[n]]
  BY <1>4, <1>8
<1>. QED
  BY <1>1, <1>2, <1>8, <1>9

\* Every element of a top k is one of the candidates.
LEMMA TopKOf ==
    ASSUME NEW T \in SUBSET Candidate, NEW s \in Seq(T), NEW k \in Nat
    PROVE  TopK(s, k) \in Seq(T) /\ Len(TopK(s, k)) = IF k <= Len(s) THEN k ELSE Len(s)
<1>1. s \in Seq(Candidate) /\ Len(s) \in Nat /\ \A m \in 1..Len(s) : s[m] \in T
  OBVIOUS
<1>2. PICK order \in [1..Len(s) -> 1..Len(s)] :
              TopK(s, k) = Take([m \in 1..Len(s) |-> s[order[m]]], k)
  BY <1>1, TopKIs, ZenonT(90)
<1> DEFINE sorted == [m \in 1..Len(s) |-> s[order[m]]]
<1>3. sorted \in [1..Len(s) -> T]
  BY <1>1
<1> HIDE DEF sorted
<1>4. sorted \in Seq(T) /\ Len(sorted) = Len(s)
  BY <1>1, <1>3, FunctionIsSeq
<1>5. TopK(s, k) = Take(sorted, k)
  BY <1>2 DEF sorted
<1>. QED
  BY <1>4, <1>5, TakeIs

\* Candidates in order, each better than those after it.
InOrder(s) ==
    /\ s \in Seq(Candidate)
    /\ \A m, n \in 1..Len(s) : m < n => Better(s[m], s[n])

\* Different candidates are sorted by TopK.
LEMMA TopKSorts ==
    ASSUME NEW s \in Seq(Candidate), IsInjective(s)
    PROVE  \E sorted : /\ InOrder(sorted) /\ Len(sorted) = Len(s) /\ ToSet(sorted) = ToSet(s)
                       /\ \A k \in Nat : TopK(s, k) = Take(sorted, k)
<1>1. Len(s) \in Nat /\ DOMAIN s = 1..Len(s) /\ \A m \in 1..Len(s) : s[m] \in Candidate
  OBVIOUS
<1>2. PICK order \in [1..Len(s) -> 1..Len(s)] :
              /\ \A k \in Nat : TopK(s, k) = Take([m \in 1..Len(s) |-> s[order[m]]], k)
              /\ \A m, n \in 1..Len(s) : m < n => \/ Better(s[order[m]], s[order[n]])
                                                  \/ s[order[m]] = s[order[n]]
              /\ \A m, n \in 1..Len(s) : order[m] = order[n] => m = n
              /\ \A p \in 1..Len(s) : \E m \in 1..Len(s) : order[m] = p
  BY TopKIs
<1> DEFINE sorted == [m \in 1..Len(s) |-> s[order[m]]]
<1>3. sorted \in [1..Len(s) -> Candidate] /\ \A m \in 1..Len(s) : sorted[m] = s[order[m]]
  BY <1>1
<1>4. \A k \in Nat : TopK(s, k) = Take(sorted, k)
  BY <1>2
<1> HIDE DEF sorted
<1>5. sorted \in Seq(Candidate) /\ Len(sorted) = Len(s)
  BY <1>1, <1>3, FunctionIsSeq
<1>6. \A m, n \in 1..Len(s) : m < n => Better(sorted[m], sorted[n])
  <2> SUFFICES ASSUME NEW m \in 1..Len(s), NEW n \in 1..Len(s), m < n
               PROVE  Better(sorted[m], sorted[n])
    OBVIOUS
  <2>1. m # n
    OBVIOUS
  <2>2. order[m] # order[n] /\ order[m] \in DOMAIN s /\ order[n] \in DOMAIN s
    BY <1>1, <1>2, <2>1
  <2>3. s[order[m]] # s[order[n]]
    BY <2>2 DEF IsInjective
  <2>. QED
    BY <1>2, <1>3, <2>3
<1>7. ToSet(sorted) = ToSet(s)
  <2>1. \A e \in ToSet(sorted) : \E m \in 1..Len(s) : sorted[m] = e
    BY <1>5, Members
  <2>2. \A e \in ToSet(s) : \E m \in 1..Len(s) : s[m] = e
    BY Members
  <2>3. \A m \in 1..Len(s) : s[m] \in ToSet(s) /\ sorted[m] \in ToSet(sorted)
    BY <1>5, Members
  <2>4. \A e \in ToSet(sorted) : e \in ToSet(s)
    <3> TAKE e \in ToSet(sorted)
    <3>1. PICK m \in 1..Len(s) : sorted[m] = e
      BY <2>1
    <3>2. order[m] \in 1..Len(s) /\ e = s[order[m]]
      BY <1>2, <1>3, <3>1
    <3>. QED
      BY <2>3, <3>2
  <2>5. \A e \in ToSet(s) : e \in ToSet(sorted)
    BY <1>2, <1>3, <2>2, <2>3
  <2>. QED
    BY <2>4, <2>5
<1>8. InOrder(sorted)
  BY <1>5, <1>6 DEF InOrder
<1>. QED
  BY <1>4, <1>5, <1>7, <1>8

\* Places in an order: each element once, and one is before all later ones.
LEMMA OrderIs ==
    ASSUME NEW s, InOrder(s)
    PROVE  /\ s \in Seq(Candidate) /\ Len(s) \in Nat
           /\ \A m \in 1..Len(s) : s[m] \in Candidate
           /\ \A m, n \in 1..Len(s) : Better(s[m], s[n]) => m < n
           /\ \A m, n \in 1..Len(s) : s[m] = s[n] => m = n
           /\ \A m, n \in 1..Len(s) : m < n => Better(s[m], s[n])
<1>1. s \in Seq(Candidate) /\ \A m, n \in 1..Len(s) : m < n => Better(s[m], s[n])
  BY DEF InOrder
<1>2. Len(s) \in Nat /\ \A m \in 1..Len(s) : s[m] \in Candidate
  BY <1>1
<1>3. ASSUME NEW m \in 1..Len(s), NEW n \in 1..Len(s), Better(s[m], s[n]) PROVE m < n
  <2>1. s[m] \in Candidate /\ s[n] \in Candidate
    BY <1>2
  <2>2. CASE m = n
    BY <1>3, <2>1, <2>2, BetterIs
  <2>3. CASE n < m
    <3>1. Better(s[n], s[m])
      BY <1>1, <2>3
    <3>. QED
      BY <1>3, <2>1, <3>1, BetterIs
  <2>. QED
    BY <2>2, <2>3
<1>4. ASSUME NEW m \in 1..Len(s), NEW n \in 1..Len(s), s[m] = s[n] PROVE m = n
  <2>1. s[m] \in Candidate /\ ~Better(s[m], s[m])
    BY <1>2, BetterIs
  <2>2. CASE m < n
    <3>1. Better(s[m], s[n])
      BY <1>1, <2>2
    <3>. QED
      BY <1>4, <2>1, <3>1
  <2>3. CASE n < m
    <3>1. Better(s[n], s[m])
      BY <1>1, <2>3
    <3>. QED
      BY <1>4, <2>1, <3>1
  <2>. QED
    BY <2>2, <2>3
<1>. QED
  BY <1>1, <1>2, <1>3, <1>4

\* A prefix of an order is one.
LEMMA PrefixInOrder ==
    ASSUME NEW s, InOrder(s), NEW k \in Nat
    PROVE  /\ InOrder(Take(s, k))
           /\ Len(Take(s, k)) = IF k <= Len(s) THEN k ELSE Len(s)
           /\ \A m \in 1..Len(Take(s, k)) : m \in 1..Len(s) /\ Take(s, k)[m] = s[m]
           /\ ToSet(Take(s, k)) \subseteq ToSet(s)
           /\ \A m \in 1..Len(s) : m <= k => s[m] \in ToSet(Take(s, k))
<1>1. s \in Seq(Candidate) /\ Len(s) \in Nat /\ \A m, n \in 1..Len(s) : m < n => Better(s[m], s[n])
  BY OrderIs
<1> DEFINE t == Take(s, k)
<1>2. /\ t \in Seq(Candidate) /\ Len(t) = (IF k <= Len(s) THEN k ELSE Len(s))
      /\ \A m \in 1..Len(t) : m \in 1..Len(s) /\ t[m] = s[m]
  BY <1>1, TakeIs
<1> HIDE DEF t
<1>3. InOrder(t)
  BY <1>1, <1>2 DEF InOrder
<1>4. \A e \in ToSet(t) : e \in ToSet(s)
  <2> TAKE e \in ToSet(t)
  <2>1. PICK m \in 1..Len(t) : t[m] = e
    BY <1>2, Members
  <2>2. m \in 1..Len(s) /\ s[m] = e
    BY <1>2, <2>1
  <2>. QED
    BY <1>1, <2>2, Members
<1>5. ASSUME NEW m \in 1..Len(s), m <= k PROVE s[m] \in ToSet(t)
  <2>1. m \in 1..Len(t)
    BY <1>1, <1>2, <1>5
  <2>2. t[m] = s[m] /\ t[m] \in ToSet(t)
    BY <1>2, <2>1, Members
  <2>. QED
    BY <2>2
<1>. QED
  BY <1>2, <1>3, <1>4, <1>5 DEF t

\* A candidate among others is no later in their order than among fewer of them.
LEMMA PlaceGrows ==
    ASSUME NEW s, InOrder(s), NEW b, InOrder(b), ToSet(b) \subseteq ToSet(s),
           NEW m \in 1..Len(b), NEW i \in 1..Len(s), s[i] = b[m]
    PROVE  m <= i
<1>1. /\ s \in Seq(Candidate) /\ Len(s) \in Nat
      /\ \A p, n \in 1..Len(s) : Better(s[p], s[n]) => p < n
      /\ \A p, n \in 1..Len(s) : s[p] = s[n] => p = n
  BY OrderIs
<1>2. /\ b \in Seq(Candidate) /\ Len(b) \in Nat
      /\ \A p, n \in 1..Len(b) : b[p] = b[n] => p = n
      /\ \A p, n \in 1..Len(b) : p < n => Better(b[p], b[n])
  BY OrderIs
<1>3. \A p \in 1..Len(b) : \E n \in 1..Len(s) : s[n] = b[p]
  <2> TAKE p \in 1..Len(b)
  <2>1. b[p] \in ToSet(s)
    BY <1>2, Members
  <2>. QED
    BY <1>1, <2>1, Members
<1>4. \A p \in 1..m : \E n \in 1..i : s[n] = b[p]
  <2> TAKE p \in 1..m
  <2>1. p \in 1..Len(b)
    BY <1>2
  <2>2. PICK n \in 1..Len(s) : s[n] = b[p]
    BY <1>3, <2>1
  <2>3. p = m \/ Better(b[p], b[m])
    BY <1>2, <2>1
  <2>4. n = i \/ n < i
    <3>1. p = m => s[n] = s[i]
      BY <2>2
    <3>2. Better(b[p], b[m]) => Better(s[n], s[i])
      BY <2>2
    <3>. QED
      BY <1>1, <2>3, <3>1, <3>2
  <2>5. n \in 1..i
    BY <2>4
  <2>. QED
    BY <2>2, <2>5
<1> DEFINE at == [p \in 1..m |-> CHOOSE n \in 1..i : s[n] = b[p]]
<1>5. at \in [1..m -> 1..i] /\ \A p \in 1..m : s[at[p]] = b[p]
  <2>1. \A p \in 1..m : (CHOOSE n \in 1..i : s[n] = b[p]) \in 1..i
                        /\ s[CHOOSE n \in 1..i : s[n] = b[p]] = b[p]
    BY <1>4
  <2>. QED
    BY <2>1
<1> HIDE DEF at
<1>6. \A p, n \in 1..m : at[p] = at[n] => p = n
  <2> SUFFICES ASSUME NEW p \in 1..m, NEW n \in 1..m, at[p] = at[n] PROVE p = n
    OBVIOUS
  <2>1. b[p] = b[n]
    BY <1>5
  <2>2. p \in 1..Len(b) /\ n \in 1..Len(b)
    BY <1>2
  <2>. QED
    BY <1>2, <2>1, <2>2
<1>7. m \in Nat /\ i \in Nat
  BY <1>1, <1>2
<1>8. IsFiniteSet(1..m) /\ Cardinality(1..m) = m /\ IsFiniteSet(1..i) /\ Cardinality(1..i) = i
  BY <1>7, IntervalIs
<1>9. ~(i < m)
  <2> SUFFICES ASSUME i < m PROVE FALSE
    OBVIOUS
  <2>1. Cardinality(1..i) < Cardinality(1..m)
    BY <1>8
  <2>2. \E p, n \in 1..m : p # n /\ at[p] = at[n]
    BY <1>5, <1>8, <2>1, FS_PigeonHole, SMTT(30)
  <2>. QED
    BY <1>6, <2>2
<1>. QED
  BY <1>7, <1>9

\* An order that has all of the first p of another, and nothing that the other
\* has not, starts with them.
LEMMA StartsAlike ==
    ASSUME NEW s, InOrder(s), NEW r, InOrder(r), ToSet(r) \subseteq ToSet(s), NEW p \in Nat,
           \A i \in 1..Len(s) : i <= p => s[i] \in ToSet(r)
    PROVE  Len(r) <= Len(s) /\ Take(r, p) = Take(s, p)
<1>1. /\ s \in Seq(Candidate) /\ Len(s) \in Nat
      /\ \A m, n \in 1..Len(s) : Better(s[m], s[n]) => m < n
      /\ \A m, n \in 1..Len(s) : s[m] = s[n] => m = n
  BY OrderIs
<1>2. /\ r \in Seq(Candidate) /\ Len(r) \in Nat
      /\ \A m, n \in 1..Len(r) : m < n => Better(r[m], r[n])
  BY OrderIs
<1>3. \A n \in 1..Len(r) : \E i \in 1..Len(s) : s[i] = r[n] /\ n <= i
  <2> TAKE n \in 1..Len(r)
  <2>1. r[n] \in ToSet(s)
    BY <1>2, Members
  <2>2. PICK i \in 1..Len(s) : s[i] = r[n]
    BY <1>1, <2>1, Members
  <2>3. n <= i
    BY <2>2, PlaceGrows
  <2>. QED
    BY <2>2, <2>3
<1>4. Len(r) <= Len(s)
  <2>1. CASE Len(r) = 0
    BY <1>1, <2>1
  <2>2. CASE Len(r) # 0
    <3>1. Len(r) \in 1..Len(r)
      BY <1>2, <2>2
    <3>. QED
      BY <1>1, <1>2, <1>3, <3>1
  <2>. QED
    BY <2>1, <2>2
<1> DEFINE top == IF p <= Len(s) THEN p ELSE Len(s)
           S == {k \in 0..top : k <= Len(r) /\ \A i \in 1..k : r[i] = s[i]}
<1>5. top \in Nat /\ top <= p /\ top <= Len(s)
  BY <1>1
<1> HIDE DEF top
<1>6. 0 \in S
  BY <1>2, <1>5
<1>7. ASSUME NEW k \in 0..(top - 1), k \in S PROVE k + 1 \in S
  <2>1. k \in Nat /\ k <= Len(r) /\ (\A i \in 1..k : r[i] = s[i]) /\ k + 1 \in 1..Len(s) /\ k + 1 <= p
        /\ k + 1 \in 0..top
    BY <1>1, <1>5, <1>7
  <2>2. PICK j \in 1..Len(r) : r[j] = s[k + 1]
    <3>1. s[k + 1] \in ToSet(r)
      BY <2>1
    <3>. QED
      BY <1>2, <3>1, Members
  <2>3. j >= k + 1
    <3> SUFFICES ASSUME j \in 1..k PROVE FALSE
      BY <1>2, <2>1
    <3>1. r[j] = s[j] /\ j \in 1..Len(s)
      BY <1>1, <2>1
    <3>2. s[j] = s[k + 1] /\ k + 1 \in 1..Len(s)
      BY <2>1, <2>2, <3>1
    <3>3. j = k + 1
      BY <1>1, <3>1, <3>2
    <3>. QED
      BY <2>1, <3>3
  <2>4. k + 1 \in 1..Len(r)
    BY <1>2, <2>1, <2>3
  <2>5. PICK i \in 1..Len(s) : s[i] = r[k + 1] /\ k + 1 <= i
    BY <1>3, <2>4
  <2>6. j = k + 1
    <3> SUFFICES ASSUME k + 1 < j PROVE FALSE
      BY <1>2, <2>1, <2>3
    <3>1. Better(r[k + 1], r[j])
      BY <1>2, <2>4
    <3>2. Better(s[i], s[k + 1])
      BY <2>2, <2>5, <3>1
    <3>3. i < k + 1
      BY <1>1, <2>1, <3>2
    <3>. QED
      BY <1>1, <2>1, <2>5, <3>3
  <2>7. \A n \in 1..(k + 1) : r[n] = s[n]
    BY <2>1, <2>2, <2>6
  <2>. QED
    BY <1>2, <2>1, <2>4, <2>7
<1>8. top \in S
  <2> HIDE DEF S
  <2>1. \A k \in 0..top : k \in S
    BY <1>5, <1>6, <1>7, UpTo
  <2>. QED
    BY <1>5, <2>1
<1>9. top <= Len(r) /\ \A i \in 1..top : r[i] = s[i]
  BY <1>8
<1>10. Len(Take(r, p)) = top /\ Len(Take(s, p)) = top
  <2>1. Len(Take(s, p)) = (IF p <= Len(s) THEN p ELSE Len(s))
    BY PrefixInOrder
  <2>2. Len(Take(r, p)) = (IF p <= Len(r) THEN p ELSE Len(r))
    BY PrefixInOrder
  <2>. QED
    BY <1>1, <1>2, <1>4, <1>5, <1>9, <2>1, <2>2 DEF top
<1>11. \A m \in 1..top : Take(r, p)[m] = Take(s, p)[m]
  <2>1. \A m \in 1..Len(Take(s, p)) : Take(s, p)[m] = s[m]
    BY PrefixInOrder
  <2>2. \A m \in 1..Len(Take(r, p)) : Take(r, p)[m] = r[m]
    BY PrefixInOrder
  <2>. QED
    BY <1>9, <1>10, <2>1, <2>2
<1>12. Take(r, p) \in Seq(Candidate) /\ Take(s, p) \in Seq(Candidate)
  BY <1>1, <1>2, TakeIs
<1>. QED
  BY <1>4, <1>10, <1>11, <1>12

-----------------------------------------------------------------------------
(* Merging the candidates of two sources                                   *)

\* Sequences that agree at every place.
LEMMA SameSequence ==
    ASSUME NEW T, NEW t \in Seq(T), NEW u \in Seq(T), Len(t) = Len(u),
           \A m \in 1..Len(t) : t[m] = u[m]
    PROVE  t = u
OBVIOUS

\* Two sequences cut to equal lengths in which they agree.
LEMMA CutsAgree ==
    ASSUME NEW T, NEW t \in Seq(T), NEW u \in Seq(T), NEW a \in Nat, NEW b \in Nat, NEW c \in Nat,
           NEW top \in Nat,
           top = IF c <= Len(u) THEN c ELSE Len(u),
           \/ top <= Len(t) /\ top <= a /\ top = b
           \/ top <= Len(t) /\ top = a /\ top <= b
           \/ top = Len(t) /\ top <= a /\ top <= b,
           \A i \in 1..top : t[i] = u[i]
    PROVE  Take(Take(t, a), b) = Take(u, c)
<1> DEFINE v == Take(t, a)
           w == Take(v, b)
           y == Take(u, c)
<1>1. Len(t) \in Nat /\ Len(u) \in Nat
  OBVIOUS
<1>2. /\ v \in Seq(T) /\ Len(v) = (IF a <= Len(t) THEN a ELSE Len(t))
      /\ \A m \in 1..Len(v) : m \in 1..Len(t) /\ v[m] = t[m]
  BY TakeIs
<1>3. y \in Seq(T) /\ Len(y) = top /\ \A m \in 1..Len(y) : m \in 1..Len(u) /\ y[m] = u[m]
  BY TakeIs
<1> HIDE DEF v, y
<1>4. /\ w \in Seq(T) /\ Len(w) = (IF b <= Len(v) THEN b ELSE Len(v))
      /\ \A m \in 1..Len(w) : m \in 1..Len(v) /\ w[m] = v[m]
  BY <1>2, TakeIs
<1> HIDE DEF w
<1>5. Len(w) = top
  BY <1>1, <1>2, <1>4
<1>6. \A m \in 1..top : w[m] = y[m]
  BY <1>2, <1>3, <1>4, <1>5
<1>7. w = y
  <2>1. w \in Seq(T) /\ y \in Seq(T) /\ Len(w) = Len(y) /\ \A m \in 1..Len(w) : w[m] = y[m]
    BY <1>3, <1>4, <1>5, <1>6
  <2>. QED
    BY <2>1, SameSequence
<1>. QED
  BY <1>7 DEF v, w, y

\* What MergeTopK keeps of its candidates in order is what it would keep of
\* all, when they start with as many as the pool has room for.
LEMMA SameAnswer ==
    ASSUME NEW s, InOrder(s), NEW r, InOrder(r), Len(r) <= Len(s), NEW k \in Nat \ {0},
           NEW e \in BOOLEAN, NEW p \in Nat, NEW out \in Nat,
           p = (IF e THEN IF k + 1 <= Len(s) THEN k + 1 ELSE Len(s)
                     ELSE IF k <= Len(s) THEN k ELSE Len(s)),
           out = (IF k <= Len(s) THEN k ELSE Len(s)),
           Take(r, p) = Take(s, p)
    PROVE  Take(Take(IF e /\ Len(r) > 1 THEN Tail(r) ELSE r, p), out)
             = Take(IF e /\ Len(s) > 1 THEN Tail(s) ELSE s, k)
<1>1. s \in Seq(Candidate) /\ Len(s) \in Nat /\ r \in Seq(Candidate) /\ Len(r) \in Nat
  BY OrderIs
<1>2. Len(Take(s, p)) = p /\ \A m \in 1..p : Take(s, p)[m] = s[m]
  <2>1. p <= Len(s)
    BY <1>1
  <2>. QED
    BY <2>1, PrefixInOrder
<1>3. p <= Len(r) /\ \A m \in 1..p : Take(r, p)[m] = r[m]
  <2>1. Len(Take(r, p)) = (IF p <= Len(r) THEN p ELSE Len(r))
    BY PrefixInOrder
  <2>2. p <= Len(r)
    BY <1>1, <1>2, <2>1
  <2>3. \A m \in 1..Len(Take(r, p)) : Take(r, p)[m] = r[m]
    BY PrefixInOrder
  <2>. QED
    BY <1>2, <2>2, <2>3
<1>4. \A m \in 1..p : r[m] = s[m]
  BY <1>2, <1>3
<1>5. CASE e /\ Len(s) > 1
  <2>1. p >= 2 /\ Len(r) > 1
    BY <1>1, <1>3, <1>5
  <2> DEFINE t == Tail(r)
             u == Tail(s)
             top == IF k <= Len(s) - 1 THEN k ELSE Len(s) - 1
  <2>2. /\ t \in Seq(Candidate) /\ Len(t) = Len(r) - 1
        /\ \A m \in 1..Len(t) : t[m] = r[m + 1]
    BY <1>1, <2>1
  <2>3. /\ u \in Seq(Candidate) /\ Len(u) = Len(s) - 1
        /\ \A m \in 1..Len(u) : u[m] = s[m + 1]
    BY <1>1, <1>5
  <2>4. p = (IF k + 1 <= Len(s) THEN k + 1 ELSE Len(s))
    BY <1>5
  <2>5. top \in Nat /\ top = (IF k <= Len(u) THEN k ELSE Len(u)) /\ top + 1 = p
    <3>1. Len(s) \in Nat /\ Len(s) > 1 /\ Len(u) = Len(s) - 1 /\ k \in Nat
      BY <1>1, <1>5, <2>3
    <3>. QED
      BY <2>4, <3>1
  <2>6. top <= Len(t) /\ top <= p
    BY <1>1, <1>3, <2>1, <2>2, <2>5
  <2>7. top = out \/ (top = Len(t) /\ top <= out)
    <3>1. Len(s) \in Nat /\ Len(r) \in Nat /\ Len(r) <= Len(s) /\ Len(t) = Len(r) - 1 /\ p <= Len(r)
      BY <1>1, <1>3, <2>2
    <3>2. out = (IF k <= Len(s) THEN k ELSE Len(s)) /\ k \in Nat
      OBVIOUS
    <3>3. CASE k + 1 <= Len(s)
      <4>1. top = k /\ out = k
        BY <3>1, <3>2, <3>3
      <4>. QED
        BY <4>1
    <3>4. CASE ~(k + 1 <= Len(s))
      <4>1. Len(r) = Len(s) /\ out = Len(s)
        BY <2>4, <3>1, <3>2, <3>4
      <4>2. top = Len(s) - 1
        BY <3>1, <3>2, <3>4
      <4>. QED
        BY <3>1, <4>1, <4>2
    <3>. QED
      BY <3>3, <3>4
  <2> HIDE DEF top, t, u
  <2>8. \A m \in 1..top : t[m] = u[m]
    <3> TAKE m \in 1..top
    <3>1. m \in 1..Len(t) /\ m \in 1..Len(u) /\ m + 1 \in 1..p
      BY <1>1, <2>2, <2>3, <2>5, <2>6
    <3>. QED
      BY <1>4, <2>2, <2>3, <3>1
  <2>9. Take(Take(t, p), out) = Take(u, k)
    <3>1. CASE top = out
      BY <2>2, <2>3, <2>5, <2>6, <2>8, <3>1, CutsAgree
    <3>2. CASE top = Len(t) /\ top <= out
      BY <2>2, <2>3, <2>5, <2>6, <2>8, <3>2, CutsAgree, SMTT(30)
    <3>. QED
      BY <2>7, <3>1, <3>2
  <2>. QED
    BY <1>5, <2>1, <2>9 DEF t, u
<1>6. CASE ~(e /\ Len(s) > 1)
  <2>1. ~(e /\ Len(r) > 1)
    BY <1>1, <1>6
  <2>2. p = out
    BY <1>1, <1>6
  <2>3. Take(Take(r, p), out) = Take(s, k)
    BY <1>1, <1>3, <1>4, <2>2, CutsAgree
  <2>. QED
    BY <1>6, <2>1, <2>3
<1>. QED
  BY <1>5, <1>6

\* Rows at one distance each.
OneEach(T) == T \in SUBSET Candidate /\ \A a, b \in T : a[1] = b[1] => a = b

\* The places of the first mentions of rows.
Firsts(s) == {i \in DOMAIN s : \A j \in 1..(i - 1) : s[j][1] # s[i][1]}

\* The first mentions are different, and of all the rows.
LEMMA FirstMentions ==
    ASSUME NEW T, OneEach(T), NEW s \in Seq(T)
    PROVE  /\ Chosen(s, Firsts(s)) \in Seq(T)
           /\ IsInjective(Chosen(s, Firsts(s)))
           /\ ToSet(Chosen(s, Firsts(s))) = ToSet(s)
<1> DEFINE D == Firsts(s)
           c == Chosen(s, D)
<1>1. Len(s) \in Nat /\ DOMAIN s = 1..Len(s) /\ \A i \in 1..Len(s) : s[i] \in T
  OBVIOUS
<1>2. D \in SUBSET (1..Len(s)) /\ D \in SUBSET Nat /\ \A p \in D : p <= Len(s)
  BY <1>1 DEF Firsts
<1>3. \A i \in D : \A j \in 1..(i - 1) : s[j][1] # s[i][1]
  BY DEF Firsts
<1>4. \A i \in 1..Len(s) : (\A j \in 1..(i - 1) : s[j][1] # s[i][1]) => i \in D
  BY <1>1 DEF Firsts
<1> HIDE DEF D
<1>5. c \in Seq(T) /\ ToSet(c) = {s[p] : p \in D}
  BY <1>2, ChosenOf
<1>6. IsInjective(c)
  <2>1. /\ Ascending(D) \in [1..Cardinality(D) -> D]
        /\ \A m, n \in 1..Cardinality(D) : Ascending(D)[m] = Ascending(D)[n] => m = n
        /\ DOMAIN c = 1..Cardinality(D)
        /\ \A m \in 1..Cardinality(D) : c[m] = s[Ascending(D)[m]]
    BY <1>1, <1>2, ChosenIs, ZenonT(30)
  <2> HIDE DEF c
  <2>2. ASSUME NEW a \in D, NEW b \in D, s[a] = s[b] PROVE a = b
    <3>1. a \in Nat \ {0} /\ b \in Nat \ {0}
      BY <1>2
    <3>2. CASE a < b
      <4>1. a \in 1..(b - 1)
        BY <3>1, <3>2
      <4>. QED
        BY <1>3, <2>2, <4>1
    <3>3. CASE b < a
      <4>1. b \in 1..(a - 1)
        BY <3>1, <3>3
      <4>. QED
        BY <1>3, <2>2, <4>1
    <3>. QED
      BY <3>1, <3>2, <3>3
  <2>3. ASSUME NEW m \in DOMAIN c, NEW n \in DOMAIN c, c[m] = c[n] PROVE m = n
    <3>1. /\ m \in 1..Cardinality(D) /\ n \in 1..Cardinality(D)
          /\ Ascending(D)[m] \in D /\ Ascending(D)[n] \in D
          /\ s[Ascending(D)[m]] = s[Ascending(D)[n]]
      BY <2>1, <2>3
    <3>2. Ascending(D)[m] = Ascending(D)[n]
      BY <2>2, <3>1
    <3>. QED
      BY <2>1, <3>1, <3>2
  <2>. QED
    BY <2>3 DEF IsInjective
<1>7. \A i \in 1..Len(s) : s[i] \in ToSet(c)
  <2> TAKE i \in 1..Len(s)
  <2> DEFINE S == {j \in 1..Len(s) : s[j][1] = s[i][1]}
  <2>1. S \in SUBSET Nat /\ S # {}
    OBVIOUS
  <2>2. PICK j \in S : \A h \in S : j <= h
    <3> HIDE DEF S
    <3>. QED
      BY <2>1, LeastNumber
  <2>3. j \in 1..Len(s) /\ s[j][1] = s[i][1]
    OBVIOUS
  <2>4. \A h \in 1..(j - 1) : s[h][1] # s[j][1]
    <3> SUFFICES ASSUME NEW h \in 1..(j - 1), s[h][1] = s[j][1] PROVE FALSE
      OBVIOUS
    <3>1. h \in 1..Len(s) /\ ~(j <= h)
      BY <1>1, <2>3
    <3>2. h \in S
      BY <2>3, <3>1
    <3>. QED
      BY <2>2, <3>1, <3>2
  <2>5. j \in D
    BY <1>4, <2>3, <2>4
  <2>6. s[j] \in T /\ s[i] \in T /\ s[j] = s[i]
    BY <1>1, <2>3 DEF OneEach
  <2>. QED
    BY <1>5, <2>5, <2>6
<1>8. ToSet(c) = ToSet(s)
  <2>1. \A e \in ToSet(s) : e \in ToSet(c)
    BY <1>7, Members
  <2>2. \A p \in D : s[p] \in ToSet(s)
    BY <1>2, Members
  <2>3. \A e \in ToSet(c) : e \in ToSet(s)
    BY <1>5, <2>2
  <2>. QED
    BY <2>1, <2>3
<1>. QED
  BY <1>5, <1>6, <1>8 DEF c, D

\* MergeTopK sorts the candidates of both sources and cuts.
LEMMA MergeTopKIs ==
    ASSUME NEW T, OneEach(T), NEW a \in Seq(T), NEW b \in Seq(T)
    PROVE  \E ranked : /\ InOrder(ranked)
                       /\ ToSet(ranked) = ToSet(a) \cup ToSet(b)
                       /\ \A out, pool \in Nat : \A e \in BOOLEAN :
                             MergeTopK(a, b, out, pool, e)
                               = Take(Take(IF e /\ Len(ranked) > 1 THEN Tail(ranked) ELSE ranked, pool), out)
<1> DEFINE both == a \o b
           first == Chosen(both, Firsts(both))
<1>1. both \in Seq(T) /\ Len(both) = Len(a) + Len(b)
      /\ (\A p \in 1..Len(a) : both[p] = a[p]) /\ (\A p \in 1..Len(b) : both[Len(a) + p] = b[p])
  BY ConcatIs
<1>2. ToSet(both) = ToSet(a) \cup ToSet(b)
  <2>1. Len(a) \in Nat /\ Len(b) \in Nat
    OBVIOUS
  <2> HIDE DEF both
  <2>2. ASSUME NEW e \in ToSet(both) PROVE e \in ToSet(a) \cup ToSet(b)
    <3>1. PICK p \in 1..Len(both) : both[p] = e
      BY <1>1, Members
    <3>2. CASE p <= Len(a)
      <4>1. p \in 1..Len(a) /\ a[p] = e
        BY <1>1, <2>1, <3>1, <3>2
      <4>. QED
        BY <4>1, Members
    <3>3. CASE ~(p <= Len(a))
      <4>1. p - Len(a) \in 1..Len(b) /\ Len(a) + (p - Len(a)) = p
        BY <1>1, <2>1, <3>3
      <4>2. b[p - Len(a)] = e
        BY <1>1, <3>1, <4>1
      <4>. QED
        BY <4>1, <4>2, Members
    <3>. QED
      BY <3>2, <3>3
  <2>3. ASSUME NEW e \in ToSet(a) PROVE e \in ToSet(both)
    <3>1. PICK p \in 1..Len(a) : a[p] = e
      BY Members
    <3>2. p \in 1..Len(both) /\ both[p] = e
      BY <1>1, <2>1, <3>1
    <3>. QED
      BY <1>1, <3>2, Members
  <2>4. ASSUME NEW e \in ToSet(b) PROVE e \in ToSet(both)
    <3>1. PICK p \in 1..Len(b) : b[p] = e
      BY Members
    <3>2. Len(a) + p \in 1..Len(both) /\ both[Len(a) + p] = e
      BY <1>1, <2>1, <3>1
    <3>. QED
      BY <1>1, <3>2, Members
  <2>. QED
    BY <2>2, <2>3, <2>4
<1>3. \A out, pool \in Nat : \A e \in BOOLEAN :
         MergeTopK(a, b, out, pool, e)
           = LET ranked == TopK(first, Len(first))
                 kept == IF e /\ Len(ranked) > 1 THEN Tail(ranked) ELSE ranked
             IN  Take(Take(kept, pool), out)
  BY DEF MergeTopK, Firsts
<1> HIDE DEF both
<1>4. first \in Seq(T) /\ IsInjective(first) /\ ToSet(first) = ToSet(both)
  BY <1>1, FirstMentions
<1> HIDE DEF first
<1>5. first \in Seq(Candidate)
  BY <1>4 DEF OneEach
<1>6. PICK sorted : /\ InOrder(sorted) /\ Len(sorted) = Len(first) /\ ToSet(sorted) = ToSet(first)
                    /\ \A k \in Nat : TopK(first, k) = Take(sorted, k)
  BY <1>4, <1>5, TopKSorts
<1>7. Len(first) \in Nat /\ TopK(first, Len(first)) = sorted
  <2>1. Len(first) \in Nat /\ TopK(first, Len(first)) = Take(sorted, Len(sorted))
    BY <1>5, <1>6
  <2>2. sorted \in Seq(Candidate) /\ Len(sorted) \in Nat
    BY <1>6, OrderIs
  <2>3. /\ Take(sorted, Len(sorted)) \in Seq(Candidate)
        /\ Len(Take(sorted, Len(sorted))) = Len(sorted)
        /\ \A m \in 1..Len(sorted) : Take(sorted, Len(sorted))[m] = sorted[m]
    BY <2>2, TakeIs
  <2>4. Take(sorted, Len(sorted)) = sorted
    BY <2>2, <2>3
  <2>. QED
    BY <2>1, <2>4
<1>8. \A out, pool \in Nat : \A e \in BOOLEAN :
         MergeTopK(a, b, out, pool, e)
           = Take(Take(IF e /\ Len(sorted) > 1 THEN Tail(sorted) ELSE sorted, pool), out)
  BY <1>3, <1>7
<1>. QED
  BY <1>2, <1>4, <1>6, <1>8

-----------------------------------------------------------------------------
(* Scoring the rows of leaves                                              *)

\* The candidates that rows are for a query.
Pairs(rows, q, val) == {<<r, L2(q, val[r])>> : r \in rows}

\* There is one for each row.
LEMMA PairsAre ==
    ASSUME NEW rows \in SUBSET Nat, NEW q \in Int, NEW val, Valued(val, rows)
    PROVE  OneEach(Pairs(rows, q, val))
<1>1. \A r \in rows : L2(q, val[r]) \in Nat
  BY L2Is DEF Valued
<1>2. Pairs(rows, q, val) \in SUBSET Candidate
  BY <1>1 DEF Pairs, Candidate
<1>3. \A a \in Pairs(rows, q, val) : a = <<a[1], L2(q, val[a[1]])>>
  BY DEF Pairs
<1>. QED
  BY <1>2, <1>3 DEF OneEach

\* Scores of ids.
LEMMA ScoredIs ==
    ASSUME NEW rows \in SUBSET Nat, NEW ids \in Seq(rows), NEW q, NEW val
    PROVE  /\ Scored(ids, q, val) \in Seq(Pairs(rows, q, val))
           /\ Len(Scored(ids, q, val)) = Len(ids)
           /\ \A m \in 1..Len(ids) : Scored(ids, q, val)[m] = <<ids[m], L2(q, val[ids[m]])>>
<1> DEFINE s == Scored(ids, q, val)
<1>1. Len(ids) \in Nat /\ DOMAIN ids = 1..Len(ids) /\ \A m \in 1..Len(ids) : ids[m] \in rows
  OBVIOUS
<1>2. s = [m \in 1..Len(ids) |-> <<ids[m], L2(q, val[ids[m]])>>]
  BY <1>1 DEF Scored
<1>3. \A m \in 1..Len(ids) : <<ids[m], L2(q, val[ids[m]])>> \in Pairs(rows, q, val)
  BY <1>1 DEF Pairs
<1>4. s \in [1..Len(ids) -> Pairs(rows, q, val)]
  BY <1>2, <1>3
<1>5. \A m \in 1..Len(ids) : s[m] = <<ids[m], L2(q, val[ids[m]])>>
  BY <1>2
<1> HIDE DEF s
<1>6. s \in Seq(Pairs(rows, q, val)) /\ Len(s) = Len(ids)
  BY <1>1, <1>4, FunctionIsSeq
<1>. QED
  BY <1>5, <1>6 DEF s

\* Different rows have different scores, and each row has one.
LEMMA ScoredOnce ==
    ASSUME NEW rows \in SUBSET Nat, NEW ids \in Seq(rows), NEW q, NEW val,
           \A m, n \in 1..Len(ids) : ids[m] = ids[n] => m = n,
           \A r \in rows : \E m \in 1..Len(ids) : ids[m] = r
    PROVE  /\ IsInjective(Scored(ids, q, val))
           /\ ToSet(Scored(ids, q, val)) = Pairs(rows, q, val)
<1> DEFINE s == Scored(ids, q, val)
<1>1. /\ s \in Seq(Pairs(rows, q, val)) /\ Len(s) = Len(ids)
      /\ \A m \in 1..Len(ids) : s[m] = <<ids[m], L2(q, val[ids[m]])>>
  BY ScoredIs
<1> HIDE DEF s
<1>2. DOMAIN s = 1..Len(ids)
  BY <1>1
<1>3. IsInjective(s)
  <2> SUFFICES ASSUME NEW m \in 1..Len(ids), NEW n \in 1..Len(ids), s[m] = s[n] PROVE m = n
    BY <1>2 DEF IsInjective
  <2>1. ids[m] = ids[n]
    BY <1>1
  <2>. QED
    BY <2>1
<1>4. ToSet(s) \subseteq Pairs(rows, q, val)
  BY <1>1, ToSetIs
<1>5. \A e \in Pairs(rows, q, val) : e \in ToSet(s)
  <2> TAKE e \in Pairs(rows, q, val)
  <2>1. PICK r \in rows : e = <<r, L2(q, val[r])>>
    BY DEF Pairs
  <2>2. PICK m \in 1..Len(ids) : ids[m] = r
    OBVIOUS
  <2>3. s[m] = e /\ m \in 1..Len(s)
    BY <1>1, <2>1, <2>2
  <2>. QED
    BY <1>1, <2>3, Members
<1>. QED
  BY <1>3, <1>4, <1>5 DEF s

\* Sequences of different elements one after the other have different elements.
LEMMA FlattenDistinct ==
    ASSUME NEW T, NEW n \in Nat, NEW seqs, AreSeqs(n, seqs, T),
           \A a, b \in 1..n : \A i \in 1..Len(seqs[a]), j \in 1..Len(seqs[b]) :
               seqs[a][i] = seqs[b][j] => a = b /\ i = j
    PROVE  IsInjective(FlattenSeq(seqs))
<1> DEFINE flat == FlattenSeq(seqs)
           sum == Sums(Lengths(n, seqs))
<1>1. flat \in Seq(T)
  BY FlattenIs
<1>2. \A p \in 1..Len(flat) : \E i \in 1..n : \E j \in 1..Len(seqs[i]) :
         p = sum[i - 1] + j /\ flat[p] = seqs[i][j]
  <2>1. PlacesAre(n, seqs)
    BY FlattenPlaces
  <2>. QED
    BY <2>1 DEF PlacesAre
<1> HIDE DEF flat, sum
<1>3. DOMAIN flat = 1..Len(flat)
  BY <1>1
<1>4. ASSUME NEW p \in 1..Len(flat), NEW o \in 1..Len(flat), flat[p] = flat[o] PROVE p = o
  <2>1. PICK a \in 1..n : \E i \in 1..Len(seqs[a]) : p = sum[a - 1] + i /\ flat[p] = seqs[a][i]
    BY <1>2
  <2>2. PICK i \in 1..Len(seqs[a]) : p = sum[a - 1] + i /\ flat[p] = seqs[a][i]
    BY <2>1
  <2>3. PICK b \in 1..n : \E j \in 1..Len(seqs[b]) : o = sum[b - 1] + j /\ flat[o] = seqs[b][j]
    BY <1>2
  <2>4. PICK j \in 1..Len(seqs[b]) : o = sum[b - 1] + j /\ flat[o] = seqs[b][j]
    BY <2>3
  <2>5. a = b /\ i = j
    BY <1>4, <2>2, <2>4
  <2>. QED
    BY <2>2, <2>4, <2>5
<1>. QED
  BY <1>3, <1>4 DEF IsInjective, flat

\* flat has the elements of the sequences, and no others.
Lists(flat, n, seqs) ==
    /\ \A p \in 1..Len(flat) : \E i \in 1..n : \E j \in 1..Len(seqs[i]) : flat[p] = seqs[i][j]
    /\ \A i \in 1..n : \A j \in 1..Len(seqs[i]) : \E p \in 1..Len(flat) : flat[p] = seqs[i][j]

\* So it is with sequences one after the other.
LEMMA FlattenLists ==
    ASSUME NEW T, NEW n \in Nat, NEW seqs, AreSeqs(n, seqs, T)
    PROVE  FlattenSeq(seqs) \in Seq(T) /\ Lists(FlattenSeq(seqs), n, seqs)
<1> DEFINE flat == FlattenSeq(seqs)
           sum == Sums(Lengths(n, seqs))
<1>1. /\ flat \in Seq(T)
      /\ Len(flat) = sum[n]
      /\ \A i \in 1..n : \A j \in 1..Len(seqs[i]) :
            sum[i - 1] + j \in 1..sum[n] /\ flat[sum[i - 1] + j] = seqs[i][j]
  BY FlattenIs
<1>2. ASSUME NEW p \in 1..Len(flat)
      PROVE  \E i \in 1..n : \E j \in 1..Len(seqs[i]) : flat[p] = seqs[i][j]
  <2>1. PlacesAre(n, seqs)
    BY FlattenPlaces
  <2>. QED
    BY <2>1 DEF PlacesAre
<1> HIDE DEF flat, sum
<1>3. ASSUME NEW i \in 1..n, NEW j \in 1..Len(seqs[i])
      PROVE  \E p \in 1..Len(flat) : flat[p] = seqs[i][j]
  BY <1>1
<1>4. Lists(flat, n, seqs)
  BY <1>2, <1>3 DEF Lists
<1>. QED
  BY <1>1, <1>4 DEF flat

\* Leaves that hold rows, scored.
LEMMA ScoreLeavesIs ==
    ASSUME NEW rows \in SUBSET Nat, NEW leaves \in Seq(PageType), NEW q, NEW val,
           \A i \in 1..Len(leaves) : leaves[i].ids \in Seq(rows)
    PROVE  /\ ScoreLeaves(leaves, q, val) \in Seq(Pairs(rows, q, val))
           /\ ListedOnce(leaves) => IsInjective(ScoreLeaves(leaves, q, val))
           /\ RowsOf(leaves) = rows => ToSet(ScoreLeaves(leaves, q, val)) = Pairs(rows, q, val)
<1> DEFINE n == Len(leaves)
           T == Pairs(rows, q, val)
           seqs == [i \in 1..n |-> Scored(leaves[i].ids, q, val)]
           flat == FlattenSeq(seqs)
<1>1. n \in Nat /\ DOMAIN leaves = 1..n
  OBVIOUS
<1>2. ScoreLeaves(leaves, q, val) = flat
  BY <1>1 DEF ScoreLeaves
<1>3. \A i \in 1..n : /\ seqs[i] \in Seq(T) /\ Len(seqs[i]) = Len(leaves[i].ids)
                      /\ leaves[i].ids \in Seq(rows)
                      /\ \A m \in 1..Len(leaves[i].ids) :
                            seqs[i][m] = <<leaves[i].ids[m], L2(q, val[leaves[i].ids[m]])>>
  <2> TAKE i \in 1..n
  <2>1. seqs[i] = Scored(leaves[i].ids, q, val) /\ leaves[i].ids \in Seq(rows)
    OBVIOUS
  <2> HIDE DEF seqs, T
  <2>. QED
    BY <2>1, ScoredIs DEF T
<1>4. AreSeqs(n, seqs, T)
  BY <1>3 DEF AreSeqs
<1> HIDE DEF seqs, n, T
<1>5. flat \in Seq(T) /\ Lists(flat, n, seqs)
  BY <1>1, <1>4, FlattenLists
<1>6. ASSUME ListedOnce(leaves) PROVE IsInjective(flat)
  <2>1. ASSUME NEW a \in 1..n, NEW b \in 1..n, NEW i \in 1..Len(seqs[a]), NEW j \in 1..Len(seqs[b]),
               seqs[a][i] = seqs[b][j]
        PROVE  a = b /\ i = j
    <3>1. i \in 1..Len(leaves[a].ids) /\ j \in 1..Len(leaves[b].ids)
      BY <1>3
    <3>2. leaves[a].ids[i] = leaves[b].ids[j]
      <4>1. seqs[a][i] = <<leaves[a].ids[i], L2(q, val[leaves[a].ids[i]])>>
        BY <1>3, <3>1
      <4>2. seqs[b][j] = <<leaves[b].ids[j], L2(q, val[leaves[b].ids[j]])>>
        BY <1>3, <3>1
      <4> DEFINE u == L2(q, val[leaves[a].ids[i]])
                 v == L2(q, val[leaves[b].ids[j]])
      <4>3. <<leaves[a].ids[i], u>> = <<leaves[b].ids[j], v>>
        BY <2>1, <4>1, <4>2
      <4> HIDE DEF u, v
      <4>. QED
        BY <4>3
    <3>. QED
      BY <1>6, <3>1, <3>2 DEF ListedOnce, n
  <2>. QED
    BY <1>1, <1>4, <2>1, FlattenDistinct
<1>7. ASSUME RowsOf(leaves) = rows PROVE ToSet(flat) = T
  <2>1. ToSet(flat) \subseteq T
    BY <1>5, ToSetIs
  <2>2. ASSUME NEW e \in T PROVE e \in ToSet(flat)
    <3>1. PICK r \in rows : e = <<r, L2(q, val[r])>>
      BY DEF T, Pairs
    <3>2. PICK a \in 1..n : r \in ToSet(leaves[a].ids)
      BY <1>7 DEF RowsOf, n
    <3>3. PICK m \in 1..Len(leaves[a].ids) : leaves[a].ids[m] = r
      BY <1>3, <3>2, Members
    <3>4. m \in 1..Len(seqs[a]) /\ seqs[a][m] = e
      BY <1>3, <3>1, <3>3
    <3>5. PICK p \in 1..Len(flat) : flat[p] = e
      BY <1>5, <3>4 DEF Lists
    <3>. QED
      BY <1>5, <3>5, Members
  <2>. QED
    BY <2>1, <2>2
<1>. QED
  BY <1>2, <1>5, <1>6, <1>7 DEF T

\* The leaves of an index list its rows, each once.
LEMMA LeavesList ==
    ASSUME NEW pages, NEW rows \in SUBSET Nat, GoodPages(pages, rows)
    PROVE  /\ LeavesOf(pages) \in Seq(PageType)
           /\ \A i \in 1..Len(LeavesOf(pages)) : LeavesOf(pages)[i].ids \in Seq(rows)
           /\ ListedOnce(LeavesOf(pages))
           /\ RowsOf(LeavesOf(pages)) = rows
<1> DEFINE D == {i \in DOMAIN pages : IsLeaf(pages[i])}
           at == Ascending(D)
           leaves == LeavesOf(pages)
<1>1. /\ pages \in Seq(PageType) /\ ListedOnce(pages) /\ RowsOf(pages) = rows
      /\ \A a \in 1..Len(pages) : GoodPage(pages[a], IdsOf(pages))
  BY DEF GoodPages
<1>2. Len(pages) \in Nat /\ DOMAIN pages = 1..Len(pages) /\ \A a \in 1..Len(pages) : pages[a] \in PageType
  BY <1>1
<1>3. D \in SUBSET (1..Len(pages)) /\ D \in SUBSET Nat /\ \A p \in D : p <= Len(pages)
  BY <1>2
<1>4. \A a \in 1..Len(pages) : a \in D <=> IsLeaf(pages[a])
  BY <1>2
<1>5. leaves = Chosen(pages, D)
  BY DEF LeavesOf
<1> HIDE DEF D
<1>6. leaves \in Seq(PageType) /\ Len(leaves) = Cardinality(D)
  BY <1>1, <1>3, <1>5, ChosenOf
<1>7. /\ at \in [1..Cardinality(D) -> D]
      /\ \A m, n \in 1..Cardinality(D) : at[m] = at[n] => m = n
      /\ \A p \in D : \E m \in 1..Cardinality(D) : at[m] = p
      /\ \A m \in 1..Cardinality(D) : Chosen(pages, D)[m] = pages[at[m]]
  BY <1>2, <1>3, ChosenIs, ZenonT(30)
<1> HIDE DEF at, leaves
<1>8. \A m \in 1..Len(leaves) : at[m] \in 1..Len(pages) /\ leaves[m] = pages[at[m]]
  BY <1>3, <1>5, <1>6, <1>7
<1>9. \A a \in 1..Len(pages) : pages[a].ids \in Seq(rows) /\ ToSet(pages[a].ids) \subseteq rows
  <2> TAKE a \in 1..Len(pages)
  <2>1. pages[a].ids \in Seq(Nat)
    BY <1>2 DEF PageType
  <2>2. ToSet(pages[a].ids) \subseteq rows
    BY <1>1 DEF RowsOf
  <2>3. \A m \in 1..Len(pages[a].ids) : pages[a].ids[m] \in rows
    BY <2>1, <2>2, Members
  <2>4. pages[a].ids \in Seq(rows)
    BY <2>1, <2>3, SeqWithin
  <2>. QED
    BY <2>2, <2>4
<1>10. ListedOnce(leaves)
  <2> SUFFICES ASSUME NEW a \in 1..Len(leaves), NEW b \in 1..Len(leaves),
                      NEW m \in 1..Len(leaves[a].ids), NEW n \in 1..Len(leaves[b].ids),
                      leaves[a].ids[m] = leaves[b].ids[n]
               PROVE  a = b /\ m = n
    BY DEF ListedOnce
  <2>1. /\ at[a] \in 1..Len(pages) /\ leaves[a] = pages[at[a]]
        /\ at[b] \in 1..Len(pages) /\ leaves[b] = pages[at[b]]
    BY <1>8
  <2>2. /\ m \in 1..Len(pages[at[a]].ids) /\ n \in 1..Len(pages[at[b]].ids)
        /\ pages[at[a]].ids[m] = pages[at[b]].ids[n]
    BY <2>1
  <2> DEFINE c == at[a]
             d == at[b]
  <2>3. c = d /\ m = n
    <3>1. /\ c \in 1..Len(pages) /\ d \in 1..Len(pages)
          /\ m \in 1..Len(pages[c].ids) /\ n \in 1..Len(pages[d].ids)
          /\ pages[c].ids[m] = pages[d].ids[n]
      BY <2>1, <2>2
    <3> HIDE DEF c, d
    <3>. QED
      BY <1>1, <3>1 DEF ListedOnce
  <2>. QED
    BY <1>6, <1>7, <2>3
<1>11. RowsOf(leaves) = rows
  <2>1. \A a \in 1..Len(leaves) : ToSet(leaves[a].ids) \subseteq rows
    BY <1>8, <1>9
  <2>2. ASSUME NEW r \in rows PROVE \E a \in 1..Len(leaves) : r \in ToSet(leaves[a].ids)
    <3>1. PICK a \in 1..Len(pages) : r \in ToSet(pages[a].ids)
      BY <1>1 DEF RowsOf
    <3>2. pages[a].ids # <<>>
      BY <3>1 DEF ToSet
    <3>3. IsLeaf(pages[a])
      BY <1>1, <3>2 DEF GoodPage
    <3>4. PICK m \in 1..Cardinality(D) : at[m] = a
      BY <1>4, <1>7, <3>3
    <3>. QED
      BY <1>6, <1>8, <3>1, <3>4
  <2>. QED
    BY <2>1, <2>2 DEF RowsOf
<1>12. \A i \in 1..Len(leaves) : leaves[i].ids \in Seq(rows)
  BY <1>8, <1>9
<1>. QED
  BY <1>6, <1>10, <1>11, <1>12 DEF leaves

\* The first k of the rows of a span in order of distance.
ScanOf(s, from, to, q, val, k) ==
    \E sorted : InOrder(sorted) /\ ToSet(sorted) = Pairs(from..(to - 1), q, val) /\ s = Take(sorted, k)

\* An exhaustive search keeps the best of all rows of the index.
LEMMA ExhaustiveIs ==
    ASSUME NEW f, NEW from \in Nat, NEW to \in Nat, Indexes(f, from, to),
           NEW q \in Int, NEW val, Valued(val, from..(to - 1))
    PROVE  \A k \in Nat : ScanOf(SearchExhaustiveLeaves(f, q, k, val), from, to, q, val, k)
<1> DEFINE rows == from..(to - 1)
           all == ScoreLeaves(Leaves(f), q, val)
<1>1. rows \in SUBSET Nat /\ GoodPages(f.pages, rows)
  BY DEF Indexes
<1>2. all \in Seq(Pairs(rows, q, val)) /\ IsInjective(all) /\ ToSet(all) = Pairs(rows, q, val)
  <2> HIDE DEF rows
  <2>. QED
    BY <1>1, LeavesList, ScoreLeavesIs DEF Leaves
<1>3. Pairs(rows, q, val) \in SUBSET Candidate
  <2> HIDE DEF all
  <2>. QED
    BY <1>1, PairsAre DEF OneEach
<1>4. \A k \in Nat : SearchExhaustiveLeaves(f, q, k, val) = TopK(all, k)
  BY DEF SearchExhaustiveLeaves
<1> HIDE DEF all, rows
<1>5. all \in Seq(Candidate)
  BY <1>2, <1>3
<1>6. PICK sorted : /\ InOrder(sorted) /\ ToSet(sorted) = ToSet(all)
                    /\ \A k \in Nat : TopK(all, k) = Take(sorted, k)
  BY <1>2, <1>5, TopKSorts
<1>. QED
  BY <1>2, <1>4, <1>6 DEF rows, ScanOf

-----------------------------------------------------------------------------
(* Searching one index                                                     *)

\* The page of an id is one of the pages, and its rows are of the index.
LEMMA PageByIdIs ==
    ASSUME NEW f, NEW from \in Nat, NEW to \in Nat, Indexes(f, from, to)
    PROVE  /\ PageIds(f) = IdsOf(f.pages)
           /\ \A id \in IdsOf(f.pages) :
                 \E a \in 1..Len(f.pages) : PageById(f, id) = f.pages[a] /\ f.pages[a].id = id
           /\ \A a \in 1..Len(f.pages) : /\ f.pages[a] \in PageType
                                         /\ f.pages[a].ids \in Seq(from..(to - 1))
<1> DEFINE pages == f.pages
           rows == from..(to - 1)
<1>1. pages \in Seq(PageType) /\ RowsOf(pages) = rows
  BY DEF Indexes, GoodPages
<1>2. PageIds(f) = IdsOf(pages)
  BY <1>1 DEF PageIds, IdsOf
<1>3. ASSUME NEW id \in IdsOf(pages)
      PROVE  \E a \in 1..Len(pages) : PageById(f, id) = pages[a] /\ pages[a].id = id
  <2>1. PICK a \in 1..Len(pages) : pages[a].id = id
    BY DEF IdsOf
  <2>2. pages[a] \in ToSet(pages)
    BY <1>1, Members
  <2>3. PageById(f, id) \in ToSet(pages) /\ PageById(f, id).id = id
    BY <2>1, <2>2 DEF PageById
  <2>. QED
    BY <1>1, <2>3, Members
<1>4. ASSUME NEW a \in 1..Len(pages) PROVE pages[a] \in PageType /\ pages[a].ids \in Seq(rows)
  <2>1. pages[a] \in PageType
    BY <1>1
  <2>2. pages[a].ids \in Seq(Nat)
    BY <2>1 DEF PageType
  <2>3. ToSet(pages[a].ids) \subseteq rows
    BY <1>1 DEF RowsOf
  <2> HIDE DEF pages, rows
  <2>4. \A m \in 1..Len(pages[a].ids) : pages[a].ids[m] \in rows
    BY <2>2, <2>3, Members
  <2>. QED
    BY <2>1, <2>2, <2>4, SeqWithin
<1>. QED
  BY <1>2, <1>3, <1>4

\* The tree is searched down to leaves of the index.
LEMMA CollectIs ==
    ASSUME NEW f, NEW from \in Nat, NEW to \in Nat, Indexes(f, from, to), NEW q \in Int
    PROVE  CollectLeaves(f, q) \in Seq(IdsOf(f.pages))
<1> DEFINE ids == IdsOf(f.pages)
           top == Len(f.pages)
           Closest(page) == Take(RankBy(page.kids, [i \in DOMAIN page.kids |-> L2(q, page.centroids[i])]),
                                 BeamWidth)
           Level(n, prev) ==
              [id \in PageIds(f) |->
                LET page == PageById(f, id)
                IN  IF IsLeaf(page) THEN <<id>>
                    ELSE IF n = 0 THEN <<>>
                    ELSE FlattenSeq([i \in DOMAIN Closest(page) |-> prev[Closest(page)[i]]])]
           Steps(h) == h = [n \in 0..top |-> Level(n, h[n - 1])]
           below == CHOOSE h : Steps(h)
           all == below[top][f.root]
           T == [ids -> Seq(ids)]
           a == Level(0, <<>>)
           g == [n \in 1..top |-> [h \in T |-> Level(n, h)]]
<1>1. /\ PageIds(f) = ids
      /\ \A id \in ids : \E b \in 1..Len(f.pages) : PageById(f, id) = f.pages[b]
  BY PageByIdIs
<1>2. CollectLeaves(f, q) = Chosen(all, {i \in DOMAIN all : \A j \in 1..(i - 1) : all[j] # all[i]})
  BY Zenon DEF CollectLeaves, all, below, Steps, Level, Closest, top
<1>3. top \in Nat /\ f.root \in ids
  BY DEF Indexes, GoodPages
<1>4. ASSUME NEW id \in ids, ~IsLeaf(PageById(f, id)) PROVE Closest(PageById(f, id)) \in Seq(ids)
  <2> DEFINE page == PageById(f, id)
             keys == [i \in DOMAIN page.kids |-> L2(q, page.centroids[i])]
  <2>1. GoodPage(page, ids)
    BY <1>1 DEF Indexes, GoodPages
  <2>2. ~IsLeaf(page)
    BY <1>4
  <2> HIDE DEF page, ids
  <2>3. page.kids \in Seq(Nat) /\ page.centroids \in Seq(Int) /\ Len(page.centroids) = Len(page.kids)
        /\ \A m \in 1..Len(page.kids) : page.kids[m] \in ids
    BY <2>1, <2>2 DEF GoodPage, PageType
  <2>4. page.kids \in Seq(ids) /\ DOMAIN page.kids = 1..Len(page.kids)
    BY <2>3, SeqWithin
  <2>5. \A m \in 1..Len(page.kids) : keys[m] \in Int
    <3> TAKE m \in 1..Len(page.kids)
    <3>1. keys[m] = L2(q, page.centroids[m]) /\ page.centroids[m] \in Int
      BY <2>3, <2>4
    <3>2. L2(q, page.centroids[m]) \in Nat
      BY <3>1, L2Is
    <3>. QED
      BY <3>1, <3>2
  <2> HIDE DEF keys
  <2>6. RankBy(page.kids, keys) \in Seq(ids)
    BY <2>4, <2>5, RankByIs
  <2>7. BeamWidth \in Nat
    BY PageTreeAssumption
  <2>8. Take(RankBy(page.kids, keys), BeamWidth) \in Seq(ids)
    BY <2>6, <2>7, TakeIs
  <2>. QED
    BY <2>8 DEF page, keys
<1> HIDE DEF Closest
<1>5. ASSUME NEW id \in ids, ~IsLeaf(PageById(f, id)), NEW h \in T
      PROVE  FlattenSeq([i \in DOMAIN Closest(PageById(f, id)) |-> h[Closest(PageById(f, id))[i]]])
               \in Seq(ids)
  <2> DEFINE c == Closest(PageById(f, id))
             seqs == [i \in DOMAIN c |-> h[c[i]]]
  <2>1. c \in Seq(ids)
    BY <1>4, <1>5
  <2> HIDE DEF c, ids
  <2>2. DOMAIN c = 1..Len(c) /\ Len(c) \in Nat /\ \A i \in 1..Len(c) : h[c[i]] \in Seq(ids)
    BY <2>1
  <2>3. AreSeqs(Len(c), seqs, ids)
    BY <2>2 DEF AreSeqs
  <2> HIDE DEF seqs
  <2>4. FlattenSeq(seqs) \in Seq(ids)
    BY <2>2, <2>3, FlattenLists
  <2>. QED
    BY <2>4 DEF seqs, c
<1> HIDE DEF ids
<1>6. a \in T
  <2>1. \A id \in ids : <<id>> \in Seq(ids) /\ <<>> \in Seq(ids)
    OBVIOUS
  <2>. QED
    BY <1>1, <2>1
<1>7. ASSUME NEW n \in Nat, NEW h \in T PROVE Level(n, h) \in T
  <2>1. \A id \in ids : <<id>> \in Seq(ids) /\ <<>> \in Seq(ids)
    OBVIOUS
  <2>2. \A id \in ids : ~IsLeaf(PageById(f, id)) =>
           FlattenSeq([i \in DOMAIN Closest(PageById(f, id)) |-> h[Closest(PageById(f, id))[i]]])
             \in Seq(ids)
    BY <1>5
  <2>. QED
    BY <1>1, <2>1, <2>2
<1>8. \A prev : Level(0, prev) = a
  OBVIOUS
<1> HIDE DEF Level, a, T, top
<1>9. g \in [1..top -> [T -> T]]
  <2>1. \A n \in 1..top : [h \in T |-> Level(n, h)] \in [T -> T]
    BY <1>3, <1>7
  <2>. QED
    BY <2>1
<1>10. \E h : Steps(h)
  <2> HIDE DEF g
  <2>1. PICK h : Iterates(h, top, T, a, g)
    BY <1>3, <1>6, <1>9, Iterated
  <2>2. h \in [0..top -> T] /\ h[0] = a /\ \A n \in 1..top : h[n] = g[n][h[n - 1]]
    BY <2>1 DEF Iterates
  <2>3. \A n \in 0..top : h[n] = Level(n, h[n - 1])
    <3> TAKE n \in 0..top
    <3>1. CASE n = 0
      BY <1>8, <2>2, <3>1
    <3>2. CASE n # 0
      <4>1. n \in 1..top /\ n - 1 \in 0..top
        BY <1>3, <3>2
      <4>2. h[n - 1] \in T /\ h[n] = g[n][h[n - 1]]
        BY <2>2, <4>1
      <4>. QED
        BY <4>1, <4>2 DEF g
    <3>. QED
      BY <3>1, <3>2
  <2>4. h = [n \in 0..top |-> h[n]]
    BY <2>2
  <2>. QED
    BY <2>3, <2>4
<1>11. \A n \in 0..top : below[n] = Level(n, below[n - 1])
  <2>1. Steps(below)
    BY <1>10
  <2> HIDE DEF below
  <2>. QED
    BY <2>1
<1> HIDE DEF below, g
<1> DEFINE S == {n \in 0..top : below[n] \in T}
<1>12. 0 \in S
  BY <1>3, <1>6, <1>8, <1>11
<1>13. \A n \in 0..(top - 1) : n \in S => n + 1 \in S
  <2> SUFFICES ASSUME NEW n \in 0..(top - 1), n \in S PROVE n + 1 \in S
    OBVIOUS
  <2>1. n + 1 \in 0..top /\ n + 1 \in Nat /\ (n + 1) - 1 = n
    BY <1>3
  <2>2. below[n + 1] = Level(n + 1, below[n]) /\ below[n] \in T
    BY <1>11, <2>1
  <2>3. below[n + 1] \in T
    BY <1>7, <2>1, <2>2
  <2>. QED
    BY <2>1, <2>3
<1> HIDE DEF S
<1>14. top \in S
  <2>1. \A n \in 0..top : n \in S
    BY <1>3, <1>12, <1>13, UpTo
  <2>. QED
    BY <1>3, <2>1
<1>15. all \in Seq(ids)
  BY <1>3, <1>14 DEF S, T
<1> DEFINE places == {i \in DOMAIN all : \A j \in 1..(i - 1) : all[j] # all[i]}
<1> HIDE DEF all
<1>16. places \in SUBSET (1..Len(all))
  BY <1>15
<1>17. CollectLeaves(f, q) = Chosen(all, places)
  BY <1>2
<1> HIDE DEF places
<1>18. Chosen(all, places) \in Seq(ids)
  BY <1>15, <1>16, ChosenOf
<1>. QED
  BY <1>17, <1>18 DEF ids

\* Skip edges lead to leaves of the index.
LEMMA FollowIs ==
    ASSUME NEW f, NEW from \in Nat, NEW to \in Nat, Indexes(f, from, to),
           NEW leaves \in Seq(IdsOf(f.pages))
    PROVE  FollowSkipEdges(f, leaves) \in Seq(IdsOf(f.pages))
<1> DEFINE ids == IdsOf(f.pages)
           T == Seq(ids)
           Edges(id) == IF id \in DOMAIN f.skip THEN f.skip[id] ELSE <<>>
           seqs == [i \in DOMAIN leaves |-> Edges(leaves[i])]
           next == FlattenSeq(seqs)
           top == Len(next)
           Level(n, v) == IF n = 0 THEN leaves
                          ELSE IF Len(v) >= MaxCandidateLeaves \/ Contains(v, next[n]) THEN v
                          ELSE Append(v, next[n])
           Steps(h) == h = [n \in 0..top |-> Level(n, h[n - 1])]
           visited == CHOOSE h : Steps(h)
           g == [n \in 1..top |-> [v \in T |-> Level(n, v)]]
<1>1. FollowSkipEdges(f, leaves) = visited[top]
  BY Zenon DEF FollowSkipEdges, visited, Steps, Level, top, next, seqs, Edges
<1>2. \A id : Edges(id) \in Seq(ids)
  <2> TAKE id
  <2>1. CASE id \in DOMAIN f.skip
    <3>1. f.skip[id] \in Seq(Nat) /\ \A m \in 1..Len(f.skip[id]) : f.skip[id][m] \in ids
      BY <2>1 DEF Indexes, GoodSkip
    <3> HIDE DEF ids
    <3>2. f.skip[id] \in Seq(ids)
      BY <3>1, SeqWithin
    <3>. QED
      BY <2>1, <3>2
  <2>2. CASE id \notin DOMAIN f.skip
    BY <2>2
  <2>. QED
    BY <2>1, <2>2
<1> HIDE DEF Edges
<1>3. leaves \in Seq(ids) /\ Len(leaves) \in Nat /\ DOMAIN leaves = 1..Len(leaves)
  OBVIOUS
<1> HIDE DEF ids
<1>4. AreSeqs(Len(leaves), seqs, ids)
  BY <1>2, <1>3 DEF AreSeqs
<1> HIDE DEF seqs
<1>5. next \in Seq(ids)
  BY <1>3, <1>4, FlattenLists
<1> HIDE DEF next
<1>6. top \in Nat /\ \A n \in 1..top : next[n] \in ids
  BY <1>5
<1>7. ASSUME NEW n \in 0..top, NEW v \in T PROVE Level(n, v) \in T
  <2>1. CASE n = 0
    BY <1>3, <2>1
  <2>2. CASE n # 0
    <3>1. next[n] \in ids
      BY <1>6, <2>2
    <3>2. Append(v, next[n]) \in Seq(ids)
      BY <3>1
    <3>. QED
      BY <2>2, <3>2
  <2>. QED
    BY <2>1, <2>2
<1>8. \A v : Level(0, v) = leaves
  OBVIOUS
<1>9. leaves \in T
  BY <1>3
<1> HIDE DEF Level, T, top
<1>10. g \in [1..top -> [T -> T]]
  <2>1. \A n \in 1..top : [v \in T |-> Level(n, v)] \in [T -> T]
    BY <1>6, <1>7
  <2>. QED
    BY <2>1
<1>11. \E h : Steps(h)
  <2> HIDE DEF g
  <2>1. PICK h : Iterates(h, top, T, leaves, g)
    BY <1>6, <1>9, <1>10, Iterated
  <2>2. h \in [0..top -> T] /\ h[0] = leaves /\ \A n \in 1..top : h[n] = g[n][h[n - 1]]
    BY <2>1 DEF Iterates
  <2>3. \A n \in 0..top : h[n] = Level(n, h[n - 1])
    <3> TAKE n \in 0..top
    <3>1. CASE n = 0
      BY <1>8, <2>2, <3>1
    <3>2. CASE n # 0
      <4>1. n \in 1..top /\ n - 1 \in 0..top
        BY <1>6, <3>2
      <4>2. h[n - 1] \in T /\ h[n] = g[n][h[n - 1]]
        BY <2>2, <4>1
      <4>. QED
        BY <4>1, <4>2 DEF g
    <3>. QED
      BY <3>1, <3>2
  <2>4. h = [n \in 0..top |-> h[n]]
    BY <2>2
  <2>. QED
    BY <2>3, <2>4
<1>12. \A n \in 0..top : visited[n] = Level(n, visited[n - 1])
  <2>1. Steps(visited)
    BY <1>11
  <2> HIDE DEF visited
  <2>. QED
    BY <2>1
<1> HIDE DEF visited, g
<1> DEFINE S == {n \in 0..top : visited[n] \in T}
<1>13. 0 \in S
  BY <1>6, <1>8, <1>9, <1>12
<1>14. \A n \in 0..(top - 1) : n \in S => n + 1 \in S
  <2> SUFFICES ASSUME NEW n \in 0..(top - 1), n \in S PROVE n + 1 \in S
    OBVIOUS
  <2>1. n + 1 \in 0..top /\ (n + 1) - 1 = n
    BY <1>6
  <2>2. visited[n + 1] = Level(n + 1, visited[n]) /\ visited[n] \in T
    BY <1>12, <2>1
  <2>3. visited[n + 1] \in T
    BY <1>7, <2>1, <2>2
  <2>. QED
    BY <2>1, <2>3
<1> HIDE DEF S
<1>15. top \in S
  <2>1. \A n \in 0..top : n \in S
    BY <1>6, <1>13, <1>14, UpTo
  <2>. QED
    BY <1>6, <2>1
<1>. QED
  BY <1>1, <1>15 DEF S, T, ids

\* The leaves that are scored are leaves of the index.
LEMMA TruncateIs ==
    ASSUME NEW f, NEW from \in Nat, NEW to \in Nat, Indexes(f, from, to), NEW q \in Int,
           NEW val, Valued(val, from..(to - 1)), NEW leaves \in Seq(IdsOf(f.pages))
    PROVE  TruncateCandidates(f, leaves, q, val) \in Seq(IdsOf(f.pages))
<1> DEFINE ids == IdsOf(f.pages)
           keys == [i \in DOMAIN leaves |-> L2(q, Centroid(PageById(f, leaves[i]), val))]
<1>1. leaves \in Seq(ids) /\ DOMAIN leaves = 1..Len(leaves)
  OBVIOUS
<1>2. TruncateCandidates(f, leaves, q, val)
        = IF Len(leaves) <= MaxCandidateLeaves THEN leaves
          ELSE Take(RankBy(leaves, keys), MaxCandidateLeaves)
  BY DEF TruncateCandidates
<1>3. GoodPages(f.pages, from..(to - 1))
  BY DEF Indexes
<1>4. \A i \in 1..Len(leaves) : keys[i] \in Int
  <2> TAKE i \in 1..Len(leaves)
  <2>1. leaves[i] \in ids
    BY <1>1
  <2>2. PICK a \in 1..Len(f.pages) : PageById(f, leaves[i]) = f.pages[a]
    BY <2>1, PageByIdIs
  <2>3. Centroid(f.pages[a], val) \in Int
    BY <1>3, CentroidIs
  <2>4. L2(q, Centroid(f.pages[a], val)) \in Nat
    BY <2>3, L2Is
  <2>5. keys[i] = L2(q, Centroid(f.pages[a], val))
    BY <1>1, <2>2
  <2>. QED
    BY <2>4, <2>5
<1> HIDE DEF ids, keys
<1>5. MaxCandidateLeaves \in Nat
  BY PageTreeAssumption
<1>6. RankBy(leaves, keys) \in Seq(ids)
  BY <1>1, <1>4, RankByIs
<1>7. Take(RankBy(leaves, keys), MaxCandidateLeaves) \in Seq(ids)
  BY <1>5, <1>6, TakeIs
<1>. QED
  BY <1>1, <1>2, <1>7 DEF ids

\* A search of an index finds rows of the index, at their distance.
LEMMA IndexSearchIs ==
    ASSUME NEW f, NEW from \in Nat, NEW to \in Nat, Indexes(f, from, to), NEW q \in Int,
           NEW val, Valued(val, from..(to - 1)), NEW k \in Nat
    PROVE  SearchIndexCandidates(f, q, k, val) \in Seq(Pairs(from..(to - 1), q, val))
<1> DEFINE rows == from..(to - 1)
           T == Pairs(rows, q, val)
<1>1. rows \in SUBSET Nat
  OBVIOUS
<1>2. T \in SUBSET Candidate
  <2> HIDE DEF rows
  <2>1. Valued(val, rows)
    BY DEF rows
  <2>. QED
    BY <1>1, <2>1, PairsAre DEF OneEach
<1>3. SearchExhaustiveLeaves(f, q, k, val) \in Seq(T)
  <2> DEFINE s == ScoreLeaves(Leaves(f), q, val)
  <2>1. GoodPages(f.pages, rows)
    BY DEF Indexes
  <2> HIDE DEF rows
  <2>2. s \in Seq(T)
    BY <1>1, <2>1, LeavesList, ScoreLeavesIs DEF Leaves
  <2>3. SearchExhaustiveLeaves(f, q, k, val) = TopK(s, k)
    BY DEF SearchExhaustiveLeaves
  <2> HIDE DEF s, T
  <2>. QED
    BY <1>2, <2>2, <2>3, TopKOf
<1>4. ASSUME NEW useSkip \in BOOLEAN PROVE SearchIndex(f, q, k, useSkip, val) \in Seq(T)
  <2> DEFINE found == CollectLeaves(f, q)
             more == IF useSkip THEN FollowSkipEdges(f, found) ELSE found
             leaves == TruncateCandidates(f, more, q, val)
             pages == [i \in DOMAIN leaves |-> PageById(f, leaves[i])]
             s == ScoreLeaves(pages, q, val)
             ids == IdsOf(f.pages)
  <2>1. SearchIndex(f, q, k, useSkip, val) = IF k = 0 THEN <<>> ELSE TopK(s, k)
    BY DEF SearchIndex
  <2>2. found \in Seq(ids)
    BY CollectIs
  <2> HIDE DEF found
  <2>3. more \in Seq(ids)
    BY <2>2, FollowIs
  <2> HIDE DEF more
  <2>4. leaves \in Seq(ids)
    BY <2>3, TruncateIs
  <2> HIDE DEF leaves
  <2>5. Len(leaves) \in Nat /\ DOMAIN leaves = 1..Len(leaves)
    BY <2>4
  <2>6. \A i \in 1..Len(leaves) : pages[i] \in PageType /\ pages[i].ids \in Seq(rows)
    <3> TAKE i \in 1..Len(leaves)
    <3>1. leaves[i] \in ids /\ pages[i] = PageById(f, leaves[i])
      BY <2>4, <2>5
    <3>2. PICK a \in 1..Len(f.pages) : PageById(f, leaves[i]) = f.pages[a]
      BY <3>1, PageByIdIs
    <3>3. f.pages[a] \in PageType /\ f.pages[a].ids \in Seq(rows)
      BY PageByIdIs
    <3>. QED
      BY <3>1, <3>2, <3>3
  <2>7. pages \in Seq(PageType) /\ Len(pages) = Len(leaves)
    <3>1. pages \in [1..Len(leaves) -> PageType]
      BY <2>5, <2>6
    <3> HIDE DEF pages
    <3>. QED
      BY <2>5, <3>1, FunctionIsSeq
  <2> HIDE DEF pages, rows
  <2>8. s \in Seq(T)
    BY <1>1, <2>6, <2>7, ScoreLeavesIs
  <2> HIDE DEF s, T
  <2>9. TopK(s, k) \in Seq(T)
    BY <1>2, <2>8, TopKOf
  <2>. QED
    BY <2>1, <2>9
<1>5. SearchIndexCandidates(f, q, k, val)
        = IF f.rows <= ExhaustiveLimit THEN SearchExhaustiveLeaves(f, q, k, val)
          ELSE SearchIndex(f, q, k, f.rows <= SkipLimit, val)
  BY DEF SearchIndexCandidates
<1>6. (f.rows <= SkipLimit) \in BOOLEAN
  OBVIOUS
<1> HIDE DEF T
<1>. QED
  BY <1>3, <1>4, <1>5, <1>6 DEF T

-----------------------------------------------------------------------------
(* Searching the fragments                                                 *)

\* How many fragments are searched.
LEMMA BudgetIs ==
    ASSUME NEW count \in Nat, NEW rows \in Nat
    PROVE  /\ SearchFragmentBudget(count, rows) \in Nat
           /\ count <= 2 => SearchFragmentBudget(count, rows) = count
<1>1. SearchRows \in Nat \ {0} /\ SearchBudget \in Nat
  BY IncrementalIndexAssumption
<1>2. rows \div SearchRows \in Nat
  BY <1>1
<1> DEFINE a == Max({2, rows \div SearchRows})
<1>3. a \in Nat
  BY <1>2, MaxOfTwo
<1> HIDE DEF a
<1>4. Min({a, count, SearchBudget}) \in Nat
  <2>1. {a, count, SearchBudget} \in SUBSET Nat /\ {a, count, SearchBudget} # {}
    BY <1>1, <1>3
  <2>. QED
    BY <2>1, MinIsLeast
<1>. QED
  BY <1>4 DEF SearchFragmentBudget, a

\* How many candidates of each: with few fragments, as many as are wanted.
LEMMA PerFragmentIs ==
    ASSUME NEW k \in Nat, NEW count \in Nat, NEW chosen \in Nat
    PROVE  LET n == Max({chosen, 1})
               per == Max({k, (k * count + n - 1) \div n})
           IN  per \in Nat /\ k <= per
<1> DEFINE n == Max({chosen, 1})
           m == k * count
           d == (m + n - 1) \div n
<1>1. n \in Nat \ {0}
  BY MaxOfTwo
<1>2. m \in Nat
  OBVIOUS
<1> HIDE DEF n, m
<1>3. d \in Nat
  <2>1. m + n - 1 \in Nat
    BY <1>1, <1>2
  <2>. QED
    BY <1>1, <2>1
<1> HIDE DEF d
<1>4. Max({k, d}) \in Nat /\ k <= Max({k, d})
  BY <1>3, MaxOfTwo
<1>. QED
  BY <1>4 DEF d, m, n

\* The rows of a fragment are indexed rows.
LEMMA CutsWithin ==
    ASSUME NEW count \in Nat, NEW frags, NEW cut, Follow(count, frags, cut), NEW to \in Nat,
           cut[0] = 0, cut[count] = to
    PROVE  \A i \in 1..count : /\ cut[i - 1] \in Nat /\ cut[i] \in Nat
                               /\ cut[i - 1]..(cut[i] - 1) \subseteq 0..(to - 1)
                               /\ Indexes(frags[i], cut[i - 1], cut[i])
<1>1. cut \in [0..count -> Nat] /\ \A i \in 1..count : cut[i - 1] < cut[i] /\ Indexes(frags[i], cut[i - 1], cut[i])
  BY DEF Follow
<1>2. \A i, j \in 0..count : i <= j => cut[i] <= cut[j]
  BY <1>1, CutsGrow
<1> TAKE i \in 1..count
<1>3. i - 1 \in 0..count /\ i \in 0..count /\ count \in 0..count /\ i <= count
  OBVIOUS
<1>4. cut[i - 1] \in Nat /\ cut[i] \in Nat /\ cut[i] <= to
  BY <1>1, <1>2, <1>3
<1>5. cut[i - 1]..(cut[i] - 1) \subseteq 0..(to - 1)
  BY <1>4
<1>. QED
  BY <1>1, <1>4, <1>5

\* The fragments that a search with such a budget goes through.
Searched(frags, budget, q, val) ==
    IF Len(frags) <= budget THEN frags
    ELSE Take(RankBy(frags, [i \in DOMAIN frags |-> L2(q, RootCentroid(frags[i], val))]), budget)

\* A sequence of some of the first count fragments.
SomeOf(chosen, count, frags) ==
    /\ Len(chosen) \in Nat /\ DOMAIN chosen = 1..Len(chosen)
    /\ \A i \in 1..Len(chosen) : \E j \in 1..count : chosen[i] = frags[j]

\* They are some of the fragments.
LEMMA ChosenFragments ==
    ASSUME NEW count \in Nat, NEW frags, NEW cut, Follow(count, frags, cut), NEW to \in Nat,
           cut[0] = 0, cut[count] = to,
           NEW q \in Int, NEW val, Valued(val, 0..(to - 1)), NEW budget \in Nat
    PROVE  SomeOf(Searched(frags, budget, q, val), count, frags)
<1> DEFINE keys == [i \in DOMAIN frags |-> L2(q, RootCentroid(frags[i], val))]
           ranked == RankBy(frags, keys)
           cutoff == Take(ranked, budget)
<1>1. PICK F : frags \in Seq(F)
  BY DEF Follow
<1>2. Len(frags) = count /\ DOMAIN frags = 1..count
  BY <1>1 DEF Follow
<1>3. \A i \in 1..count : keys[i] \in Int
  <2> TAKE i \in 1..count
  <2>1. /\ cut[i - 1] \in Nat /\ cut[i] \in Nat /\ Indexes(frags[i], cut[i - 1], cut[i])
        /\ cut[i - 1]..(cut[i] - 1) \subseteq 0..(to - 1)
    BY CutsWithin
  <2>2. Valued(val, cut[i - 1]..(cut[i] - 1))
    BY <2>1 DEF Valued
  <2>3. frags[i].root \in IdsOf(frags[i].pages) /\ GoodPages(frags[i].pages, cut[i - 1]..(cut[i] - 1))
    BY <2>1 DEF Indexes
  <2>4. PICK a \in 1..Len(frags[i].pages) : PageById(frags[i], frags[i].root) = frags[i].pages[a]
    BY <2>1, <2>3, PageByIdIs
  <2>5. RootCentroid(frags[i], val) \in Int
    <3>1. Centroid(frags[i].pages[a], val) \in Int
      BY <2>2, <2>3, CentroidIs
    <3>. QED
      BY <2>4, <3>1 DEF RootCentroid
  <2>6. L2(q, RootCentroid(frags[i], val)) \in Nat
    BY <2>5, L2Is
  <2>7. keys[i] = L2(q, RootCentroid(frags[i], val))
    BY <1>2
  <2>. QED
    BY <2>6, <2>7
<1> HIDE DEF keys
<1>4. /\ ranked \in Seq(F) /\ Len(ranked) = count
      /\ \A m \in 1..count : \E p \in 1..count : ranked[m] = frags[p]
  <2>1. \A m \in 1..Len(frags) : keys[m] \in Int
    BY <1>2, <1>3
  <2>2. /\ ranked \in Seq(F) /\ Len(ranked) = Len(frags)
        /\ \A m \in 1..Len(frags) : \E p \in 1..Len(frags) : ranked[m] = frags[p]
    BY <1>1, <2>1, RankByIs
  <2> HIDE DEF ranked
  <2>. QED
    BY <1>2, <2>2
<1> HIDE DEF ranked
<1>5. cutoff \in Seq(F) /\ \A m \in 1..Len(cutoff) : m \in 1..count /\ cutoff[m] = ranked[m]
  BY <1>4, TakeIs
<1> HIDE DEF cutoff
<1> DEFINE chosen == IF Len(frags) <= budget THEN frags ELSE cutoff
<1>6. Len(chosen) \in Nat /\ DOMAIN chosen = 1..Len(chosen)
  BY <1>1, <1>5
<1>7. \A i \in 1..Len(chosen) : \E j \in 1..count : chosen[i] = frags[j]
  BY <1>2, <1>4, <1>5
<1>8. chosen = Searched(frags, budget, q, val)
  BY DEF cutoff, ranked, keys, Searched
<1>. QED
  BY <1>6, <1>7, <1>8 DEF SomeOf

\* A search of the fragments finds indexed rows, at their distance.
LEMMA FragmentSearchIs ==
    ASSUME NEW frags, NEW to \in Nat, Covers(frags, to), NEW q \in Int,
           NEW val, Valued(val, 0..(to - 1)), NEW k \in Nat
    PROVE  SearchCandidates(frags, to, q, k, val) \in Seq(Pairs(0..(to - 1), q, val))
<1> DEFINE rows == 0..(to - 1)
           T == Pairs(rows, q, val)
<1>1. PICK count \in Nat : \E cut : Follow(count, frags, cut) /\ cut[0] = 0 /\ cut[count] = to
  BY DEF Covers
<1>2. PICK cut : Follow(count, frags, cut) /\ cut[0] = 0 /\ cut[count] = to
  BY <1>1
<1>3. Len(frags) = count
  BY <1>2 DEF Follow
<1>4. \A i \in 1..count : /\ cut[i - 1] \in Nat /\ cut[i] \in Nat
                          /\ cut[i - 1]..(cut[i] - 1) \subseteq rows
                          /\ Indexes(frags[i], cut[i - 1], cut[i])
  BY <1>2, CutsWithin
<1>5. rows \in SUBSET Nat /\ Valued(val, rows)
  OBVIOUS
<1> HIDE DEF rows
<1>6. T \in SUBSET Candidate
  BY <1>5, PairsAre DEF OneEach
<1> DEFINE budget == SearchFragmentBudget(Len(frags), to)
           chosen == Searched(frags, budget, q, val)
           n == Max({Len(chosen), 1})
           per == Max({k, (k * Len(frags) + n - 1) \div n})
           seqs == [i \in DOMAIN chosen |-> SearchIndexCandidates(chosen[i], q, per, val)]
           found == FlattenSeq(seqs)
<1>7. SearchCandidates(frags, to, q, k, val) = TopK(found, k)
  BY DEF SearchCandidates, Searched
<1>8. budget \in Nat
  BY <1>3, BudgetIs
<1> HIDE DEF budget
<1>9. /\ Len(chosen) \in Nat /\ DOMAIN chosen = 1..Len(chosen)
       /\ \A i \in 1..Len(chosen) : \E j \in 1..count : chosen[i] = frags[j]
  <2>1. SomeOf(chosen, count, frags)
    BY <1>2, <1>8, ChosenFragments
  <2>. QED
    BY <2>1 DEF SomeOf
<1> HIDE DEF chosen
<1>10. per \in Nat
  BY <1>3, <1>9, PerFragmentIs
<1> HIDE DEF per, n
<1>11. AreSeqs(Len(chosen), seqs, T)
  <2>1. ASSUME NEW i \in 1..Len(chosen) PROVE seqs[i] \in Seq(T)
    <3>1. PICK j \in 1..count : chosen[i] = frags[j]
      BY <1>9
    <3> DEFINE part == cut[j - 1]..(cut[j] - 1)
    <3>2. /\ cut[j - 1] \in Nat /\ cut[j] \in Nat /\ part \subseteq rows
          /\ Indexes(frags[j], cut[j - 1], cut[j])
      BY <1>4
    <3>3. Valued(val, part)
      BY <1>5, <3>2 DEF Valued
    <3>4. SearchIndexCandidates(frags[j], q, per, val) \in Seq(Pairs(part, q, val))
      BY <1>10, <3>2, <3>3, IndexSearchIs
    <3>5. Pairs(part, q, val) \subseteq T
      BY <3>2 DEF Pairs
    <3>6. seqs[i] = SearchIndexCandidates(frags[j], q, per, val)
      BY <1>9, <3>1
    <3> HIDE DEF part, T, seqs
    <3>. QED
      BY <3>4, <3>5, <3>6
  <2>. QED
    BY <1>9, <2>1 DEF AreSeqs
<1> HIDE DEF seqs, T
<1>12. found \in Seq(T)
  BY <1>9, <1>11, FlattenLists
<1> HIDE DEF found
<1>13. TopK(found, k) \in Seq(T)
  BY <1>6, <1>12, TopKOf
<1>. QED
  BY <1>7, <1>13 DEF T, rows

-----------------------------------------------------------------------------
(* The rows that wait, and the answer                                      *)

\* The rows of a span in order of distance.
Sorts(sorted, from, to, q, val) ==
    /\ InOrder(sorted) /\ Len(sorted) = to - from
    /\ ToSet(sorted) = Pairs(from..(to - 1), q, val)
    /\ \A k \in Nat : TopK(Scored(Span(from, to), q, val), k) = Take(sorted, k)

\* Every span has them.
LEMMA SpanScored ==
    ASSUME NEW from \in Nat, NEW to \in Nat, from <= to, NEW q \in Int,
           NEW val, Valued(val, from..(to - 1))
    PROVE  \E sorted : Sorts(sorted, from, to, q, val)
<1> DEFINE rows == from..(to - 1)
           ids == Span(from, to)
           n == to - from
           s == Scored(ids, q, val)
<1>1. n \in Nat /\ rows \in SUBSET Nat
  OBVIOUS
<1>2. ids = [i \in 1..n |-> from + i - 1]
  BY DEF Span
<1>3. \A i \in 1..n : from + i - 1 \in rows
  OBVIOUS
<1>4. ids \in Seq(rows) /\ Len(ids) = n
  <2>1. ids \in [1..n -> rows]
    BY <1>2, <1>3
  <2> HIDE DEF ids, n, rows
  <2>. QED
    BY <1>1, <2>1, FunctionIsSeq
<1>5. \A m \in 1..n : ids[m] = from + m - 1
  BY <1>2
<1> HIDE DEF ids
<1>6. \A m, o \in 1..Len(ids) : ids[m] = ids[o] => m = o
  BY <1>4, <1>5
<1>7. \A r \in rows : \E m \in 1..Len(ids) : ids[m] = r
  <2> TAKE r \in rows
  <2>1. r - from + 1 \in 1..n /\ ids[r - from + 1] = r
    BY <1>5
  <2>. QED
    BY <1>4, <2>1
<1>8. Valued(val, rows)
  OBVIOUS
<1> HIDE DEF rows, n
<1>9. s \in Seq(Pairs(rows, q, val)) /\ Len(s) = n
  BY <1>1, <1>4, ScoredIs
<1>10. IsInjective(s) /\ ToSet(s) = Pairs(rows, q, val)
  BY <1>1, <1>4, <1>6, <1>7, ScoredOnce
<1>11. Pairs(rows, q, val) \in SUBSET Candidate
  BY <1>1, <1>8, PairsAre DEF OneEach
<1> HIDE DEF s
<1>12. s \in Seq(Candidate)
  BY <1>9, <1>11
<1>13. PICK sorted : /\ InOrder(sorted) /\ Len(sorted) = Len(s) /\ ToSet(sorted) = ToSet(s)
                     /\ \A k \in Nat : TopK(s, k) = Take(sorted, k)
  BY <1>10, <1>12, TopKSorts
<1>. QED
  BY <1>9, <1>10, <1>13 DEF s, ids, rows, n, Sorts

\* The best of some candidates are merged with others: a candidate of theirs is
\* among the first k then, or the first k are all better.
LEMMA NoneMissed ==
    ASSUME NEW tail, InOrder(tail), NEW ranked, InOrder(ranked), NEW k \in Nat \ {0},
           ToSet(Take(tail, k)) \subseteq ToSet(ranked), NEW e \in ToSet(tail)
    PROVE  \/ \E i \in 1..Len(ranked) : i <= k /\ ranked[i] = e
           \/ k <= Len(ranked) /\ \A i \in 1..k : Better(ranked[i], e)
<1> DEFINE first == Take(tail, k)
<1>1. /\ InOrder(first) /\ Len(first) = (IF k <= Len(tail) THEN k ELSE Len(tail))
      /\ \A m \in 1..Len(first) : m \in 1..Len(tail) /\ first[m] = tail[m]
      /\ \A m \in 1..Len(tail) : m <= k => tail[m] \in ToSet(first)
  BY PrefixInOrder
<1>2. ToSet(first) \subseteq ToSet(ranked)
  OBVIOUS
<1> HIDE DEF first
<1>3. /\ ranked \in Seq(Candidate) /\ Len(ranked) \in Nat
      /\ \A m \in 1..Len(ranked) : ranked[m] \in Candidate
      /\ \A m, n \in 1..Len(ranked) : m < n => Better(ranked[m], ranked[n])
  BY OrderIs
<1>4. /\ tail \in Seq(Candidate) /\ Len(tail) \in Nat
      /\ \A m \in 1..Len(tail) : tail[m] \in Candidate
      /\ \A m, n \in 1..Len(tail) : m < n => Better(tail[m], tail[n])
  BY OrderIs
<1>5. PICK m \in 1..Len(tail) : tail[m] = e
  BY <1>4, Members
<1>6. CASE m <= k
  <2>1. e \in ToSet(ranked)
    BY <1>1, <1>2, <1>5, <1>6
  <2>2. PICK i \in 1..Len(ranked) : ranked[i] = e
    BY <1>3, <2>1, Members
  <2>3. CASE i <= k
    BY <2>2, <2>3
  <2>4. CASE ~(i <= k)
    <3>1. k <= Len(ranked) /\ \A j \in 1..k : j \in 1..Len(ranked) /\ j < i
      BY <1>3, <2>4
    <3>2. \A j \in 1..k : Better(ranked[j], ranked[i])
      BY <1>3, <3>1
    <3>. QED
      BY <2>2, <3>1, <3>2
  <2>. QED
    BY <2>3, <2>4
<1>7. CASE ~(m <= k)
  <2>1. k \in 1..Len(tail) /\ k < m /\ Len(first) = k /\ k \in 1..Len(first)
    BY <1>1, <1>4, <1>7
  <2>2. first[k] = tail[k] /\ first[k] \in ToSet(first)
    <3>1. first \in Seq(Candidate)
      BY <1>1, OrderIs
    <3>. QED
      BY <1>1, <2>1, <3>1, Members
  <2>3. PICK i \in 1..Len(ranked) : ranked[i] = first[k]
    BY <1>2, <1>3, <2>2, Members
  <2>4. k <= i
    BY <1>1, <1>2, <2>1, <2>3, PlaceGrows
  <2>5. Better(ranked[i], e) /\ ranked[i] \in Candidate /\ e \in Candidate
    BY <1>3, <1>4, <1>5, <2>1, <2>2, <2>3
  <2>6. ASSUME NEW j \in 1..k PROVE Better(ranked[j], e)
    <3>1. j \in 1..Len(ranked) /\ (j = i \/ j < i)
      BY <1>3, <2>4
    <3>2. CASE j = i
      BY <2>5, <3>2
    <3>3. CASE j < i
      <4>1. Better(ranked[j], ranked[i]) /\ ranked[j] \in Candidate
        BY <1>3, <3>1, <3>3
      <4>. QED
        BY <2>5, <4>1, BetterIs
    <3>. QED
      BY <3>1, <3>2, <3>3
  <2>7. k <= Len(ranked)
    BY <1>3, <2>4
  <2>. QED
    BY <2>6, <2>7
<1>. QED
  BY <1>6, <1>7

\* Where rows and queries lie, as the searches see them.
LEMMA ScaledIs ==
    ASSUME IndexInv, NEW q \in Points
    PROVE  /\ q \div scale \in Int
           /\ Len(x) \in Nat /\ indexed_rows \in Nat /\ indexed_rows <= Len(x)
           /\ Valued(Val(x, scale), 0..(Len(x) - 1))
           /\ Valued(Val(x, scale), 0..(indexed_rows - 1))
           /\ Valued(Val(x, scale), indexed_rows..(Len(x) - 1))
           /\ \A r \in 0..(Len(x) - 1) : Val(x, scale)[r] = x[r + 1] \div scale
           /\ Tailing = Span(indexed_rows, Len(x))
           /\ [i \in DOMAIN x |-> i - 1] = Span(0, Len(x))
<1>1. x \in Seq(Points) /\ scale \in Scales /\ indexed_rows \in 0..Len(x)
  BY DEF IndexInv
<1>2. q \in Nat /\ scale \in Nat \ {0}
  BY <1>1, IncrementalIndexAssumption
<1>3. q \div scale \in Int
  BY <1>2
<1>4. Len(x) \in Nat /\ DOMAIN x = 1..Len(x) /\ indexed_rows \in Nat /\ indexed_rows <= Len(x)
  BY <1>1
<1>5. Valued(Val(x, scale), 0..(Len(x) - 1))
  BY <1>1, ValIs
<1>6. \A r \in 0..(indexed_rows - 1) : r \in 0..(Len(x) - 1)
  BY <1>4
<1>7. \A r \in indexed_rows..(Len(x) - 1) : r \in 0..(Len(x) - 1)
  BY <1>4
<1>8. Valued(Val(x, scale), 0..(indexed_rows - 1)) /\ Valued(Val(x, scale), indexed_rows..(Len(x) - 1))
  BY <1>5, <1>6, <1>7 DEF Valued
<1>9. \A r \in 0..(Len(x) - 1) : Val(x, scale)[r] = x[r + 1] \div scale
  BY DEF Val
<1>10. Tailing = Span(indexed_rows, Len(x))
  BY DEF Tailing, Span
<1>11. [i \in DOMAIN x |-> i - 1] = Span(0, Len(x))
  <2>1. \A i \in 1..Len(x) : i - 1 = 0 + i - 1
    OBVIOUS
  <2>2. 1..Len(x) = 1..(Len(x) - 0)
    BY <1>4
  <2>. QED
    BY <1>4, <2>1, <2>2 DEF Span
<1>. QED
  BY <1>3, <1>4, <1>5, <1>8, <1>9, <1>10, <1>11

\* The indexed leg of a search.
IndexedLeg(q, k) == IF indexed_rows > 0 /\ indices # <<>>
                    THEN SearchCandidates(indices, indexed_rows, q, k, Val(x, scale))
                    ELSE <<>>

\* Its candidates are indexed rows with their distances (sync.rs:383-429).
LEMMA IndexedLegIs ==
    ASSUME IndexInv, NEW q \in Points, NEW k \in Nat
    PROVE  IndexedLeg(q \div scale, k) \in Seq(Pairs(0..(Len(x) - 1), q \div scale, Val(x, scale)))
<1> DEFINE p == q \div scale
           val == Val(x, scale)
           T == Pairs(0..(Len(x) - 1), p, val)
           leg == SearchCandidates(indices, indexed_rows, p, k, val)
<1>1. p \in Int /\ Valued(val, 0..(indexed_rows - 1)) /\ indexed_rows \in Nat /\ indexed_rows <= Len(x)
      /\ Len(x) \in Nat
  BY ScaledIs
<1>2. Covers(indices, indexed_rows)
  BY DEF IndexInv
<1>3. 0..(indexed_rows - 1) \subseteq 0..(Len(x) - 1)
  BY <1>1
<1> HIDE DEF p, val
<1>4. leg \in Seq(Pairs(0..(indexed_rows - 1), p, val))
  BY <1>1, <1>2, FragmentSearchIs
<1>5. Pairs(0..(indexed_rows - 1), p, val) \subseteq T
  BY <1>3 DEF Pairs
<1> HIDE DEF leg, T
<1>6. leg \in Seq(T) /\ <<>> \in Seq(T)
  BY <1>4, <1>5
<1>7. IndexedLeg(p, k) = IF indexed_rows > 0 /\ indices # <<>> THEN leg ELSE <<>>
  BY DEF IndexedLeg, leg, val
<1>. QED
  BY <1>6, <1>7 DEF T, p, val

\* No row that waits for the index is missed.
LEMMA TailFromInv == IndexInv => TailNeverMissed
<1> SUFFICES ASSUME IndexInv, Len(x) > SmallN, NEW q \in Points, NEW k \in 1..Len(x),
                    NEW r \in indexed_rows..(Len(x) - 1)
             PROVE  LET found == Found(q, k, FALSE)
                        Row == <<r, L2(q \div scale, x[r + 1] \div scale)>>
                    IN  \/ Contains(found, Row)
                        \/ Len(found) = k /\ \A i \in DOMAIN found : Better(found[i], Row)
  BY DEF TailNeverMissed
<1> DEFINE p == q \div scale
           val == Val(x, scale)
           top == Len(x) - 1
           T == Pairs(0..top, p, val)
           Row == <<r, L2(p, x[r + 1] \div scale)>>
           legA == IndexedLeg(p, k)
           legB == TopK(Scored(Tailing, p, val), k)
<1>1. /\ p \in Int /\ Len(x) \in Nat /\ indexed_rows \in Nat /\ indexed_rows <= Len(x)
      /\ Valued(val, 0..top) /\ Valued(val, indexed_rows..top)
      /\ Tailing = Span(indexed_rows, Len(x))
      /\ \A o \in 0..top : val[o] = x[o + 1] \div scale
  BY ScaledIs
<1>2. k \in Nat \ {0} /\ k \in Nat /\ k <= Len(x) /\ k \in Int
  BY <1>1
<1>3. Min({k, Len(x)}) = k /\ Max({k, 1}) = k
  BY <1>1, <1>2, MinOfTwo, MaxOfTwo, SMTT(30)
<1>4. Found(q, k, FALSE) = MergeTopK(legA, legB, k, k, FALSE)
  <2>1. Found(q, k, FALSE) = SearchIndexedAndPending(q, k, FALSE)
    <3>1. SmallN \in Nat
      BY IncrementalIndexAssumption
    <3>2. ~(Len(x) <= SmallN)
      BY <1>1, <3>1
    <3>. QED
      BY <3>2 DEF Found
  <2>2. PoolK(k, FALSE) = k
    BY <1>3 DEF PoolK
  <2>. QED
    BY <1>3, <2>1, <2>2, Zenon DEF SearchIndexedAndPending, IndexedLeg
<1>5. legA \in Seq(T)
  BY <1>2, IndexedLegIs
<1>6. PICK tail : /\ InOrder(tail)
                  /\ ToSet(tail) = Pairs(indexed_rows..top, p, val)
                  /\ \A n \in Nat : TopK(Scored(Span(indexed_rows, Len(x)), p, val), n) = Take(tail, n)
  <2>1. \E tail : Sorts(tail, indexed_rows, Len(x), p, val)
    <3> HIDE DEF p, val
    <3>. QED
      BY <1>1, SpanScored
  <2>. QED
    BY <2>1 DEF Sorts
<1>7. legB = Take(tail, k)
  BY <1>1, <1>2, <1>6
<1>8. 0..top \in SUBSET Nat /\ indexed_rows..top \subseteq 0..top
  BY <1>1
<1>9. Row \in ToSet(tail)
  <2>1. r \in 0..top /\ val[r] = x[r + 1] \div scale
    BY <1>1, <1>8
  <2>2. <<r, L2(p, val[r])>> \in Pairs(indexed_rows..top, p, val)
    BY DEF Pairs
  <2>. QED
    BY <1>6, <2>1, <2>2
<1> HIDE DEF legA, legB, p, val, top, Row
<1>10. OneEach(T) /\ Pairs(indexed_rows..top, p, val) \subseteq T
  BY <1>1, <1>8, PairsAre DEF Pairs
<1> HIDE DEF T
<1>11. /\ legB \in Seq(T)
  <2>1. /\ InOrder(legB) /\ ToSet(legB) \subseteq ToSet(tail)
    BY <1>2, <1>6, <1>7, PrefixInOrder
  <2>2. legB \in Seq(Candidate)
    BY <2>1, OrderIs
  <2>3. \A m \in 1..Len(legB) : legB[m] \in T
    BY <1>6, <1>10, <2>1, <2>2, Members
  <2>. QED
    BY <2>2, <2>3, SeqWithin
<1>12. PICK ranked : /\ InOrder(ranked) /\ ToSet(ranked) = ToSet(legA) \cup ToSet(legB)
                     /\ \A out, pool \in Nat : \A e \in BOOLEAN :
                           MergeTopK(legA, legB, out, pool, e)
                             = Take(Take(IF e /\ Len(ranked) > 1 THEN Tail(ranked) ELSE ranked, pool), out)
  BY <1>5, <1>10, <1>11, MergeTopKIs
<1> DEFINE found == Found(q, k, FALSE)
<1>13. found = Take(Take(ranked, k), k)
  BY <1>2, <1>4, <1>12
<1> HIDE DEF found
<1>14. /\ Len(ranked) \in Nat
       /\ Len(found) = (IF k <= Len(ranked) THEN k ELSE Len(ranked))
       /\ DOMAIN found = 1..Len(found)
       /\ \A m \in 1..Len(found) : m \in 1..Len(ranked) /\ found[m] = ranked[m]
  <2>1. ranked \in Seq(Candidate) /\ Len(ranked) \in Nat
    BY <1>12, OrderIs
  <2> DEFINE t == Take(ranked, k)
  <2>2. /\ t \in Seq(Candidate) /\ Len(t) = (IF k <= Len(ranked) THEN k ELSE Len(ranked))
        /\ \A m \in 1..Len(t) : m \in 1..Len(ranked) /\ t[m] = ranked[m]
    BY <1>2, <2>1, TakeIs
  <2>3. found = Take(t, k)
    BY <1>13
  <2> HIDE DEF t
  <2>4. /\ found \in Seq(Candidate) /\ Len(found) = (IF k <= Len(t) THEN k ELSE Len(t))
        /\ \A m \in 1..Len(found) : m \in 1..Len(t) /\ found[m] = t[m]
    BY <1>2, <2>2, <2>3, TakeIs
  <2>5. Len(found) = Len(t)
    BY <1>2, <2>1, <2>2, <2>4
  <2>. QED
    BY <2>1, <2>2, <2>4, <2>5
<1>15. \/ \E i \in 1..Len(ranked) : i <= k /\ ranked[i] = Row
       \/ k <= Len(ranked) /\ \A i \in 1..k : Better(ranked[i], Row)
  <2>1. ToSet(Take(tail, k)) \subseteq ToSet(ranked)
    BY <1>7, <1>12
  <2>. QED
    BY <1>2, <1>6, <1>9, <1>12, <2>1, NoneMissed
<1>16. Contains(found, Row) \/ (Len(found) = k /\ \A i \in DOMAIN found : Better(found[i], Row))
  <2>1. CASE \E i \in 1..Len(ranked) : i <= k /\ ranked[i] = Row
    <3>1. PICK i \in 1..Len(ranked) : i <= k /\ ranked[i] = Row
      BY <2>1
    <3>2. i \in 1..Len(found) /\ found[i] = Row
      BY <1>2, <1>14, <3>1
    <3>. QED
      BY <3>2 DEF Contains
  <2>2. CASE k <= Len(ranked) /\ \A i \in 1..k : Better(ranked[i], Row)
    BY <1>2, <1>14, <2>2
  <2>. QED
    BY <1>15, <2>1, <2>2
<1>. QED
  BY <1>16 DEF found, Row, p

-----------------------------------------------------------------------------
(* The answer is exact where every leaf is scored                          *)

\* Few enough fragments, each small enough to have every leaf scored.
AllScanned(frags) == Len(frags) <= 2 /\ \A i \in DOMAIN frags : frags[i].rows <= ExhaustiveLimit

\* So does a search of an index that is small enough to scan.
LEMMA ScanIs ==
    ASSUME NEW f, NEW from \in Nat, NEW to \in Nat, Indexes(f, from, to), f.rows <= ExhaustiveLimit,
           NEW q \in Int, NEW val, Valued(val, from..(to - 1)), NEW k \in Nat
    PROVE  ScanOf(SearchIndexCandidates(f, q, k, val), from, to, q, val, k)
<1>1. SearchIndexCandidates(f, q, k, val) = SearchExhaustiveLeaves(f, q, k, val)
  BY DEF SearchIndexCandidates
<1>2. ScanOf(SearchExhaustiveLeaves(f, q, k, val), from, to, q, val, k)
  BY ExhaustiveIs
<1>. QED
  BY <1>1, <1>2

\* It has no candidate twice, and every one that is early enough among all.
LEMMA ScanHas ==
    ASSUME NEW from \in Nat, NEW to \in Nat, NEW q \in Int, NEW val, NEW k \in Nat,
           NEW s, ScanOf(s, from, to, q, val, k)
    PROVE  /\ s \in Seq(Pairs(from..(to - 1), q, val))
           /\ \A i, j \in 1..Len(s) : s[i] = s[j] => i = j
           /\ \A all : InOrder(all) /\ Pairs(from..(to - 1), q, val) \subseteq ToSet(all) =>
                 \A i \in 1..Len(all) : i <= k /\ all[i] \in Pairs(from..(to - 1), q, val) =>
                    \E j \in 1..Len(s) : s[j] = all[i]
<1> DEFINE P == Pairs(from..(to - 1), q, val)
<1>1. PICK sorted : InOrder(sorted) /\ ToSet(sorted) = P /\ s = Take(sorted, k)
  BY DEF ScanOf
<1> HIDE DEF P
<1>2. /\ InOrder(s) /\ ToSet(s) \subseteq P
      /\ \A m \in 1..Len(sorted) : m <= k => sorted[m] \in ToSet(s)
  BY <1>1, PrefixInOrder
<1>3. s \in Seq(Candidate) /\ \A i, j \in 1..Len(s) : s[i] = s[j] => i = j
  BY <1>2, OrderIs
<1>4. s \in Seq(P)
  <2>1. \A m \in 1..Len(s) : s[m] \in P
    BY <1>2, <1>3, Members
  <2>. QED
    BY <1>3, <2>1, SeqWithin
<1>5. ASSUME NEW all, InOrder(all), P \subseteq ToSet(all), NEW i \in 1..Len(all), i <= k, all[i] \in P
      PROVE  \E j \in 1..Len(s) : s[j] = all[i]
  <2>1. sorted \in Seq(Candidate) /\ Len(sorted) \in Nat
    BY <1>1, OrderIs
  <2>2. PICK m \in 1..Len(sorted) : sorted[m] = all[i]
    BY <1>1, <1>5, <2>1, Members
  <2>3. m <= i
    BY <1>1, <1>5, <2>2, PlaceGrows
  <2>4. i \in Nat
    BY <1>5, OrderIs
  <2>5. m <= k
    BY <1>5, <2>1, <2>3, <2>4
  <2>6. all[i] \in ToSet(s)
    BY <1>2, <2>2, <2>5
  <2>. QED
    BY <1>3, <2>6, Members
<1>. QED
  BY <1>3, <1>4, <1>5 DEF P

\* A search that scores every leaf of the fragments finds the indexed rows that
\* are early enough among all.
LEMMA AllScannedIs ==
    ASSUME NEW frags, NEW to \in Nat, Covers(frags, to), AllScanned(frags), NEW q \in Int,
           NEW val, Valued(val, 0..(to - 1)), NEW k \in Nat,
           NEW all, InOrder(all), Pairs(0..(to - 1), q, val) \subseteq ToSet(all),
           NEW i \in 1..Len(all), i <= k, all[i] \in Pairs(0..(to - 1), q, val)
    PROVE  all[i] \in ToSet(SearchCandidates(frags, to, q, k, val))
<1> DEFINE rows == 0..(to - 1)
           T == Pairs(rows, q, val)
<1>1. PICK count \in Nat : \E cut : Follow(count, frags, cut) /\ cut[0] = 0 /\ cut[count] = to
  BY DEF Covers
<1>2. PICK cut : Follow(count, frags, cut) /\ cut[0] = 0 /\ cut[count] = to
  BY <1>1
<1>3. Len(frags) = count /\ DOMAIN frags = 1..count /\ count <= 2
  <2>1. Len(frags) = count /\ \E F : frags \in Seq(F)
    BY <1>2 DEF Follow
  <2>. QED
    BY <2>1 DEF AllScanned
<1>4. \A f \in 1..count : /\ cut[f - 1] \in Nat /\ cut[f] \in Nat
                          /\ cut[f - 1]..(cut[f] - 1) \subseteq rows
                          /\ Indexes(frags[f], cut[f - 1], cut[f])
  BY <1>2, CutsWithin
<1>5. rows \in SUBSET Nat /\ Valued(val, rows)
  OBVIOUS
<1> HIDE DEF rows
<1>6. OneEach(T)
  BY <1>5, PairsAre
<1> DEFINE n == Max({Len(frags), 1})
           per == Max({k, (k * Len(frags) + n - 1) \div n})
           seqs == [f \in 1..count |-> SearchIndexCandidates(frags[f], q, per, val)]
           found == FlattenSeq(seqs)
           part(f) == Pairs(cut[f - 1]..(cut[f] - 1), q, val)
<1>7. SearchCandidates(frags, to, q, k, val) = TopK(found, k)
  <2>1. SearchFragmentBudget(Len(frags), to) = Len(frags)
    BY <1>3, BudgetIs
  <2>2. Len(frags) <= Len(frags)
    BY <1>3
  <2>. QED
    BY <1>3, <2>1, <2>2 DEF SearchCandidates
<1>8. per \in Nat /\ k <= per
  BY <1>3, PerFragmentIs
<1> HIDE DEF per, n
<1>9. \A f \in 1..count : ScanOf(seqs[f], cut[f - 1], cut[f], q, val, per)
  <2> TAKE f \in 1..count
  <2>1. /\ cut[f - 1] \in Nat /\ cut[f] \in Nat /\ cut[f - 1]..(cut[f] - 1) \subseteq rows
        /\ Indexes(frags[f], cut[f - 1], cut[f])
    BY <1>4
  <2>2. Valued(val, cut[f - 1]..(cut[f] - 1))
    BY <1>5, <2>1 DEF Valued
  <2>3. frags[f].rows <= ExhaustiveLimit
    BY <1>3 DEF AllScanned
  <2>4. seqs[f] = SearchIndexCandidates(frags[f], q, per, val)
    OBVIOUS
  <2> HIDE DEF seqs
  <2>. QED
    BY <1>8, <2>1, <2>2, <2>3, <2>4, ScanIs
<1> HIDE DEF seqs
<1>10. \A f \in 1..count : /\ part(f) \subseteq T
                           /\ seqs[f] \in Seq(part(f))
                           /\ \A a, b \in 1..Len(seqs[f]) : seqs[f][a] = seqs[f][b] => a = b
  <2> TAKE f \in 1..count
  <2>1. cut[f - 1] \in Nat /\ cut[f] \in Nat /\ cut[f - 1]..(cut[f] - 1) \subseteq rows
        /\ ScanOf(seqs[f], cut[f - 1], cut[f], q, val, per)
    BY <1>4, <1>9
  <2>2. part(f) \subseteq T
    BY <2>1 DEF Pairs
  <2> DEFINE start == cut[f - 1]
             end == cut[f]
             s == seqs[f]
  <2>3. s \in Seq(Pairs(start..(end - 1), q, val)) /\ \A a, b \in 1..Len(s) : s[a] = s[b] => a = b
    <3>1. start \in Nat /\ end \in Nat /\ ScanOf(s, start, end, q, val, per) /\ per \in Nat
      BY <1>8, <2>1
    <3> HIDE DEF start, end, s
    <3>. QED
      BY <3>1, ScanHas
  <2>. QED
    BY <2>2, <2>3
<1>11. \A f, g \in 1..count : part(f) \cap part(g) # {} => f = g
  <2> SUFFICES ASSUME NEW f \in 1..count, NEW g \in 1..count, NEW e \in part(f), e \in part(g)
               PROVE  f = g
    OBVIOUS
  <2>1. e[1] \in cut[f - 1]..(cut[f] - 1) /\ e[1] \in cut[g - 1]..(cut[g] - 1)
    BY DEF Pairs
  <2>2. \A a, b \in 0..count : a <= b => cut[a] <= cut[b]
    BY <1>2, CutsGrow DEF Follow
  <2>3. /\ cut[f - 1] \in Nat /\ cut[f] \in Nat /\ cut[g - 1] \in Nat /\ cut[g] \in Nat
    BY <1>4
  <2>4. CASE f < g
    <3>1. cut[f] <= cut[g - 1]
      BY <2>2, <2>4
    <3>. QED
      BY <2>1, <2>3, <3>1, SMTT(30)
  <2>5. CASE g < f
    <3>1. cut[g] <= cut[f - 1]
      BY <2>2, <2>5
    <3>. QED
      BY <2>1, <2>3, <3>1, SMTT(30)
  <2>. QED
    BY <2>4, <2>5
<1> HIDE DEF T, part
<1>12. AreSeqs(count, seqs, T)
  <2>1. seqs = [f \in 1..count |-> seqs[f]]
    BY DEF seqs
  <2>2. \A f \in 1..count : seqs[f] \in Seq(T)
    BY <1>10
  <2>. QED
    BY <2>1, <2>2 DEF AreSeqs
<1>13. found \in Seq(T) /\ Lists(found, count, seqs)
  <2> HIDE DEF found
  <2>1. FlattenSeq(seqs) \in Seq(T) /\ Lists(FlattenSeq(seqs), count, seqs)
    BY <1>12, FlattenLists
  <2>. QED
    BY <2>1 DEF found
<1>14. IsInjective(found)
  <2>1. ASSUME NEW f \in 1..count, NEW g \in 1..count, NEW a \in 1..Len(seqs[f]), NEW b \in 1..Len(seqs[g]),
               seqs[f][a] = seqs[g][b]
        PROVE  f = g /\ a = b
    <3>1. seqs[f][a] \in part(f) /\ seqs[g][b] \in part(g)
      BY <1>10
    <3>2. f = g
      BY <1>11, <2>1, <3>1
    <3>. QED
      BY <1>10, <2>1, <3>2
  <2>. QED
    BY <1>12, <2>1, FlattenDistinct
<1> HIDE DEF found
<1>15. found \in Seq(Candidate) /\ T \in SUBSET Candidate
  BY <1>6, <1>13 DEF OneEach
<1>16. PICK sorted : /\ InOrder(sorted) /\ ToSet(sorted) = ToSet(found)
                     /\ \A m \in Nat : TopK(found, m) = Take(sorted, m)
  BY <1>14, <1>15, TopKSorts
<1>17. ToSet(found) \subseteq ToSet(all)
  <2>1. ToSet(found) \subseteq T
    BY <1>13, ToSetIs
  <2>2. T \subseteq ToSet(all)
    BY DEF T, rows
  <2>. QED
    BY <2>1, <2>2
<1>18. all[i] \in ToSet(found)
  <2>1. all[i] \in T
    BY DEF T, rows
  <2>2. PICK r \in rows : all[i] = <<r, L2(q, val[r])>>
    BY <2>1 DEF T, Pairs
  <2>3. PICK f \in 1..count : r \in cut[f - 1]..(cut[f] - 1)
    <3>1. cut \in [0..count -> Nat] /\ \A j \in 1..count : cut[j - 1] < cut[j]
      BY <1>2 DEF Follow
    <3>2. r \in cut[0]..(cut[count] - 1)
      BY <1>2 DEF rows
    <3>. QED
      BY <3>1, <3>2, CutsGrow
  <2>4. all[i] \in part(f) /\ part(f) \subseteq ToSet(all)
    <3>1. all[i] \in part(f)
      BY <2>2, <2>3 DEF part, Pairs
    <3>2. part(f) \subseteq T /\ T \subseteq ToSet(all)
      BY <1>10 DEF T, rows
    <3>. QED
      BY <3>1, <3>2
  <2>5. i \in Nat /\ i <= per
    <3>1. i \in Nat
      BY OrderIs
    <3>. QED
      BY <1>8, <3>1
  <2>6. \E j \in 1..Len(seqs[f]) : seqs[f][j] = all[i]
    <3> DEFINE start == cut[f - 1]
               end == cut[f]
               s == seqs[f]
    <3>1. /\ start \in Nat /\ end \in Nat /\ ScanOf(s, start, end, q, val, per) /\ per \in Nat
          /\ all[i] \in Pairs(start..(end - 1), q, val)
          /\ Pairs(start..(end - 1), q, val) \subseteq ToSet(all)
      BY <1>4, <1>8, <1>9, <2>4 DEF part
    <3> HIDE DEF start, end, s
    <3> DEFINE P == Pairs(start..(end - 1), q, val)
    <3>2. \A most : InOrder(most) /\ P \subseteq ToSet(most) =>
             \A j \in 1..Len(most) : j <= per /\ most[j] \in P => \E m \in 1..Len(s) : s[m] = most[j]
      BY <3>1, ScanHas, SMTT(30)
    <3> HIDE DEF P
    <3>3. P \subseteq ToSet(all) /\ all[i] \in P
      BY <3>1 DEF P
    <3>4. \A j \in 1..Len(all) : j <= per /\ all[j] \in P => \E m \in 1..Len(s) : s[m] = all[j]
      BY <3>2, <3>3
    <3>5. \E j \in 1..Len(s) : s[j] = all[i]
      BY <2>5, <3>3, <3>4
    <3>. QED
      BY <3>5 DEF s
  <2>7. \E p \in 1..Len(found) : found[p] = all[i]
    BY <1>13, <2>6 DEF Lists
  <2>. QED
    BY <1>13, <2>7, Members
<1>19. PICK m \in 1..Len(sorted) : sorted[m] = all[i]
  <2>1. sorted \in Seq(Candidate)
    BY <1>16, OrderIs
  <2>. QED
    BY <1>16, <1>18, <2>1, Members
<1>20. m <= i
  BY <1>16, <1>17, <1>19, PlaceGrows
<1>21. m <= k
  <2>1. i \in Nat /\ m \in Nat
    BY <1>16, OrderIs
  <2>. QED
    BY <1>20, <2>1
<1>22. sorted[m] \in ToSet(Take(sorted, k))
  BY <1>16, <1>21, PrefixInOrder
<1>. QED
  BY <1>7, <1>16, <1>19, <1>22

\* The first n candidates of an order are in a set.
FirstIn(all, n, S) == \A i \in 1..Len(all) : i <= n => all[i] \in S

\* The rows in order of their distance to a query.
AllRows(all, q) == Sorts(all, 0, Len(x), q \div scale, Val(x, scale))

\* The candidates that rows can be for it.
Scores(q) == Pairs(0..(Len(x) - 1), q \div scale, Val(x, scale))

\* What is merged from candidates that are rows, and have the first of all in
\* order as many as the pool holds, is what Nearest gives.
LEMMA MergedIsNearest ==
    ASSUME IndexInv, NEW q \in Points, NEW a \in Seq(Scores(q)), NEW b \in Seq(Scores(q)),
           NEW all, AllRows(all, q), NEW k \in Nat \ {0}, NEW e \in BOOLEAN,
           FirstIn(all, PoolK(k, e), ToSet(a) \cup ToSet(b))
    PROVE  MergeTopK(a, b, Min({k, Len(x)}), PoolK(k, e), e) = Nearest(q, k, e)
<1> DEFINE p == PoolK(k, e)
           out == Min({k, Len(x)})
           T == Scores(q)
<1>1. /\ InOrder(all) /\ Len(all) = Len(x) /\ ToSet(all) = T
      /\ \A n \in Nat : TopK(Scored([i \in DOMAIN x |-> i - 1], q \div scale, Val(x, scale)), n) = Take(all, n)
      /\ OneEach(T)
  <2>1. /\ q \div scale \in Int /\ Len(x) \in Nat /\ Valued(Val(x, scale), 0..(Len(x) - 1))
        /\ [i \in DOMAIN x |-> i - 1] = Span(0, Len(x))
    BY ScaledIs
  <2>2. 0..(Len(x) - 1) \in SUBSET Nat
    BY <2>1
  <2>3. OneEach(T)
    BY <2>1, <2>2, PairsAre DEF Scores
  <2>. QED
    BY <2>1, <2>3, SMTT(30) DEF AllRows, Sorts, Scores
<1>2. all \in Seq(Candidate) /\ Len(x) \in Nat
  BY <1>1, OrderIs
<1>3. /\ p = (IF e THEN IF k + 1 <= Len(all) THEN k + 1 ELSE Len(all)
              ELSE IF k <= Len(all) THEN k ELSE Len(all))
      /\ out = (IF k <= Len(all) THEN k ELSE Len(all))
      /\ p \in Nat /\ out \in Nat
  <2>1. Len(all) = Len(x)
    BY <1>1
  <2>2. k \in Int /\ k + 1 \in Int /\ Len(x) \in Int
    BY <1>2
  <2>3. /\ Min({k, Len(x)}) = (IF k <= Len(x) THEN k ELSE Len(x))
        /\ Min({k + 1, Len(x)}) = (IF k + 1 <= Len(x) THEN k + 1 ELSE Len(x))
    BY <2>2, MinOfTwo
  <2>4. /\ Min({k, Len(x)}) \in Nat
        /\ Min({k + 1, Len(x)}) \in Nat
    BY <1>2, <2>3
  <2>5. CASE e
    BY <2>1, <2>3, <2>4, <2>5 DEF PoolK
  <2>6. CASE ~e
    BY <2>1, <2>3, <2>4, <2>6 DEF PoolK
  <2>. QED
    BY <2>5, <2>6
<1>4. \A i \in 1..Len(all) : i <= p => all[i] \in ToSet(a) \cup ToSet(b)
  BY DEF FirstIn
<1> HIDE DEF p, out, T
<1>5. PICK ranked : /\ InOrder(ranked) /\ ToSet(ranked) = ToSet(a) \cup ToSet(b)
                    /\ \A o, pool \in Nat : \A d \in BOOLEAN :
                          MergeTopK(a, b, o, pool, d)
                            = Take(Take(IF d /\ Len(ranked) > 1 THEN Tail(ranked) ELSE ranked, pool), o)
  BY <1>1, MergeTopKIs, SMTT(30) DEF T
<1>6. ToSet(ranked) \subseteq ToSet(all)
  BY <1>1, <1>5, ToSetIs DEF T
<1>7. \A i \in 1..Len(all) : i <= p => all[i] \in ToSet(ranked)
  BY <1>4, <1>5
<1>8. Len(ranked) <= Len(all) /\ Take(ranked, p) = Take(all, p)
  BY <1>1, <1>3, <1>5, <1>6, <1>7, StartsAlike
<1>9. Take(Take(IF e /\ Len(ranked) > 1 THEN Tail(ranked) ELSE ranked, p), out)
        = Take(IF e /\ Len(all) > 1 THEN Tail(all) ELSE all, k)
  BY <1>1, <1>3, <1>5, <1>8, SameAnswer
<1>10. Take(all, Len(x)) = all
  <2>1. /\ Take(all, Len(all)) \in Seq(Candidate) /\ Len(Take(all, Len(all))) = Len(all)
        /\ \A m \in 1..Len(Take(all, Len(all))) : Take(all, Len(all))[m] = all[m]
    BY <1>2, TakeIs
  <2> DEFINE t == Take(all, Len(all))
  <2> HIDE DEF t
  <2>2. t = all
    BY <1>2, <2>1, SameSequence DEF t
  <2>. QED
    BY <1>1, <2>2 DEF t
<1>11. Nearest(q, k, e) = Take(IF e /\ Len(all) > 1 THEN Tail(all) ELSE all, k)
  <2>1. TopK(Scored([i \in DOMAIN x |-> i - 1], q \div scale, Val(x, scale)), Len(x)) = all
    BY <1>1, <1>2, <1>10
  <2>. QED
    BY <2>1 DEF Nearest
<1>12. MergeTopK(a, b, out, p, e)
         = Take(Take(IF e /\ Len(ranked) > 1 THEN Tail(ranked) ELSE ranked, p), out)
  BY <1>3, <1>5
<1>. QED
  BY <1>9, <1>11, <1>12 DEF p, out

\* The answer is exact on the small path, and where every leaf is scored.
LEMMA ExactFromInv == IndexInv => ExactWhenScanned
<1> SUFFICES ASSUME IndexInv, IF Len(x) <= SmallN THEN ~StaleCache ELSE EveryLeafScored,
                    NEW q \in Points, NEW k \in 1..(Len(x) + 1), NEW e \in BOOLEAN
             PROVE  Found(q, k, e) = Nearest(q, k, e)
  BY DEF ExactWhenScanned
<1> DEFINE p == q \div scale
           val == Val(x, scale)
           T == Pairs(0..(Len(x) - 1), p, val)
           pool == PoolK(k, e)
           out == Min({k, Len(x)})
<1>1. /\ p \in Int /\ Len(x) \in Nat /\ indexed_rows \in Nat /\ indexed_rows <= Len(x)
      /\ Valued(val, 0..(Len(x) - 1)) /\ Valued(val, indexed_rows..(Len(x) - 1))
      /\ Valued(val, 0..(indexed_rows - 1))
      /\ Tailing = Span(indexed_rows, Len(x))
      /\ [i \in DOMAIN x |-> i - 1] = Span(0, Len(x))
      /\ \A r \in 0..(Len(x) - 1) : val[r] = x[r + 1] \div scale
  BY ScaledIs
<1>2. k \in Nat \ {0}
  BY <1>1
<1>3. PICK all : Sorts(all, 0, Len(x), p, val)
  <2>1. 0 \in Nat /\ 0 <= Len(x)
    BY <1>1
  <2> HIDE DEF p, val
  <2>. QED
    BY <1>1, <2>1, SpanScored
<1>4. /\ InOrder(all) /\ Len(all) = Len(x) /\ ToSet(all) = T
      /\ \A n \in Nat : TopK(Scored(Span(0, Len(x)), p, val), n) = Take(all, n)
  BY <1>1, <1>3 DEF Sorts
<1>5. \A n \in Nat : TopK(Scored([i \in DOMAIN x |-> i - 1], p, val), n) = Take(all, n)
  BY <1>1, <1>4
<1>6. pool \in Nat /\ out \in Nat
  <2>1. k \in Int /\ k + 1 \in Int /\ Len(x) \in Int
    BY <1>1, <1>2
  <2>2. /\ Min({k, Len(x)}) = (IF k <= Len(x) THEN k ELSE Len(x))
        /\ Min({k + 1, Len(x)}) = (IF k + 1 <= Len(x) THEN k + 1 ELSE Len(x))
    BY <2>1, MinOfTwo
  <2>3. Min({k, Len(x)}) \in Nat /\ Min({k + 1, Len(x)}) \in Nat
    BY <1>1, <1>2, <2>2
  <2>. QED
    BY <2>3 DEF PoolK
<1>7. CASE Len(x) <= SmallN
  <2> DEFINE near == [r \in 0..(Len(x) - 1) |-> SmallCache[r + 1]]
             leg == TopK(Scored([i \in DOMAIN x |-> i - 1], p, near), pool)
  <2>1. near = val
    <3>1. \A i \in DOMAIN x : SmallCache[i] = x[i] \div scale
      <4>1. CASE cache # NoCache /\ Len(cache) = Len(x)
        <5>1. SmallCache = cache
          BY <4>1 DEF SmallCache
        <5>2. \A i \in DOMAIN x : cache[i] = x[i] \div scale
          BY <1>7, <4>1 DEF StaleCache
        <5>. QED
          BY <5>1, <5>2
      <4>2. CASE ~(cache # NoCache /\ Len(cache) = Len(x))
        BY <4>2 DEF SmallCache
      <4>. QED
        BY <4>1, <4>2
    <3>2. \A r \in 0..(Len(x) - 1) : SmallCache[r + 1] = x[r + 1] \div scale
      <4> TAKE r \in 0..(Len(x) - 1)
      <4>1. r + 1 \in DOMAIN x
        BY <1>1 DEF IndexInv
      <4>. QED
        BY <3>1, <4>1
    <3>. QED
      BY <3>2 DEF Val
  <2>2. Found(q, k, e) = MergeTopK(leg, <<>>, out, pool, e)
    BY <1>7, Zenon DEF Found, SearchSmall
  <2>3. leg = Take(all, pool)
    BY <1>5, <1>6, <2>1
  <2> HIDE DEF leg, near, p, val, T, pool, out
  <2>4. /\ InOrder(leg) /\ ToSet(leg) \subseteq T
        /\ \A i \in 1..Len(all) : i <= pool => all[i] \in ToSet(leg)
    BY <1>4, <1>6, <2>3, PrefixInOrder
  <2>5. leg \in Seq(T) /\ <<>> \in Seq(T)
    <3>1. leg \in Seq(Candidate)
      BY <2>4, OrderIs
    <3>2. \A m \in 1..Len(leg) : leg[m] \in T
      BY <2>4, <3>1, Members
    <3>. QED
      BY <3>1, <3>2, SeqWithin
  <2>6. FirstIn(all, PoolK(k, e), ToSet(leg) \cup ToSet(<<>>))
    BY <2>4 DEF pool, FirstIn
  <2>7. AllRows(all, q) /\ T = Scores(q)
    BY <1>3 DEF AllRows, Scores, T, p, val
  <2>8. MergeTopK(leg, <<>>, Min({k, Len(x)}), PoolK(k, e), e) = Nearest(q, k, e)
    BY <1>2, <2>5, <2>6, <2>7, MergedIsNearest
  <2>. QED
    BY <2>2, <2>8 DEF pool, out
<1>8. CASE ~(Len(x) <= SmallN)
  <2> DEFINE indexK == IF e THEN Max({pool, 2 * out}) ELSE out
             kA == Max({indexK, 1})
             legA == IndexedLeg(p, kA)
             legB == TopK(Scored(Tailing, p, val), pool)
  <2>1. Found(q, k, e) = MergeTopK(legA, legB, out, pool, e)
    <3>1. Found(q, k, e) = SearchIndexedAndPending(q, k, e)
      BY <1>8 DEF Found
    <3>. QED
      BY <3>1, Zenon DEF SearchIndexedAndPending, IndexedLeg
  <2>2. kA \in Nat /\ pool <= kA
    <3>1. ~e => pool = out
      BY DEF PoolK
    <3> HIDE DEF pool, out
    <3>2. indexK \in Nat /\ pool <= indexK
      <4>1. CASE e
        <5>1. 2 * out \in Int /\ pool \in Int
          BY <1>6
        <5>2. Max({pool, 2 * out}) = IF pool >= 2 * out THEN pool ELSE 2 * out
          BY <5>1, MaxOfTwo
        <5>. QED
          BY <1>6, <4>1, <5>2
      <4>2. CASE ~e
        BY <1>6, <3>1, <4>2
      <4>. QED
        BY <4>1, <4>2
    <3> HIDE DEF indexK
    <3>3. Max({indexK, 1}) = IF indexK >= 1 THEN indexK ELSE 1
      BY <3>2, MaxOfTwo
    <3>. QED
      BY <1>6, <3>2, <3>3
  <2> HIDE DEF kA, indexK
  <2>3. legA \in Seq(T)
    BY <2>2, IndexedLegIs
  <2>4. PICK tail : Sorts(tail, indexed_rows, Len(x), p, val)
    <3> HIDE DEF p, val
    <3>. QED
      BY <1>1, SpanScored
  <2>5. /\ InOrder(tail) /\ ToSet(tail) = Pairs(indexed_rows..(Len(x) - 1), p, val)
        /\ \A n \in Nat : TopK(Scored(Span(indexed_rows, Len(x)), p, val), n) = Take(tail, n)
    BY <2>4 DEF Sorts
  <2>6. legB = Take(tail, pool)
    BY <1>1, <1>6, <2>5
  <2>7. Pairs(indexed_rows..(Len(x) - 1), p, val) \subseteq T
        /\ Pairs(0..(indexed_rows - 1), p, val) \subseteq T
    <3>1. indexed_rows..(Len(x) - 1) \subseteq 0..(Len(x) - 1)
          /\ 0..(indexed_rows - 1) \subseteq 0..(Len(x) - 1)
      BY <1>1
    <3>. QED
      BY <3>1 DEF Pairs
  <2>8. ASSUME NEW i \in 1..Len(all), i <= pool, all[i] \notin Pairs(0..(indexed_rows - 1), p, val)
        PROVE  all[i] \in Pairs(indexed_rows..(Len(x) - 1), p, val)
    <3>1. all[i] \in T
      <4>1. all \in Seq(Candidate)
        BY <1>4, OrderIs
      <4>. QED
        BY <1>4, <4>1, Members
    <3>2. PICK r \in 0..(Len(x) - 1) : all[i] = <<r, L2(p, val[r])>>
      BY <3>1 DEF Pairs
    <3>3. r \notin 0..(indexed_rows - 1)
      BY <2>8, <3>2 DEF Pairs
    <3>4. r \in indexed_rows..(Len(x) - 1)
      BY <1>1, <3>3
    <3>. QED
      BY <3>2, <3>4 DEF Pairs
  <2> HIDE DEF legA, legB, p, val, T, pool, out
  <2>9. /\ InOrder(legB) /\ ToSet(legB) \subseteq ToSet(tail)
        /\ \A m \in 1..Len(tail) : m <= pool => tail[m] \in ToSet(legB)
    BY <1>6, <2>5, <2>6, PrefixInOrder
  <2>10. legB \in Seq(T)
    <3>1. legB \in Seq(Candidate)
      BY <2>9, OrderIs
    <3>2. \A m \in 1..Len(legB) : legB[m] \in T
      BY <2>5, <2>7, <2>9, <3>1, Members
    <3>. QED
      BY <3>1, <3>2, SeqWithin
  <2>11. ASSUME NEW i \in 1..Len(all), i <= pool, all[i] \in Pairs(0..(indexed_rows - 1), p, val)
         PROVE  all[i] \in ToSet(legA)
    <3>1. Covers(indices, indexed_rows)
      BY DEF IndexInv
    <3>2. indexed_rows > 0
      BY <1>1, <2>11 DEF Pairs
    <3>3. indices # <<>>
      <4> SUFFICES ASSUME indices = <<>> PROVE FALSE
        OBVIOUS
      <4>1. PICK n \in Nat : \E cut : Follow(n, indices, cut) /\ cut[0] = 0 /\ cut[n] = indexed_rows
        BY <3>1 DEF Covers
      <4>2. n = 0
        BY <4>1 DEF Follow
      <4>. QED
        BY <3>2, <4>1, <4>2
    <3>4. AllScanned(indices)
      BY <1>8 DEF AllScanned, EveryLeafScored
    <3>5. legA = SearchCandidates(indices, indexed_rows, p, kA, val)
      BY <3>2, <3>3 DEF legA, IndexedLeg, val
    <3>6. Pairs(0..(indexed_rows - 1), p, val) \subseteq ToSet(all)
      BY <1>4, <2>7
    <3>7. i <= kA
      <4>1. i \in Nat
        BY <1>4, OrderIs
      <4>. QED
        BY <1>6, <2>2, <2>11, <4>1
    <3>8. all[i] \in ToSet(SearchCandidates(indices, indexed_rows, p, kA, val))
      BY <1>1, <1>4, <2>2, <2>11, <3>1, <3>4, <3>6, <3>7, AllScannedIs
    <3>. QED
      BY <3>5, <3>8
  <2>12. ASSUME NEW i \in 1..Len(all), i <= pool, all[i] \notin Pairs(0..(indexed_rows - 1), p, val)
         PROVE  all[i] \in ToSet(legB)
    <3>1. all[i] \in ToSet(tail)
      BY <2>5, <2>8, <2>12
    <3>2. tail \in Seq(Candidate) /\ Len(tail) \in Nat
      BY <2>5, OrderIs
    <3>3. PICK m \in 1..Len(tail) : tail[m] = all[i]
      BY <3>1, <3>2, Members
    <3>4. ToSet(tail) \subseteq ToSet(all)
      BY <1>4, <2>5, <2>7
    <3>5. m <= i
      BY <1>4, <2>5, <3>3, <3>4, PlaceGrows
    <3>6. m <= pool
      <4>1. i \in Nat /\ m \in Nat
        BY <1>4, <3>2, OrderIs
      <4>. QED
        BY <1>6, <2>12, <3>5, <4>1
    <3>. QED
      BY <2>9, <3>3, <3>6
  <2>13. FirstIn(all, PoolK(k, e), ToSet(legA) \cup ToSet(legB))
    BY <2>11, <2>12 DEF pool, FirstIn
  <2>14. AllRows(all, q) /\ T = Scores(q)
    BY <1>3 DEF AllRows, Scores, T, p, val
  <2>15. MergeTopK(legA, legB, Min({k, Len(x)}), PoolK(k, e), e) = Nearest(q, k, e)
    BY <1>2, <2>3, <2>10, <2>13, <2>14, MergedIsNearest
  <2>. QED
    BY <2>1, <2>15 DEF pool, out
<1>. QED
  BY <1>7, <1>8

-----------------------------------------------------------------------------
(* What holds at every time                                                *)

\* The fields of a disk backend's index (backend.rs) hold what TypeOK says at
\* every time, for all rows, scales, thresholds and batch sizes.
THEOREM TypeIsOK == Spec => []TypeOK
BY Invariance, TypeFromInv, PTL

\* Compaction (sync.rs:258-310) keeps up with the fragments that syncs add: there
\* are never more than twice the threshold for the rows indexed.
THEOREM FragmentsStayFew == Spec => []FragmentsBounded
BY Invariance, BoundFromInv, PTL

\* A leaf is placed by rows of its own, never by rows that an earlier sync has
\* indexed: the pending centroid is drained by every sync (sync.rs:147-236).
THEOREM LeavesArePlaced == Spec => []PlacedByOwnRows
BY Invariance, PlacedFromInv, PTL

\* The fragments are well-formed whatever was cut, split, renumbered, merged and
\* read back (sync_forest.rs:147-167, build.rs:164-260, sync.rs:258-310): they
\* list the indexed rows once each, in fragments that follow each other, under
\* pages with ids of their own, and children and skip edges lead to pages of the
\* same fragment.
THEOREM FragmentsAreWellFormed == Spec => []FragmentsWellFormed
BY Invariance, WellFormedFromInv, PTL

\* A search above the small-n limit (large_n_search.rs:22-95) loses no row that
\* waits for the index: a row of the tail that is not in the answer is no closer
\* than any of the k rows in it. The leg of the index is approximate; the tail is
\* scanned whole (search.rs:347-375), and the merge keeps the best of both.
THEOREM TailIsNeverMissed == Spec => []TailNeverMissed
BY Invariance, TailFromInv, PTL

\* The answer is the one of a linear scan when every leaf of at most two fragments
\* is scored (search.rs, sync.rs:383-429), and on the small path when its cached
\* rows are those of the current scale (small_n_search.rs:37-150): whatever syncs,
\* merges and reopenings the rows went through, and whichever fragment holds them.
THEOREM ScannedIsExact == Spec => []ExactWhenScanned
BY Invariance, ExactFromInv, PTL
=============================================================================
