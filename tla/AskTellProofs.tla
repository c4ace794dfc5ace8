---------------------------- MODULE AskTellProofs ----------------------------
(***************************************************************************)
(* What AskTell keeps for any objectives, batches, lengths and bounds: the *)
(* length of the trust region, the agreement between its watermark and the *)
(* row count, and that the incumbent is the best row and the best value of *)
(* the region the incumbent's.                                             *)
(***************************************************************************)
EXTENDS OptimizerTell, NumberFacts

\* r is a record with the fields of TurboTrustRegion.
IsRegion(r) ==
    r = [length |-> r.length, succ |-> r.succ, fail |-> r.fail,
         best |-> r.best, prev |-> r.prev, hist |-> r.hist]

\* The region is one, and its length is in range.
RegionInv ==
    /\ IsRegion(tr)
    /\ tr.length \in LengthMin..LengthMax

\* While no tell has failed with its rows stored and no rows were found in a
\* directory: without a model there are no rows, the row count is that of the
\* rows, and the watermark is at the row count or was never moved, which it
\* is not by the initial design.
WatermarkInv ==
    clean /\ ~resumed =>
        /\ num = Len(ys)
        /\ inInit => tr.prev = 0
        /\ tr.prev \in {0, num}
        /\ result # "refused"

\* All that is proved by induction; that the rows are a sequence and the
\* watermark a number is needed to compare them.
AskTellInv ==
    /\ {onDisk, ys} \subseteq Seq(Value \cup {NaN})
    /\ tr.prev \in Nat
    /\ RegionInv
    /\ WatermarkInv

----------------------------------------------------------------------------
(* Operators                                                               *)

\* The first batch after n rows finds the watermark at n.
LEMMA WatermarkFound ==
    ASSUME NEW b \in Seq(Value \cup {NaN}), NEW n \in Nat,
           tr.prev \in Nat, tr.prev \in {0, n}
    PROVE  Watermark(b, n + Len(b)) = n
<1>1. Len(b) \in Nat
  OBVIOUS
<1>2. Max({0, n + Len(b) - Len(b)}) = n
  BY <1>1, MaxOfTwo
<1>. QED
  BY <1>1, <1>2 DEF Watermark

\* An update keeps a region with a length in range a region, counts the rows
\* of its batch, and leaves no length above length_max.
LEMMA UpdatedRegion ==
    ASSUME NEW r, NEW b \in Seq(Value \cup {NaN}), NEW y,
           IsRegion(r), r.length \in LengthMin..LengthMax, r.prev \in Nat
    PROVE  /\ IsRegion(Updated(r, b, y))
           /\ Updated(r, b, y).length \in 0..LengthMax
           /\ Updated(r, b, y).prev = r.prev + Len(b)
<1> DEFINE a == Adapted(r, b, y)
           u == [r EXCEPT !.best = y, !.hist = WithHist(r, b), !.prev = r.prev + Len(b)]
<1>1. IsRegion(a) /\ a.prev = r.prev + Len(b)
  BY DEF Adapted, IsRegion
<1>2. r.length \in Nat /\ LengthMax \in Nat /\ r.length <= LengthMax
  BY LengthAssumption
<1>3. r.length \div 2 \in 0..LengthMax
  BY <1>2
<1>4. Min({2 * r.length, LengthMax}) \in 0..LengthMax
  BY <1>2, MinOfTwo
<1>5. a.length \in {Min({2 * r.length, LengthMax}), r.length \div 2, r.length}
  BY DEF Adapted
<1>6. Updated(r, b, y) = a \/ Updated(r, b, y) = u
  BY DEF Updated
<1>7. IsRegion(u) /\ u.prev = r.prev + Len(b) /\ u.length = r.length
  <2> DEFINE h == WithHist(r, b)
             n == r.prev + Len(b)
  <2> HIDE DEF h, n
  <2>1. PICK l, s, f, v, p, g :
          r = [length |-> l, succ |-> s, fail |-> f, best |-> v, prev |-> p, hist |-> g]
    BY DEF IsRegion
  <2>2. u = [length |-> l, succ |-> s, fail |-> f, best |-> y, prev |-> n, hist |-> h]
    <3>1. u = [r EXCEPT !.best = y, !.hist = h, !.prev = n]
      BY DEF h, n
    <3> HIDE DEF u
    <3>. QED
      BY <2>1, <3>1
  <2> HIDE DEF u
  <2>3. IsRegion(u) /\ u.prev = n /\ u.length = l
    BY <2>2 DEF IsRegion
  <2>4. r.length = l
    BY <2>1
  <2>. QED
    BY <2>3, <2>4 DEF n
<1> HIDE DEF a
<1>8. a.length \in 0..LengthMax
  BY <1>2, <1>3, <1>4, <1>5
<1> HIDE DEF u
<1>. QED
  BY <1>1, <1>2, <1>8, <1>6, <1>7

\* A restart brings a length that is too small back into range and moves no
\* watermark.
LEMMA RestartedRegion ==
    ASSUME NEW r, IsRegion(r), r.length \in 0..LengthMax
    PROVE  /\ IsRegion(RestartedIfSmall(r))
           /\ RestartedIfSmall(r).length \in LengthMin..LengthMax
           /\ RestartedIfSmall(r).prev = r.prev
<1>1. CASE r.length < LengthMin
  <2>1. RestartedIfSmall(r) = [NewRegion EXCEPT !.prev = r.prev]
    BY <1>1 DEF RestartedIfSmall
  <2>. QED
    BY <2>1, LengthAssumption DEF NewRegion, IsRegion
<1>2. CASE ~(r.length < LengthMin)
  BY <1>2, LengthAssumption DEF RestartedIfSmall
<1>. QED
  BY <1>1, <1>2

----------------------------------------------------------------------------
(* Steps                                                                   *)

\* Storing a batch gives rows again; while nothing was resumed they are the
\* old ones and the batch.
LEMMA StoreStep ==
    ASSUME AskTellInv, NEW b \in Batches, Store(b)
    PROVE  /\ ys' \in Seq(Value \cup {NaN})
           /\ b \in Seq(Value \cup {NaN})
           /\ resumed => resumed'
           /\ ~resumed' => Len(ys') = Len(ys) + Len(b)
<1>1. {b, onDisk, ys} \subseteq Seq(Value \cup {NaN})
  BY BatchAssumption DEF AskTellInv
<1>2. ys \o b \in Seq(Value \cup {NaN}) /\ Len(ys \o b) = Len(ys) + Len(b)
  BY <1>1
<1>. QED
  BY <1>1, <1>2 DEF Store, StoredRows

\* A tell that returns Err with its rows stored touches neither the region
\* nor the promise of the watermark: clean is gone.
LEMMA FailedStep ==
    ASSUME AskTellInv, NEW b \in Batches, StoreFails(b) \/ FitFails(b)
    PROVE  AskTellInv'
<1>1. Store(b) /\ clean' = FALSE /\ tr' = tr
  BY DEF StoreFails, FitFails
<1>2. ys' \in Seq(Value \cup {NaN}) /\ onDisk' = onDisk
  BY <1>1, StoreStep DEF Store
<1>. QED
  BY <1>1, <1>2 DEF AskTellInv, RegionInv, IsRegion, WatermarkInv

\* The initial design moves neither the region nor its watermark.
LEMMA InitDesignStep ==
    ASSUME AskTellInv, NEW b \in Batches, TellInit(b)
    PROVE  AskTellInv'
<1>1. /\ inInit /\ Store(b) /\ num' = Len(ys') /\ tr' = tr /\ clean' = clean
      /\ result' \in {"ok", "late"}
  BY DEF TellInit, Observe, Done
<1>2. /\ ys' \in Seq(Value \cup {NaN}) /\ onDisk' = onDisk
      /\ resumed => resumed'
  BY <1>1, StoreStep DEF Store
<1>3. WatermarkInv'
  BY <1>1, <1>2 DEF AskTellInv, WatermarkInv
<1>. QED
  BY <1>1, <1>2, <1>3 DEF AskTellInv, RegionInv, IsRegion

\* A batch of the TuRBO phase: the update counts its rows, the restart brings
\* its length back into range.
LEMMA TurboStep ==
    ASSUME AskTellInv, NEW b \in Batches, TellTurbo(b)
    PROVE  AskTellInv'
<1> DEFINE w == Watermark(b, num')
           r == [tr EXCEPT !.prev = w]
           u == Updated(r, b, ys'[incAt'])
<1>1. /\ ~inInit /\ Store(b) /\ num' = Len(ys') /\ clean' = clean
      /\ w + Len(b) = num' /\ tr' = RestartedIfSmall(u)
      /\ inInit' = inInit /\ result' \in {"ok", "late"}
  BY DEF TellTurbo, Observe, Done
<1>2. /\ ys' \in Seq(Value \cup {NaN}) /\ onDisk' = onDisk
      /\ b \in Seq(Value \cup {NaN})
  BY <1>1, StoreStep DEF Store
<1>3. w \in Nat /\ num' \in Nat
  <2>1. Len(b) \in Nat /\ num' \in Nat /\ tr.prev \in Nat
    BY <1>1, <1>2 DEF AskTellInv
  <2>2. Max({0, num' - Len(b)}) \in Nat
    BY <2>1, MaxOfTwo
  <2>. QED
    BY <2>1, <2>2 DEF Watermark
<1>4. IsRegion(r) /\ r.prev = w /\ r.length = tr.length
  <2> HIDE DEF w
  <2>. QED
    BY DEF AskTellInv, RegionInv, IsRegion
<1> HIDE DEF w, r
<1>5. IsRegion(u) /\ u.length \in 0..LengthMax /\ u.prev = num'
  BY <1>1, <1>2, <1>3, <1>4, UpdatedRegion DEF AskTellInv, RegionInv
<1> HIDE DEF u
<1>6. IsRegion(tr') /\ tr'.length \in LengthMin..LengthMax /\ tr'.prev = num'
  BY <1>1, <1>5, RestartedRegion
<1>7. RegionInv'
  BY <1>6 DEF RegionInv, IsRegion
<1>8. WatermarkInv'
  BY <1>1, <1>6 DEF WatermarkInv
<1>. QED
  BY <1>2, <1>3, <1>6, <1>7, <1>8 DEF AskTellInv

\* A batch is only refused when a tell has failed with its rows stored or rows
\* were found in a directory: otherwise the watermark is where it should be.
LEMMA MismatchStep ==
    ASSUME AskTellInv, NEW b \in Batches, TellMismatch(b)
    PROVE  AskTellInv'
<1> DEFINE w == Watermark(b, num')
<1>1. /\ ~inInit /\ Store(b) /\ num' = Len(ys') /\ clean' = clean
      /\ w + Len(b) # num' /\ tr' = [tr EXCEPT !.prev = w]
  BY DEF TellMismatch, Observe
<1>2. /\ ys' \in Seq(Value \cup {NaN}) /\ onDisk' = onDisk
      /\ b \in Seq(Value \cup {NaN})
      /\ resumed => resumed'
      /\ ~resumed' => Len(ys') = Len(ys) + Len(b)
  BY <1>1, StoreStep DEF Store
<1>3. Len(b) \in Nat /\ Len(ys) \in Nat /\ num' \in Nat /\ tr.prev \in Nat
  BY <1>1, <1>2 DEF AskTellInv
<1>4. w \in Nat
  <2>1. Max({0, num' - Len(b)}) \in Nat
    BY <1>3, MaxOfTwo
  <2>. QED
    BY <1>3, <2>1 DEF Watermark
<1>5. ~(clean /\ ~resumed')
  <2> SUFFICES ASSUME clean, ~resumed' PROVE FALSE
    OBVIOUS
  <2>1. num = Len(ys) /\ tr.prev \in {0, num}
    BY <1>2 DEF AskTellInv, WatermarkInv
  <2>2. num' = num + Len(b)
    BY <1>1, <1>2, <2>1
  <2>3. w = num
    BY <1>2, <1>3, <2>1, <2>2, WatermarkFound
  <2>. QED
    BY <1>1, <2>2, <2>3
<1> HIDE DEF w
<1>6. IsRegion(tr') /\ tr'.length = tr.length /\ tr'.prev = w
  BY <1>1 DEF AskTellInv, RegionInv, IsRegion
<1>7. RegionInv'
  BY <1>6 DEF AskTellInv, RegionInv, IsRegion
<1>. QED
  BY <1>1, <1>2, <1>4, <1>5, <1>6, <1>7 DEF AskTellInv, WatermarkInv

LEMMA InitInv == Init => AskTellInv
<1> SUFFICES ASSUME Init PROVE AskTellInv
  OBVIOUS
<1>1. ys \in Seq(Value \cup {NaN}) /\ Len(ys) = 0
  BY DEF Init
<1>2. onDisk \in Seq(Value \cup {NaN})
  <2>1. onDisk \in IF surrogate THEN Resumable ELSE {<<>>}
    BY DEF Init
  <2>2. <<>> \in Seq(Value \cup {NaN})
    OBVIOUS
  <2>. QED
    BY <2>1, <2>2, BatchAssumption, Zenon
<1>3. tr.prev = 0 /\ RegionInv
  BY LengthAssumption DEF Init, NewRegion, RegionInv, IsRegion
<1>. QED
  BY <1>1, <1>2, <1>3 DEF Init, AskTellInv, WatermarkInv

LEMMA NextInv == AskTellInv /\ [Next]_vars => AskTellInv'
<1> SUFFICES ASSUME AskTellInv, [Next]_vars PROVE AskTellInv'
  OBVIOUS
<1>1. CASE TellRefused
  BY <1>1 DEF TellRefused, ghostVars, AskTellInv, RegionInv, IsRegion, WatermarkInv
<1>2. ASSUME NEW b \in Batches, StoreFails(b) \/ FitFails(b) PROVE AskTellInv'
  BY <1>2, FailedStep
<1>3. ASSUME NEW b \in Batches, TellInit(b) PROVE AskTellInv'
  BY <1>3, InitDesignStep
<1>4. ASSUME NEW b \in Batches, TellTurbo(b) PROVE AskTellInv'
  BY <1>4, TurboStep
<1>5. ASSUME NEW b \in Batches, TellMismatch(b) PROVE AskTellInv'
  BY <1>5, MismatchStep
<1>6. CASE UNCHANGED vars
  BY <1>6 DEF vars, ghostVars, AskTellInv, RegionInv, IsRegion, WatermarkInv
<1>. QED
  BY <1>1, <1>2, <1>3, <1>4, <1>5, <1>6 DEF Next

----------------------------------------------------------------------------
(* The length and the watermark                                            *)

\* The inductive invariant holds in every reachable state.
THEOREM Invariance == Spec => []AskTellInv
<1>. QED
  BY InitInv, NextInv, PTL DEF Spec

\* Whatever the sizes of the batches and the order of improvements, a tell
\* leaves the region's length between length_min and length_max.
THEOREM LengthAlwaysInRange == Spec => []LengthInRange
<1>1. AskTellInv => LengthInRange
  BY LengthAssumption DEF AskTellInv, RegionInv, LengthInRange
<1>. QED
  BY <1>1, Invariance, PTL

\* Unless a tell failed with its rows stored or rows were found in a work
\* directory, update_with_incumbent_new_batch never finds its row counts apart.
THEOREM TellNeverRefused == Spec => []NeverRefused
<1>1. AskTellInv => NeverRefused
  BY DEF AskTellInv, WatermarkInv, NeverRefused
<1>. QED
  BY <1>1, Invariance, PTL

----------------------------------------------------------------------------
(* The incumbent tracker *)

Objectives == Value \cup {NaN}

Trackers == [count : Nat, max : Objectives \cup {NegInf}, at : SUBSET Nat]

\* Tracker t has been told of the first n rows: it has the indices of their
\* greatest objective, or all indices without a surrogate.
RightUpTo(t, told, n) ==
    /\ t.count = n
    /\ t.at \subseteq 1..n
    /\ n > 0 => t.at # {}
    /\ surrogate => /\ n > 0 => t.max \in Value
                    /\ \A i \in t.at : told[i] = t.max
                    /\ \A i \in 1..n : ~Greater(told[i], t.max)
    /\ ~surrogate => t.at = 1..n

LEMMA NumbersAreNot ==
    /\ Value \subseteq Nat /\ NaN \notin Value /\ NegInf \notin Value
    /\ \A v \in Objectives : v # NaN => v \in Value
    /\ \A v \in Value : ~Greater(v, v)
<1>1. Value \subseteq Nat /\ NaN \notin Value
  BY ValueAssumption
<1>2. NegInf \notin Nat
  BY DEF NegInf
<1>3. \A v \in Objectives : v # NaN => v \in Value
  BY DEF Objectives
<1>4. \A v \in Value : ~Greater(v, v)
  BY <1>1 DEF Greater
<1>. QED
  BY <1>1, <1>2, <1>3, <1>4

LEMMA TrackerTellType ==
    ASSUME NEW t \in Trackers, NEW i \in Nat, NEW y \in Objectives
    PROVE  /\ TrackerTell(t, i, y) \in Trackers
           /\ TrackerTell(t, i, y).count = t.count + 1
           /\ TrackerTell(t, i, y).at \subseteq t.at \cup {i}
           /\ TrackerTell(t, i, y).at # {}
<1> DEFINE max == IF surrogate /\ (t.at = {} \/ Greater(y, t.max)) THEN y ELSE t.max
           at  == IF ~surrogate THEN t.at \cup {i}
                  ELSE IF t.at = {} \/ Greater(y, t.max) THEN {i}
                  ELSE IF y = t.max /\ y # NaN THEN t.at \cup {i} ELSE t.at
<1>1. TrackerTell(t, i, y) = [count |-> t.count + 1, max |-> max, at |-> at]
  BY DEF TrackerTell
<1>2. t.count + 1 \in Nat /\ max \in Objectives \cup {NegInf}
  BY DEF Trackers
<1>3. at \in SUBSET Nat /\ at \subseteq t.at \cup {i} /\ at # {}
  BY DEF Trackers
<1> HIDE DEF max, at
<1>. QED
  BY <1>1, <1>2, <1>3 DEF Trackers

\* The tracker hears of the rows of a batch one by one.
LEMMA TrackerSteps ==
    ASSUME NEW t \in Trackers, NEW n \in Nat, NEW b \in Seq(Objectives)
    PROVE  LET up == TrackerUpTo(t, n, b)
           IN  /\ up[0] = t
               /\ \A k \in 1..Len(b) : up[k] = TrackerTell(up[k - 1], n + k, b[k])
               /\ \A k \in 0..Len(b) : up[k] \in Trackers
<1> DEFINE m == Len(b)
           step(k, u) == TrackerTell(u, n + k, b[k])
           g == [k \in 1..m |-> [u \in Trackers |-> step(k, u)]]
           up == TrackerUpTo(t, n, b)
<1>1. m \in Nat
  OBVIOUS
<1>2. \A k \in 1..m : \A u \in Trackers : step(k, u) \in Trackers
  <2> TAKE k \in 1..m
  <2>1. n + k \in Nat /\ b[k] \in Objectives
    OBVIOUS
  <2>. QED
    BY <2>1, TrackerTellType
<1>3. up = CHOOSE h : h = [k \in 0..m |-> IF k = 0 THEN t ELSE step(k, h[k - 1])]
  BY DEF TrackerUpTo
<1> HIDE DEF m, step, up
<1>4. g \in [1..m -> [Trackers -> Trackers]]
  BY <1>2
<1>5. \A k \in 1..m : \A u \in Trackers : g[k][u] = step(k, u)
  OBVIOUS
<1> HIDE DEF g
<1>6. PICK f : f \in [0..m -> Trackers] /\ f[0] = t /\ \A k \in 1..m : f[k] = g[k][f[k - 1]]
  <2>1. \E f : Iterates(f, m, Trackers, t, g)
    BY <1>1, <1>4, Iterated
  <2>. QED
    BY <2>1, Zenon DEF Iterates
<1>7. \A k \in 0..m : f[k] = IF k = 0 THEN t ELSE step(k, f[k - 1])
  <2> TAKE k \in 0..m
  <2>1. CASE k = 0
    BY <1>6, <2>1
  <2>2. CASE k # 0
    <3>1. k \in 1..m /\ k - 1 \in 0..m
      BY <1>1, <2>2
    <3>2. f[k] = g[k][f[k - 1]] /\ f[k - 1] \in Trackers
      BY <1>6, <3>1
    <3>3. f[k] = step(k, f[k - 1])
      BY <1>5, <3>1, <3>2
    <3>. QED
      BY <2>2, <3>3
  <2>. QED
    BY <2>1, <2>2
<1>8. f = [k \in 0..m |-> IF k = 0 THEN t ELSE step(k, f[k - 1])]
  BY <1>6, <1>7
<1>9. up = [k \in 0..m |-> IF k = 0 THEN t ELSE step(k, up[k - 1])]
  BY <1>3, <1>8
<1> DEFINE S == {k \in 0..m : up[k] \in Trackers}
<1>10. up[0] = t /\ \A k \in 1..m : up[k] = step(k, up[k - 1])
  <2>1. 0 \in 0..m /\ \A k \in 1..m : k \in 0..m /\ k # 0
    BY <1>1
  <2>. QED
    BY <1>9, <2>1
<1>11. 0 \in S
  BY <1>1, <1>10
<1>12. ASSUME NEW k \in 0..(m - 1), k \in S PROVE k + 1 \in S
  <2>1. k + 1 \in 1..m /\ (k + 1) - 1 = k /\ k + 1 \in 0..m
    BY <1>1
  <2>2. up[k + 1] = step(k + 1, up[k])
    BY <1>10, <2>1
  <2>3. up[k + 1] \in Trackers
    BY <1>2, <1>12, <2>1, <2>2
  <2>. QED
    BY <2>1, <2>3
<1>13. \A k \in 0..(m - 1) : k \in S => k + 1 \in S
  BY <1>12
<1>14. \A k \in 0..m : k \in S
  <2> HIDE DEF S
  <2>. QED
    BY <1>1, <1>11, <1>13, UpTo
<1>15. \A k \in 0..m : up[k] \in Trackers
  BY <1>14
<1>. QED
  BY <1>10, <1>15 DEF up, m, step

\* What it has afterwards: one count and at most one index per row.
LEMMA TrackerToldType ==
    ASSUME NEW t \in Trackers, NEW n \in Nat, NEW b \in Seq(Objectives)
    PROVE  /\ TrackerTold(t, n, b) \in Trackers
           /\ TrackerTold(t, n, b).count = t.count + Len(b)
           /\ TrackerTold(t, n, b).at \subseteq t.at \cup (n + 1)..(n + Len(b))
           /\ b # <<>> => TrackerTold(t, n, b).at # {}
<1> DEFINE m  == Len(b)
           up == TrackerUpTo(t, n, b)
           Heard(u, k) == /\ u.count = t.count + k
                          /\ u.at \subseteq t.at \cup (n + 1)..(n + k)
                          /\ k > 0 => u.at # {}
           S == {k \in 0..m : Heard(up[k], k)}
<1>1. m \in Nat /\ (b # <<>> => m > 0)
  OBVIOUS
<1>2. /\ up[0] = t
      /\ \A k \in 1..m : up[k] = TrackerTell(up[k - 1], n + k, b[k])
      /\ \A k \in 0..m : up[k] \in Trackers
  BY TrackerSteps
<1>3. \A k \in 1..m : b[k] \in Objectives
  OBVIOUS
<1> HIDE DEF m, up
<1>4. 0 \in S
  BY <1>1, <1>2 DEF Trackers
<1>5. ASSUME NEW k \in 0..(m - 1), k \in S PROVE k + 1 \in S
  <2> DEFINE u == up[k]
             v == up[k + 1]
             i == n + (k + 1)
  <2>1. k + 1 \in 1..m /\ (k + 1) - 1 = k /\ k + 1 \in 0..m /\ k \in Nat /\ i \in Nat
        /\ k \in 0..m
    BY <1>1
  <2>2. v = TrackerTell(u, i, b[k + 1])
    BY <1>2, <2>1
  <2>3. u \in Trackers /\ b[k + 1] \in Objectives
    BY <1>2, <1>3, <2>1
  <2>5. Heard(u, k)
    BY <1>5
  <2> HIDE DEF u, v, i
  <2>4. v.count = u.count + 1 /\ v.at \subseteq u.at \cup {i} /\ v.at # {}
    <3> DEFINE y == b[k + 1]
    <3>1. u \in Trackers /\ y \in Objectives /\ i \in Nat /\ v = TrackerTell(u, i, y)
      BY <2>1, <2>2, <2>3
    <3> HIDE DEF y
    <3>. QED
      BY <3>1, TrackerTellType
  <2>6. u.count \in Nat /\ t.count \in Nat
    BY <2>3 DEF Trackers
  <2>7. v.count = t.count + (k + 1)
    BY <2>1, <2>4, <2>5, <2>6
  <2>8. v.at \subseteq t.at \cup (n + 1)..(n + (k + 1))
    BY <2>1, <2>4, <2>5 DEF i
  <2>9. Heard(v, k + 1)
    BY <2>4, <2>7, <2>8
  <2>. QED
    BY <2>1, <2>9 DEF v
<1>6. \A k \in 0..(m - 1) : k \in S => k + 1 \in S
  BY <1>5
<1>7. m \in S
  <2> HIDE DEF S
  <2>1. \A k \in 0..m : k \in S
    BY <1>1, <1>4, <1>6, UpTo
  <2>. QED
    BY <1>1, <2>1
<1>8. Heard(up[m], m) /\ up[m] \in Trackers
  BY <1>1, <1>2, <1>7
<1>. QED
  BY <1>1, <1>8 DEF TrackerTold, up, m

\* The next row: a greater objective replaces the indices, an equal one joins
\* them.
LEMMA TrackerTellRight ==
    ASSUME NEW told \in Seq(Objectives), NEW n \in Nat, n + 1 <= Len(told),
           surrogate => told[1] # NaN, NEW t \in Trackers, RightUpTo(t, told, n)
    PROVE  RightUpTo(TrackerTell(t, n + 1, told[n + 1]), told, n + 1)
<1> DEFINE y == told[n + 1]
           u == TrackerTell(t, n + 1, y)
<1>1. n + 1 \in 1..Len(told) /\ y \in Objectives /\ \A i \in 1..(n + 1) : told[i] \in Objectives
  OBVIOUS
<1>2. 1..(n + 1) = (1..n) \cup {n + 1} /\ n + 1 > 0
  OBVIOUS
<1>3. /\ u.count = t.count + 1 /\ u.at \subseteq t.at \cup {n + 1} /\ u.at # {}
  <2>1. n + 1 \in Nat /\ y \in Objectives
    BY <1>1
  <2> HIDE DEF y
  <2>. QED
    BY <2>1, TrackerTellType
<1>4. u.count = n + 1 /\ u.at \subseteq 1..(n + 1)
  BY <1>2, <1>3 DEF RightUpTo
<1>5. ASSUME ~surrogate PROVE u.at = 1..(n + 1)
  BY <1>2, <1>5 DEF TrackerTell, RightUpTo
<1>6. ASSUME surrogate
      PROVE  /\ u.max \in Value
             /\ \A i \in u.at : told[i] = u.max
             /\ \A i \in 1..(n + 1) : ~Greater(told[i], u.max)
  <2>1. CASE n = 0
    <3>1. t.at = {} /\ y # NaN
      BY <1>6, <2>1 DEF RightUpTo
    <3>2. u.max = y /\ u.at = {n + 1}
      BY <1>6, <3>1 DEF TrackerTell
    <3>3. y \in Value /\ ~Greater(y, y)
      BY <1>1, <3>1, NumbersAreNot
    <3>4. 1..(n + 1) = {n + 1}
      BY <2>1
    <3> HIDE DEF u
    <3>. QED
      BY <3>2, <3>3, <3>4
  <2>2. CASE n # 0
    <3>1. /\ t.at # {} /\ t.max \in Value /\ t.at \subseteq 1..n
          /\ \A i \in t.at : told[i] = t.max
          /\ \A i \in 1..n : ~Greater(told[i], t.max)
      BY <1>6, <2>2 DEF RightUpTo
    <3>2. CASE Greater(y, t.max)
      <4>1. u.max = y /\ u.at = {n + 1}
        BY <1>6, <3>2 DEF TrackerTell
      <4>2. y \in Value
        BY <1>1, <3>2, NumbersAreNot DEF Greater
      <4>3. ASSUME NEW i \in 1..(n + 1) PROVE ~Greater(told[i], y)
        <5>1. CASE i = n + 1
          BY <4>2, <5>1, NumbersAreNot
        <5>2. CASE i # n + 1
          <6>1. ~Greater(told[i], t.max) /\ told[i] \in Objectives
            BY <1>1, <1>2, <3>1, <5>2
          <6> DEFINE x == told[i]
                     z == t.max
          <6>2. /\ x \in Objectives /\ z \in Nat /\ y \in Nat /\ z # NaN /\ y # NaN
                /\ ~Greater(x, z) /\ Greater(y, z)
            BY <3>1, <3>2, <4>2, <6>1, NumbersAreNot
          <6>3. x = NaN \/ x \in Nat
            BY <6>2, NumbersAreNot
          <6> HIDE DEF x, y, z
          <6>4. y > z
            BY <6>2 DEF Greater
          <6>5. CASE x = NaN
            BY <6>5 DEF Greater, x
          <6>6. CASE x \in Nat /\ x # NaN
            <7>1. ~(x > z)
              BY <6>2, <6>6 DEF Greater
            <7>2. ~(x > y)
              BY <6>2, <6>4, <6>6, <7>1
            <7>. QED
              BY <7>2 DEF Greater, x
          <6>. QED
            BY <6>3, <6>5, <6>6
        <5>. QED
          BY <5>1, <5>2
      <4> HIDE DEF u
      <4>. QED
        BY <4>1, <4>2, <4>3
    <3>3. CASE ~Greater(y, t.max)
      <4>1. u.max = t.max /\ u.at = (IF y = t.max /\ y # NaN THEN t.at \cup {n + 1} ELSE t.at)
        BY <1>6, <3>1, <3>3 DEF TrackerTell
      <4>2. \A i \in 1..(n + 1) : ~Greater(told[i], t.max)
        BY <1>2, <3>1, <3>3
      <4> HIDE DEF u
      <4>. QED
        BY <3>1, <4>1, <4>2
    <3>. QED
      BY <3>2, <3>3
  <2>. QED
    BY <2>1, <2>2
<1> HIDE DEF u
<1>7. RightUpTo(u, told, n + 1)
  BY <1>3, <1>4, <1>5, <1>6 DEF RightUpTo
<1>. QED
  BY <1>7 DEF u

\* A batch that is the rows from n + 1 on.
LEMMA TrackerToldRight ==
    ASSUME NEW told \in Seq(Objectives), NEW n \in Nat, NEW b \in Seq(Objectives),
           n + Len(b) = Len(told), \A k \in 1..Len(b) : b[k] = told[n + k],
           surrogate => told[1] # NaN, NEW t \in Trackers, RightUpTo(t, told, n)
    PROVE  RightUpTo(TrackerTold(t, n, b), told, Len(told))
<1> DEFINE m  == Len(b)
           up == TrackerUpTo(t, n, b)
           S == {k \in 0..m : RightUpTo(up[k], told, n + k)}
<1>1. m \in Nat /\ n + m = Len(told)
  OBVIOUS
<1>2. /\ up[0] = t
      /\ \A k \in 1..m : up[k] = TrackerTell(up[k - 1], n + k, b[k])
      /\ \A k \in 0..m : up[k] \in Trackers
  BY TrackerSteps
<1>3. \A k \in 1..m : b[k] = told[n + k]
  OBVIOUS
<1> HIDE DEF m, up
<1>4. 0 \in S
  BY <1>1, <1>2
<1>5. ASSUME NEW k \in 0..(m - 1), k \in S PROVE k + 1 \in S
  <2> DEFINE l == n + k
  <2>1. /\ k + 1 \in 1..m /\ (k + 1) - 1 = k /\ k + 1 \in 0..m /\ k \in 0..m
        /\ n + (k + 1) = l + 1 /\ l \in Nat /\ l + 1 <= Len(told)
    BY <1>1
  <2>2. up[k + 1] = TrackerTell(up[k], l + 1, told[l + 1])
    <3>1. up[k + 1] = TrackerTell(up[k], n + (k + 1), b[k + 1])
      BY <1>2, <2>1
    <3>2. b[k + 1] = told[n + (k + 1)]
      BY <1>3, <2>1
    <3> HIDE DEF l
    <3>. QED
      BY <2>1, <3>1, <3>2
  <2>3. up[k] \in Trackers
    BY <1>2, <2>1
  <2>4. RightUpTo(up[k], told, l)
    BY <1>5
  <2> HIDE DEF l
  <2>5. RightUpTo(up[k + 1], told, l + 1)
    BY <2>1, <2>2, <2>3, <2>4, TrackerTellRight
  <2>. QED
    BY <2>1, <2>5
<1>6. \A k \in 0..(m - 1) : k \in S => k + 1 \in S
  BY <1>5
<1>7. m \in S
  <2> HIDE DEF S
  <2>1. \A k \in 0..m : k \in S
    BY <1>1, <1>4, <1>6, UpTo
  <2>. QED
    BY <1>1, <2>1
<1>8. RightUpTo(up[m], told, n + m)
  BY <1>7
<1>. QED
  BY <1>1, <1>8 DEF TrackerTold, up, m

----------------------------------------------------------------------------
(* The incumbent *)

\* Of some rows one is not exceeded by any other in the total order.
LEMMA TopExists ==
    ASSUME NEW told \in Seq(Objectives), NEW A \in SUBSET DOMAIN told, A # {}
    PROVE  \E i \in A : \A j \in A : ~TotalGreater(told[j], told[i])
<1>1. Len(told) \in Nat /\ DOMAIN told = 1..Len(told) /\ \A i \in A : told[i] \in Objectives
  OBVIOUS
<1>2. CASE \E i \in A : told[i] = NaN
  BY <1>2 DEF TotalGreater
<1>3. CASE \A i \in A : told[i] # NaN
  <2> DEFINE n == Len(told)
             f == [i \in 1..n |-> IF i \in A THEN told[i] ELSE 0]
             V == {told[i] : i \in A}
  <2>1. \A i \in A : told[i] \in Nat
    BY <1>1, <1>3, NumbersAreNot
  <2>2. f \in [1..n -> Nat]
    BY <2>1
  <2>3. PICK u \in Nat : \A i \in 1..n : f[i] <= u
    <3> HIDE DEF f, n
    <3>1. n \in Nat
      BY <1>1 DEF n
    <3>. QED
      BY <2>2, <3>1, NumbersBounded
  <2>4. \A i \in A : told[i] <= u
    BY <1>1, <2>3
  <2>5. V \in SUBSET Nat /\ V # {} /\ \A v \in V : v <= u
    BY <2>1, <2>4
  <2> DEFINE best == Max(V)
  <2>6. best \in V /\ \A v \in V : v <= best
    <3> HIDE DEF V
    <3>. QED
      BY <2>5, MaxIsGreatest
  <2> HIDE DEF best
  <2>7. PICK i \in A : told[i] = best
    BY <2>6
  <2>8. \A j \in A : told[j] <= told[i] /\ told[j] \in Nat
    BY <2>1, <2>6, <2>7
  <2>9. ASSUME NEW j \in A PROVE ~TotalGreater(told[j], told[i])
    BY <1>3, <2>1, <2>8 DEF TotalGreater
  <2>. QED
    BY <2>9
<1>. QED
  BY <1>2, <1>3

LEMMA IncumbentIn ==
    ASSUME NEW told \in Seq(Objectives), NEW t, t.at \subseteq DOMAIN told, t.at # {}
    PROVE  /\ Incumbent(t, told) \in t.at
           /\ \A j \in t.at : ~TotalGreater(told[j], told[Incumbent(t, told)])
<1> DEFINE T == {i \in t.at : \A j \in t.at : ~TotalGreater(told[j], told[i])}
<1>1. Len(told) \in Nat /\ DOMAIN told = 1..Len(told)
  OBVIOUS
<1>2. T # {}
  BY TopExists
<1>3. T \in SUBSET Nat /\ \A i \in T : i <= Len(told)
  BY <1>1
<1>4. Max(T) \in T
  <2> HIDE DEF T
  <2>. QED
    BY <1>1, <1>2, <1>3, MaxIsGreatest
<1>. QED
  BY <1>4 DEF Incumbent

\* A tracker that is right about all rows gives the best one.
LEMMA IncumbentBest ==
    ASSUME NEW told \in Seq(Objectives), told # <<>>, NEW t,
           RightUpTo(t, told, Len(told)), surrogate \in BOOLEAN, surrogate \/ IsFinite(told)
    PROVE  LET i == Incumbent(t, told)
           IN  \A j \in DOMAIN told : ~Greater(told[j], told[i]) /\ told[i] # NaN
<1> DEFINE i == Incumbent(t, told)
<1>1. Len(told) \in Nat /\ Len(told) > 0 /\ DOMAIN told = 1..Len(told)
      /\ \A j \in DOMAIN told : told[j] \in Objectives
  OBVIOUS
<1>2. t.at # {} /\ t.at \subseteq DOMAIN told
  BY <1>1 DEF RightUpTo
<1>3. i \in t.at /\ \A j \in t.at : ~TotalGreater(told[j], told[i])
  BY <1>2, IncumbentIn
<1> HIDE DEF i
<1>4. CASE surrogate
  <2>1. /\ t.max \in Value /\ told[i] = t.max
        /\ \A j \in 1..Len(told) : ~Greater(told[j], t.max)
    BY <1>1, <1>3, <1>4 DEF RightUpTo
  <2>. QED
    BY <1>1, <2>1, NumbersAreNot DEF i
<1>5. CASE ~surrogate
  <2>1. t.at = DOMAIN told
    BY <1>1, <1>5 DEF RightUpTo
  <2>2. \A j \in DOMAIN told : told[j] # NaN
    BY <1>5 DEF IsFinite, Range
  <2>3. ASSUME NEW j \in DOMAIN told PROVE ~Greater(told[j], told[i]) /\ told[i] # NaN
    <3>1. told[i] # NaN /\ told[j] # NaN /\ ~TotalGreater(told[j], told[i])
      BY <1>3, <2>1, <2>2
    <3>. QED
      BY <3>1 DEF Greater, TotalGreater
  <2>. QED
    BY <2>3 DEF i
<1>. QED
  BY <1>4, <1>5

----------------------------------------------------------------------------
(* The rows and the incumbent *)

\* What is stored and what is known of it.  A surrogate without a model has
\* heard of no rows; the first row that a model has is a number.
StoreInv ==
    /\ {surrogate, hasModel, inInit, clean, resumed, blind} \subseteq BOOLEAN
    /\ {onDisk, ys} \subseteq Seq(Objectives)
    /\ onDisk # <<>> => onDisk[1] # NaN
    /\ ~surrogate => onDisk = <<>> /\ ~hasModel
    /\ hasModel => ys # <<>>
    /\ surrogate /\ ~hasModel => ys = <<>> /\ tracker = EmptyTracker /\ ~resumed
    /\ surrogate /\ ys # <<>> => ys[1] # NaN
    /\ num \in 0..Len(ys)

\* The tracker has heard of no more rows than there are; when it has heard of
\* as many, the row count is right and, unless a directory's rows took the
\* place of as many told, so is the tracker.
TrackerInv ==
    /\ tracker \in Trackers
    /\ tracker.at \subseteq 1..num
    /\ tracker.count <= Len(ys)
    /\ tracker.count = Len(ys) => /\ num = Len(ys)
                                  /\ ~blind => RightUpTo(tracker, ys, Len(ys))

\* The incumbent is a row, and there is one unless a tell has failed; after a
\* tell it is the best.
BestRow ==
    ~blind /\ (surrogate \/ IsFinite(ys)) =>
        \A i \in DOMAIN ys : ~Greater(ys[i], ys[incAt]) /\ ys[incAt] # NaN

IncumbentInv ==
    /\ incAt \in 0..Len(ys)
    /\ Told \/ (clean /\ ys # <<>>) => incAt # 0 /\ BestRow

ObservedInv == StoreInv /\ TrackerInv /\ IncumbentInv

\* Rows that are stored follow the others, or are those of the directory.
LEMMA StoredStep ==
    ASSUME StoreInv, NEW b \in Batches, Store(b)
    PROVE  /\ b \in Seq(Objectives) /\ b # <<>>
           /\ ys' \in Seq(Objectives) /\ ys' # <<>>
           /\ Len(ys') > Len(ys)
           /\ \/ ys' = ys \o b /\ resumed' = resumed
              \/ /\ ys' = onDisk /\ surrogate /\ ~hasModel /\ resumed'
           /\ hasModel' = surrogate /\ UNCHANGED <<surrogate, onDisk>>
           /\ resumed' \in BOOLEAN
           /\ surrogate /\ (hasModel \/ b[1] # NaN) => ys'[1] # NaN
<1>1. b \in Seq(Objectives) /\ b # <<>> /\ ys \in Seq(Objectives) /\ onDisk \in Seq(Objectives)
  BY BatchAssumption DEF StoreInv, Objectives
<1>2. /\ ys \o b \in Seq(Objectives) /\ ys \o b # <<>> /\ Len(ys \o b) > Len(ys)
      /\ ys # <<>> => (ys \o b)[1] = ys[1]
      /\ ys = <<>> => (ys \o b)[1] = b[1]
  BY <1>1
<1>3. /\ hasModel' = surrogate /\ UNCHANGED <<surrogate, onDisk>>
      /\ ys' = StoredRows(b) /\ resumed' = (resumed \/ StoredRows(b) # ys \o b)
  BY DEF Store
<1>4. resumed' \in BOOLEAN
  BY <1>3 DEF StoreInv
<1>5. CASE ys' = ys \o b
  <2>1. resumed' = resumed
    BY <1>3, <1>5 DEF StoreInv
  <2>2. surrogate /\ (hasModel \/ b[1] # NaN) => ys'[1] # NaN
    BY <1>1, <1>2, <1>5 DEF StoreInv
  <2>. QED
    BY <1>1, <1>2, <1>3, <1>4, <1>5, <2>1, <2>2
<1>6. CASE ys' # ys \o b
  <2>1. ys' = onDisk /\ surrogate /\ ~hasModel /\ onDisk # <<>> /\ resumed'
    BY <1>3, <1>6 DEF StoredRows
  <2>2. ys = <<>>
    BY <2>1 DEF StoreInv
  <2>3. Len(onDisk) > Len(ys)
    BY <1>1, <2>1, <2>2
  <2>4. ys'[1] # NaN
    BY <2>1 DEF StoreInv
  <2>. QED
    BY <1>1, <1>3, <1>4, <2>1, <2>3, <2>4
<1>. QED
  BY <1>5, <1>6

\* Whatever was missed, an observed batch leaves a tracker and an incumbent of
\* all rows.
LEMMA ObserveStep ==
    ASSUME ObservedInv, NEW b \in Batches, Observe(b)
    PROVE  /\ tracker' \in Trackers /\ tracker'.at \subseteq 1..num'
           /\ tracker'.count = Len(ys')
           /\ num' = Len(ys')
           /\ ~blind' => RightUpTo(tracker', ys', Len(ys'))
           /\ incAt' \in 1..Len(ys')
           /\ BestRow'
<1> DEFINE n == Len(ys')
           told == TrackerTold(tracker, num, b)
<1>1. Store(b) /\ num' = n /\ tracker' = TrackerAfter(b, ys')
      /\ incAt' = Incumbent(tracker', ys') /\ (surrogate => IsFinite(b))
      /\ blind' = (blind \/ (resumed' /\ ~resumed /\ Len(onDisk) = Len(b)))
  BY DEF Observe
<1>2. /\ b \in Seq(Objectives) /\ b # <<>>
      /\ ys' \in Seq(Objectives) /\ ys' # <<>> /\ Len(ys') > Len(ys)
      /\ \/ ys' = ys \o b /\ resumed' = resumed
         \/ /\ ys' = onDisk /\ surrogate /\ ~hasModel /\ resumed'
      /\ surrogate' = surrogate
      /\ surrogate /\ (hasModel \/ b[1] # NaN) => ys'[1] # NaN
  BY <1>1, StoredStep DEF ObservedInv
<1>3. surrogate => ys'[1] # NaN
  <2>1. 1 \in DOMAIN b
    <3>1. Len(b) \in Nat /\ Len(b) # 0
      BY <1>2
    <3>. QED
      BY <1>2, <3>1
  <2>2. surrogate => b[1] # NaN
    BY <1>1, <2>1 DEF IsFinite, Range
  <2>. QED
    BY <1>2, <2>2
<1>4. tracker \in Trackers /\ num \in Nat /\ num <= Len(ys) /\ tracker.at \subseteq 1..num
      /\ Len(ys) \in Nat /\ Len(b) \in Nat /\ n \in Nat /\ n > 0 /\ Len(b) > 0
      /\ tracker.count \in Nat
  <2>1. num \in 0..Len(ys) /\ ys \in Seq(Objectives)
    BY DEF ObservedInv, StoreInv
  <2>2. tracker \in Trackers /\ tracker.at \subseteq 1..num
    BY DEF ObservedInv, TrackerInv
  <2>3. tracker.count \in Nat
    BY <2>2 DEF Trackers
  <2>4. Len(ys) \in Nat /\ Len(b) \in Nat /\ n \in Nat /\ n > 0 /\ Len(b) > 0
    BY <1>2, <2>1
  <2>. QED
    BY <2>1, <2>2, <2>3, <2>4
<1>5. /\ told \in Trackers /\ told.count = tracker.count + Len(b)
      /\ told.at \subseteq tracker.at \cup (num + 1)..(num + Len(b))
      /\ told.at # {}
  BY <1>2, <1>4, TrackerToldType
<1>6. CASE told.count = n
  <2>1. tracker' = told
    BY <1>1, <1>6 DEF TrackerAfter
  <2>2. num + Len(b) <= n /\ (~blind' => RightUpTo(told, ys', n))
    <3>1. CASE ys' = ys \o b
      <4>1. n = Len(ys) + Len(b)
        BY <1>2, <3>1 DEF ObservedInv, StoreInv
      <4>2. tracker.count = Len(ys)
        BY <1>4, <1>5, <1>6, <4>1
      <4>3. num = Len(ys)
        BY <4>2 DEF ObservedInv, TrackerInv
      <4>4. ASSUME ~blind' PROVE RightUpTo(told, ys', n)
        <5>1. RightUpTo(tracker, ys, Len(ys))
          BY <1>1, <4>2, <4>4 DEF ObservedInv, TrackerInv
        <5>2. ys \in Seq(Objectives)
          BY DEF ObservedInv, StoreInv
        <5>3. \A i \in 1..Len(ys) : ys'[i] = ys[i]
          BY <1>2, <3>1, <5>2
        <5>4. RightUpTo(tracker, ys', num)
          <6>1. \A i \in tracker.at : ys'[i] = ys[i]
            BY <1>4, <4>3, <5>3
          <6>. QED
            BY <4>3, <5>1, <5>3, <6>1 DEF RightUpTo
        <5>5. \A k \in 1..Len(b) : b[k] = ys'[num + k]
          BY <1>2, <3>1, <4>3, <5>2
        <5>6. num + Len(b) = Len(ys')
          BY <4>1, <4>3
        <5>. QED
          BY <1>2, <1>3, <1>4, <5>4, <5>5, <5>6, TrackerToldRight
      <4>. QED
        BY <1>4, <4>1, <4>3, <4>4
    <3>2. CASE ys' # ys \o b
      <4>1. ys' = onDisk /\ surrogate /\ ~hasModel /\ resumed'
        BY <1>2, <3>2
      <4>2. ys = <<>> /\ tracker = EmptyTracker /\ ~resumed
        BY <4>1 DEF ObservedInv, StoreInv
      <4>3. tracker.count = 0 /\ num = 0
        BY <1>4, <4>2 DEF EmptyTracker
      <4>4. n = Len(b)
        BY <1>4, <1>5, <1>6, <4>3
      <4>5. blind'
        BY <1>1, <4>1, <4>2, <4>4
      <4>. QED
        BY <1>4, <4>3, <4>4, <4>5
    <3>. QED
      BY <3>1, <3>2
  <2>3. told.at \subseteq 1..n
    BY <1>4, <1>5, <2>2
  <2> HIDE DEF n, told
  <2>. QED
    <3>1. incAt' \in tracker'.at
      <4>1. tracker'.at \subseteq DOMAIN ys' /\ tracker'.at # {}
        BY <1>2, <1>5, <2>1, <2>3 DEF n
      <4>. QED
        BY <1>1, <1>2, <4>1, IncumbentIn
    <3>2. RightUpTo(tracker', ys', Len(ys')) /\ ~blind' => BestRow'
      <4> SUFFICES ASSUME RightUpTo(tracker', ys', Len(ys')), surrogate \/ IsFinite(ys')
                   PROVE  \A i \in DOMAIN ys' : ~Greater(ys'[i], ys'[incAt']) /\ ys'[incAt'] # NaN
        BY <1>2 DEF BestRow, IsFinite
      <4>1. surrogate \in BOOLEAN
        BY DEF ObservedInv, StoreInv
      <4>. QED
        BY <1>1, <1>2, <4>1, IncumbentBest
    <3>3. blind' => BestRow'
      BY DEF BestRow
    <3>. QED
      BY <1>1, <1>5, <1>6, <2>1, <2>2, <2>3, <3>1, <3>2, <3>3 DEF n
<1>7. CASE told.count # n
  <2>1. tracker' = TrackerTold(EmptyTracker, 0, ys')
    BY <1>1, <1>7 DEF TrackerAfter, Rebuilt
  <2>2. EmptyTracker \in Trackers /\ RightUpTo(EmptyTracker, ys', 0)
    BY DEF EmptyTracker, Trackers, RightUpTo
  <2>3. \A k \in 1..Len(ys') : ys'[k] = ys'[0 + k]
    OBVIOUS
  <2>4. RightUpTo(tracker', ys', Len(ys'))
    <3>1. 0 + Len(ys') = Len(ys') /\ 0 \in Nat
      BY <1>4
    <3>. QED
      BY <1>2, <1>3, <2>1, <2>2, <2>3, <3>1, TrackerToldRight
  <2>5. tracker' \in Trackers /\ tracker'.count = Len(ys')
        /\ tracker'.at \subseteq 1..Len(ys') /\ tracker'.at # {}
    <3>1. tracker' \in Trackers
      BY <1>2, <2>1, <2>2, TrackerToldType
    <3>. QED
      BY <1>4, <2>4, <3>1 DEF RightUpTo
  <2>6. incAt' \in tracker'.at
    <3>1. tracker'.at \subseteq DOMAIN ys'
      BY <1>2, <2>5
    <3>. QED
      BY <1>1, <1>2, <2>5, <3>1, IncumbentIn
  <2>7. BestRow'
    <3> SUFFICES ASSUME surrogate \/ IsFinite(ys')
                 PROVE  \A i \in DOMAIN ys' : ~Greater(ys'[i], ys'[incAt']) /\ ys'[incAt'] # NaN
      BY <1>2 DEF BestRow, IsFinite
    <3>1. surrogate \in BOOLEAN
      BY DEF ObservedInv, StoreInv
    <3>. QED
      BY <1>1, <1>2, <2>4, <3>1, IncumbentBest
  <2>. QED
    BY <1>1, <2>4, <2>5, <2>6, <2>7
<1>. QED
  BY <1>6, <1>7

LEMMA ObservedInit ==
    ASSUME Init PROVE ObservedInv
<1>1. ys = <<>> /\ num = 0 /\ tracker = EmptyTracker /\ incAt = 0 /\ hasModel = FALSE
      /\ clean = TRUE /\ resumed = FALSE /\ blind = FALSE /\ result = "none"
      /\ surrogate \in BOOLEAN /\ inInit \in BOOLEAN
  BY DEF Init
<1>2. ys \in Seq(Objectives) /\ Len(ys) = 0
  BY <1>1
<1>3. onDisk \in Seq(Objectives) /\ (onDisk # <<>> => onDisk[1] # NaN)
      /\ (~surrogate => onDisk = <<>>)
  <2>1. onDisk \in IF surrogate THEN Resumable ELSE {<<>>}
    BY DEF Init
  <2>2. CASE surrogate
    BY <2>1, <2>2, BatchAssumption DEF Objectives
  <2>3. CASE ~surrogate
    BY <2>1, <2>3
  <2>. QED
    BY <2>2, <2>3
<1>4. StoreInv
  <2>1. {surrogate, hasModel, inInit, clean, resumed, blind} \subseteq BOOLEAN
    BY <1>1
  <2>2. num \in 0..Len(ys)
    BY <1>1, <1>2
  <2>3. {onDisk, ys} \subseteq Seq(Objectives)
    BY <1>2, <1>3
  <2>. QED
    BY <1>1, <1>3, <2>1, <2>2, <2>3, Zenon DEF StoreInv
<1>5. EmptyTracker \in Trackers /\ EmptyTracker.at = {} /\ EmptyTracker.count = 0
      /\ RightUpTo(EmptyTracker, ys, 0)
  BY DEF EmptyTracker, Trackers, RightUpTo
<1>6. TrackerInv
  BY <1>1, <1>2, <1>5 DEF TrackerInv
<1>7. IncumbentInv
  BY <1>1, <1>2 DEF IncumbentInv, Told
<1>. QED
  BY <1>4, <1>6, <1>7 DEF ObservedInv

\* What is stored after a batch that is observed or whose tell fails.
LEMMA StoreKeeps ==
    ASSUME ObservedInv, NEW b \in Batches, Store(b),
           surrogate /\ ~hasModel => IsFinite(b),
           {inInit', clean', blind'} \subseteq BOOLEAN, num' \in 0..Len(ys')
    PROVE  StoreInv'
<1>1. StoreInv
  BY DEF ObservedInv
<1>2. /\ b \in Seq(Objectives) /\ b # <<>>
      /\ ys' \in Seq(Objectives) /\ ys' # <<>>
      /\ hasModel' = surrogate /\ UNCHANGED <<surrogate, onDisk>>
      /\ resumed' \in BOOLEAN
      /\ surrogate /\ (hasModel \/ b[1] # NaN) => ys'[1] # NaN
  BY <1>1, StoredStep
<1>3. surrogate /\ ~hasModel => b[1] # NaN
  <2>1. 1 \in DOMAIN b
    <3>1. Len(b) \in Nat /\ Len(b) # 0
      BY <1>2
    <3>. QED
      BY <1>2, <3>1
  <2>. QED
    BY <2>1 DEF IsFinite, Range
<1>4. {surrogate, hasModel, inInit, clean, resumed, blind}' \subseteq BOOLEAN
  <2>1. surrogate \in BOOLEAN
    BY <1>1 DEF StoreInv
  <2>. QED
    BY <1>2, <2>1
<1>5. {onDisk, ys}' \subseteq Seq(Objectives) /\ (onDisk' # <<>> => onDisk'[1] # NaN)
  BY <1>1, <1>2 DEF StoreInv
<1>6. ~surrogate' => onDisk' = <<>> /\ ~hasModel'
  BY <1>1, <1>2 DEF StoreInv
<1>7. ~(surrogate' /\ ~hasModel')
  BY <1>2
<1>8. surrogate' /\ ys' # <<>> => ys'[1] # NaN
  BY <1>2, <1>3
<1>9. ys' # <<>> /\ num' \in 0..Len(ys')
  BY <1>2
<1>. QED
  BY <1>4, <1>5, <1>6, <1>7, <1>8, <1>9 DEF StoreInv

\* Rows stored by a tell that fails: the tracker is behind them.
LEMMA ObservedFails ==
    ASSUME ObservedInv, NEW b \in Batches, StoreFails(b) \/ FitFails(b)
    PROVE  ObservedInv'
<1>1. Store(b) /\ clean' = FALSE /\ result' = "err"
      /\ UNCHANGED <<tracker, incAt, inInit, blind>>
      /\ (num' = num \/ num' = Len(ys'))
      /\ (surrogate /\ ~hasModel => IsFinite(b))
  BY DEF StoreFails, FitFails
<1>2. ys \in Seq(Objectives) /\ num \in 0..Len(ys) /\ inInit \in BOOLEAN /\ blind \in BOOLEAN
  BY DEF ObservedInv, StoreInv
<1>3. ys' \in Seq(Objectives) /\ Len(ys') > Len(ys)
  BY <1>1, StoredStep DEF ObservedInv
<1>4. Len(ys) \in Nat /\ Len(ys') \in Nat /\ num \in Nat /\ num' \in Nat
      /\ num <= num' /\ num' <= Len(ys')
  BY <1>1, <1>2, <1>3
<1>5. StoreInv'
  <2>1. {inInit', clean', blind'} \subseteq BOOLEAN
    BY <1>1, <1>2
  <2>2. num' \in 0..Len(ys')
    BY <1>4
  <2>. QED
    BY <1>1, <2>1, <2>2, StoreKeeps
<1>6. tracker \in Trackers /\ tracker.at \subseteq 1..num /\ tracker.count <= Len(ys)
      /\ tracker.count \in Nat
  BY DEF ObservedInv, TrackerInv, Trackers
<1>7. tracker.at \subseteq 1..num' /\ tracker.count <= Len(ys') /\ tracker.count # Len(ys')
  BY <1>3, <1>4, <1>6
<1>8. TrackerInv'
  BY <1>1, <1>6, <1>7 DEF TrackerInv
<1>9. IncumbentInv'
  <2>1. incAt \in 0..Len(ys')
    BY <1>3, <1>4 DEF ObservedInv, IncumbentInv
  <2>. QED
    BY <1>1, <2>1 DEF IncumbentInv, Told
<1>. QED
  BY <1>5, <1>8, <1>9 DEF ObservedInv

LEMMA ObservedKeeps ==
    ASSUME ObservedInv, NEW b \in Batches, Observe(b), clean' = clean, inInit' \in BOOLEAN
    PROVE  ObservedInv'
<1>1. /\ tracker' \in Trackers /\ tracker'.at \subseteq 1..num'
      /\ tracker'.count = Len(ys')
      /\ num' = Len(ys')
      /\ ~blind' => RightUpTo(tracker', ys', Len(ys'))
      /\ incAt' \in 1..Len(ys')
      /\ BestRow'
  BY ObserveStep
<1>2. Store(b) /\ (surrogate => IsFinite(b)) /\ blind' \in BOOLEAN
  BY DEF Observe, ObservedInv, StoreInv
<1>3. ys' \in Seq(Objectives) /\ surrogate' = surrogate
  BY <1>2, StoredStep DEF ObservedInv
<1>4. Len(ys') \in Nat
  BY <1>3
<1>5. StoreInv'
  <2>1. clean' \in BOOLEAN
    BY DEF ObservedInv, StoreInv
  <2>2. num' \in 0..Len(ys')
    BY <1>1, <1>4
  <2>. QED
    BY <1>2, <2>1, <2>2, StoreKeeps
<1>6. TrackerInv'
  BY <1>1, <1>3, <1>4 DEF TrackerInv, RightUpTo
<1>7. IncumbentInv'
  BY <1>1, <1>4 DEF IncumbentInv
<1>. QED
  BY <1>5, <1>6, <1>7 DEF ObservedInv

LEMMA ObservedStutters ==
    ASSUME ObservedInv, result' \in {result, "err"},
           UNCHANGED <<surrogate, onDisk, hasModel, ys, num, tracker, incAt, inInit, clean,
                       resumed, blind>>
    PROVE  ObservedInv'
<1>1. StoreInv'
  BY DEF ObservedInv, StoreInv
<1>2. TrackerInv'
  BY DEF ObservedInv, TrackerInv, RightUpTo
<1>3. IncumbentInv'
  <2>1. BestRow' = BestRow
    BY DEF BestRow
  <2>2. Told' => Told
    BY DEF Told
  <2>. QED
    BY <2>1, <2>2 DEF ObservedInv, IncumbentInv
<1>. QED
  BY <1>1, <1>2, <1>3 DEF ObservedInv

LEMMA ObservedNext ==
    ASSUME ObservedInv, [Next]_vars PROVE ObservedInv'
<1>1. CASE TellRefused
  BY <1>1, ObservedStutters DEF TellRefused, ghostVars
<1>2. ASSUME NEW b \in Batches, StoreFails(b) \/ FitFails(b) PROVE ObservedInv'
  BY <1>2, ObservedFails
<1>3. ASSUME NEW b \in Batches, TellInit(b) \/ TellTurbo(b) \/ TellMismatch(b)
      PROVE  ObservedInv'
  <2>1. Observe(b) /\ clean' = clean
    BY <1>3 DEF TellInit, TellTurbo, TellMismatch
  <2>2. inInit' \in BOOLEAN
    <3>1. inInit \in BOOLEAN
      BY DEF ObservedInv, StoreInv
    <3>2. inInit' = inInit \/ inInit' = (completed' < NumInit)
      BY <1>3, Zenon DEF TellInit, TellTurbo, TellMismatch
    <3>3. (completed' < NumInit) \in BOOLEAN
      OBVIOUS
    <3>. QED
      BY <3>1, <3>2, <3>3, Zenon
  <2>. QED
    BY <2>1, <2>2, ObservedKeeps
<1>4. CASE UNCHANGED vars
  BY <1>4, ObservedStutters DEF vars, ghostVars
<1>. QED
  BY <1>1, <1>2, <1>3, <1>4 DEF Next

THEOREM ObservedInvariance == Spec => []ObservedInv
<1>1. Init => ObservedInv
  BY ObservedInit
<1>2. ObservedInv /\ [Next]_vars => ObservedInv'
  BY ObservedNext
<1>. QED
  BY <1>1, <1>2, PTL DEF Spec

\* After a tell the incumbent is the best row that is stored, those of tells
\* that returned Err included: a tracker that has missed a batch has counted
\* fewer rows and is rebuilt.
THEOREM IncumbentAlwaysBest == Spec => []IncumbentIsBest
<1>1. ObservedInv => IncumbentIsBest
  BY DEF ObservedInv, IncumbentInv, BestRow, IncumbentIsBest
<1>. QED
  BY <1>1, ObservedInvariance, PTL

----------------------------------------------------------------------------
(* The best value of the region *)

\* Finite ranges of the history; the numbers of the region.
HistBounded(hist) == \E u \in Nat : \A v \in hist : v <= u

RegionTypes == [length : Nat, succ : 0..2, fail : Nat, best : Objectives \cup {NegInf},
                prev : Nat, hist : SUBSET Value]

\* While no tell has failed with its rows stored, the watermark is at the row
\* count unless there is no best value yet, and the best value is that of the
\* incumbent, after every tell and before the next.
BestInv ==
    /\ tr \in RegionTypes /\ HistBounded(tr.hist) /\ tr.prev <= Len(ys)
    /\ completed \in Nat
    /\ result \in {"none", "ok", "late", "err", "refused"}
    /\ inInit => tr.prev = 0 /\ tr.best = NegInf
    /\ clean => /\ num = Len(ys)
                /\ tr.prev \in {0, num}
                /\ tr.prev = 0 => tr.best = NegInf
                /\ ~blind /\ (surrogate \/ IsFinite(ys)) => tr.best \in {NegInf, ys[incAt]}

LEMMA WithHistType ==
    ASSUME NEW r, r.hist \in SUBSET Value, HistBounded(r.hist), NEW b \in Seq(Objectives)
    PROVE  WithHist(r, b) \in SUBSET Value /\ HistBounded(WithHist(r, b))
<1> DEFINE S == (r.hist \cup Range(b)) \ {NaN}
           n == Len(b)
           f == [i \in 1..n |-> IF b[i] = NaN THEN 0 ELSE b[i]]
<1>1. n \in Nat /\ DOMAIN b = 1..n /\ \A i \in 1..n : b[i] \in Objectives
  OBVIOUS
<1> HIDE DEF n
<1>2. f \in [1..n -> Nat]
  BY <1>1, NumbersAreNot
<1>3. PICK u \in Nat : \A i \in 1..n : f[i] <= u
  BY <1>1, <1>2, NumbersBounded
<1>4. PICK w \in Nat : \A v \in r.hist : v <= w
  BY DEF HistBounded
<1>5. S \in SUBSET Value
  BY <1>1, NumbersAreNot DEF Range
<1>6. \A v \in S : v <= u + w
  <2> TAKE v \in S
  <2>1. v \in Nat
    BY <1>5, NumbersAreNot
  <2>2. CASE v \in r.hist
    BY <1>4, <2>1, <2>2
  <2>3. CASE v \in Range(b)
    <3>1. PICK i \in 1..n : v = b[i]
      BY <1>1, <2>3 DEF Range
    <3>2. f[i] = v
      BY <3>1
    <3>3. v <= u
      BY <1>3, <3>2
    <3>. QED
      BY <2>1, <3>3
  <2>. QED
    BY <2>2, <2>3
<1>7. WithHist(r, b) = IF S = {} THEN {} ELSE {Min(S), Max(S)}
  BY DEF WithHist, Extremes
<1> HIDE DEF S
<1>8. CASE S = {}
  BY <1>7, <1>8 DEF HistBounded
<1>9. CASE S # {}
  <2>1. S \in SUBSET Nat /\ u + w \in Nat
    <3>1. S \in SUBSET Nat
      BY <1>5, NumbersAreNot
    <3>2. u + w \in Nat
      OBVIOUS
    <3>. QED
      BY <3>1, <3>2
  <2>2. Min(S) \in S
    BY <1>9, <2>1, MinIsLeast
  <2>3. Max(S) \in S
    BY <1>6, <1>9, <2>1, MaxIsGreatest
  <2>4. WithHist(r, b) \subseteq S
    BY <1>7, <1>9, <2>2, <2>3
  <2>5. \A v \in WithHist(r, b) : v <= u + w
    BY <1>6, <2>4
  <2>. QED
    BY <1>5, <2>1, <2>4, <2>5 DEF HistBounded
<1>. QED
  BY <1>8, <1>9

\* An update leaves the best value at the batch's if there was none or it is
\* exceeded.
LEMMA UpdatedType ==
    ASSUME NEW r \in RegionTypes, HistBounded(r.hist), NEW b \in Seq(Objectives),
           NEW y \in Objectives
    PROVE  LET u == Updated(r, b, y)
           IN  /\ u \in RegionTypes /\ HistBounded(u.hist)
               /\ u.prev = r.prev + Len(b)
               /\ u.best = IF r.best \in {NegInf, NaN} \/ Greater(y, r.best) THEN y ELSE r.best
<1> DEFINE hist == WithHist(r, b)
           prev == r.prev + Len(b)
           u    == Updated(r, b, y)
<1>1. r.length \in Nat /\ r.succ \in 0..2 /\ r.fail \in Nat /\ r.prev \in Nat
      /\ r.best \in Objectives \cup {NegInf} /\ r.hist \in SUBSET Value /\ Len(b) \in Nat
  BY DEF RegionTypes
<1>2. hist \in SUBSET Value /\ HistBounded(hist)
  BY <1>1, WithHistType
<1>3. prev \in Nat
  BY <1>1
<1>4. CASE r.best \in {NegInf, NaN}
  <2>1. u = [r EXCEPT !.best = y, !.hist = hist, !.prev = prev]
    BY <1>4 DEF Updated
  <2> HIDE DEF u, hist, prev
  <2>2. u \in RegionTypes /\ u.hist = hist /\ u.prev = prev /\ u.best = y
    BY <1>2, <1>3, <2>1 DEF RegionTypes
  <2>. QED
    BY <1>2, <1>4, <2>2 DEF u, prev
<1>5. CASE r.best \notin {NegInf, NaN}
  <2> DEFINE improved == Improves(r, y)
             succ     == IF improved THEN r.succ + 1 ELSE 0
             fail     == IF improved THEN 0 ELSE r.fail + 1
             expands  == succ >= SuccessTolerance
             shrinks  == ~expands /\ fail >= FailureTolerance(Len(b))
             length   == IF expands THEN Min({2 * r.length, LengthMax})
                         ELSE IF shrinks THEN r.length \div 2 ELSE r.length
             succ2    == IF expands THEN 0 ELSE succ
             fail2    == IF shrinks THEN 0 ELSE fail
             best     == IF Greater(y, r.best) THEN y ELSE r.best
  <2>1. u = [length |-> length, succ |-> succ2, fail |-> fail2, best |-> best,
             prev |-> prev, hist |-> hist]
    BY <1>5 DEF Updated, Adapted
  <2>2. LengthMax \in Nat
    BY LengthAssumption
  <2>3. Min({2 * r.length, LengthMax}) \in Nat /\ r.length \div 2 \in Nat
    BY <1>1, <2>2, MinOfTwo
  <2>4. length \in Nat /\ fail2 \in Nat
    BY <1>1, <2>3
  <2>5. succ2 \in 0..2
    BY <1>1 DEF SuccessTolerance
  <2>6. best \in Objectives \cup {NegInf}
    BY <1>1
  <2> HIDE DEF u, hist, prev, length, succ2, fail2, best
  <2>7. u \in RegionTypes /\ u.hist = hist /\ u.prev = prev /\ u.best = best
    BY <1>2, <1>3, <2>1, <2>4, <2>5, <2>6 DEF RegionTypes
  <2>. QED
    BY <1>2, <1>5, <2>7 DEF u, prev, best
<1>. QED
  BY <1>4, <1>5

LEMMA RestartedType ==
    ASSUME NEW r \in RegionTypes, HistBounded(r.hist)
    PROVE  LET s == RestartedIfSmall(r)
           IN  /\ s \in RegionTypes /\ HistBounded(s.hist)
               /\ s.prev = r.prev
               /\ s.best \in {NegInf, r.best}
<1>1. CASE r.length < LengthMin
  <2> DEFINE s == [NewRegion EXCEPT !.prev = r.prev]
  <2>1. RestartedIfSmall(r) = s
    BY <1>1 DEF RestartedIfSmall
  <2>2. r.prev \in Nat /\ LengthInit \in Nat
    BY LengthAssumption DEF RegionTypes
  <2>3. s = [length |-> LengthInit, succ |-> 0, fail |-> 0, best |-> NegInf,
             prev |-> r.prev, hist |-> {}]
    BY DEF NewRegion
  <2>4. s \in RegionTypes /\ s.hist = {} /\ s.prev = r.prev /\ s.best = NegInf
    BY <2>2, <2>3 DEF RegionTypes
  <2>5. HistBounded({})
    BY DEF HistBounded
  <2>. QED
    BY <2>1, <2>4, <2>5
<1>2. CASE ~(r.length < LengthMin)
  BY <1>2 DEF RestartedIfSmall
<1>. QED
  BY <1>1, <1>2

LEMMA BestInit ==
    ASSUME Init PROVE BestInv
<1>1. ys = <<>> /\ Len(ys) = 0 /\ num = 0 /\ tr = NewRegion /\ result = "none" /\ completed = 0
  BY DEF Init
<1>2. LengthInit \in Nat
  BY LengthAssumption
<1>3. NewRegion \in RegionTypes /\ NewRegion.prev = 0 /\ NewRegion.best = NegInf
      /\ HistBounded(NewRegion.hist)
  BY <1>2 DEF NewRegion, RegionTypes, HistBounded
<1>. QED
  BY <1>1, <1>3 DEF BestInv

LEMMA BestFails ==
    ASSUME ObservedInv, BestInv, NEW b \in Batches, StoreFails(b) \/ FitFails(b)
    PROVE  BestInv'
<1>1. Store(b) /\ clean' = FALSE /\ result' = "err" /\ UNCHANGED <<inInit, completed, tr>>
  BY DEF StoreFails, FitFails
<1>2. ys' \in Seq(Objectives) /\ Len(ys') > Len(ys) /\ ys \in Seq(Objectives)
  BY <1>1, StoredStep DEF ObservedInv, StoreInv
<1>3. tr.prev \in Nat /\ tr.prev <= Len(ys)
  BY DEF BestInv, RegionTypes
<1>4. tr.prev <= Len(ys')
  BY <1>2, <1>3
<1>. QED
  BY <1>1, <1>4 DEF BestInv

\* The initial design leaves the region as it was built.
LEMMA BestTellInit ==
    ASSUME ObservedInv, BestInv, NEW b \in Batches, TellInit(b)
    PROVE  BestInv'
<1>1. inInit /\ Observe(b) /\ UNCHANGED <<tr, clean>> /\ result' \in {"ok", "late"}
      /\ completed' = completed + Len(b)
  BY DEF TellInit, Done
<1>2. Store(b) /\ num' = Len(ys')
  BY <1>1 DEF Observe
<1>3. ys' \in Seq(Objectives) /\ Len(ys') > Len(ys) /\ ys \in Seq(Objectives)
      /\ b \in Seq(Objectives)
  BY <1>2, StoredStep DEF ObservedInv, StoreInv
<1>4. completed' \in Nat
  BY <1>1, <1>3 DEF BestInv
<1>5. tr.prev = 0 /\ tr.best = NegInf
  BY <1>1 DEF BestInv
<1>6. tr.prev <= Len(ys')
  BY <1>3, <1>5
<1>. QED
  BY <1>1, <1>2, <1>4, <1>5, <1>6 DEF BestInv

\* The watermark that a batch finds; unless a tell has failed, a best value is
\* that of the incumbent of the rows before the batch.
LEMMA WatermarkType ==
    ASSUME ObservedInv, BestInv, NEW b \in Batches, Observe(b)
    PROVE  /\ Watermark(b, num') \in 0..Len(ys')
           /\ clean /\ tr.prev = 0 /\ Watermark(b, num') + Len(b) # num'
                => Watermark(b, num') = 0
           /\ clean /\ tr.prev # 0 =>
                /\ ys' = ys \o b /\ ys # <<>>
                /\ Watermark(b, num') + Len(b) = num'
<1>1. Store(b) /\ num' = Len(ys')
  BY DEF Observe
<1>2. /\ ys' \in Seq(Objectives) /\ Len(ys') > Len(ys) /\ ys \in Seq(Objectives)
      /\ b \in Seq(Objectives) /\ b # <<>>
      /\ ys' = ys \o b \/ (surrogate /\ ~hasModel)
  BY <1>1, StoredStep DEF ObservedInv, StoreInv
<1>3. Len(ys) \in Nat /\ Len(ys') \in Nat /\ Len(b) \in Nat /\ num' \in Nat
  BY <1>1, <1>2
<1>4. tr.prev \in Nat /\ tr.prev <= Len(ys)
  BY DEF BestInv, RegionTypes
<1>5. CASE tr.prev = 0
  <2>1. Watermark(b, num') = IF num' - Len(b) > 0 THEN num' - Len(b) ELSE 0
    <3> DEFINE d == num' - Len(b)
    <3>1. Watermark(b, num') = Max({0, d}) /\ d \in Int
      BY <1>3, <1>5 DEF Watermark
    <3> HIDE DEF d
    <3>2. Max({0, d}) = IF d > 0 THEN d ELSE 0
      BY <3>1, MaxOfTwo
    <3>. QED
      BY <3>1, <3>2 DEF d
  <2>. QED
    BY <1>1, <1>3, <1>5, <2>1
<1>6. CASE tr.prev # 0
  <2>1. Watermark(b, num') = tr.prev
    BY <1>6 DEF Watermark
  <2>2. tr.prev \in 0..Len(ys')
    BY <1>2, <1>3, <1>4
  <2>3. ASSUME clean
        PROVE  ys' = ys \o b /\ ys # <<>> /\ Watermark(b, num') + Len(b) = num'
    <3>1. tr.prev = num /\ num = Len(ys)
      BY <1>6, <2>3 DEF BestInv
    <3>2. ys # <<>>
      BY <1>3, <1>6, <3>1
    <3>3. ~(surrogate /\ ~hasModel)
      BY <3>2 DEF ObservedInv, StoreInv
    <3>4. ys' = ys \o b
      BY <1>2, <3>3
    <3>5. Len(ys') = Len(ys) + Len(b)
      BY <1>2, <3>4
    <3>. QED
      BY <1>1, <2>1, <3>1, <3>2, <3>4, <3>5
  <2>. QED
    BY <1>6, <2>1, <2>2, <2>3
<1>. QED
  BY <1>5, <1>6

\* A batch of the TuRBO phase measures its improvement from the incumbent.
LEMMA BestTellTurbo ==
    ASSUME ObservedInv, BestInv, NEW b \in Batches, TellTurbo(b)
    PROVE  BestInv'
<1> DEFINE w == Watermark(b, num')
           r == [tr EXCEPT !.prev = w]
           y == ys'[incAt']
           u == Updated(r, b, y)
<1>1. /\ ~inInit /\ Observe(b) /\ w + Len(b) = num' /\ tr' = RestartedIfSmall(u)
      /\ UNCHANGED <<inInit, completed, clean>> /\ result' \in {"ok", "late"}
  BY DEF TellTurbo, Done
<1>2. Store(b) /\ num' = Len(ys') /\ (blind => blind')
  BY <1>1 DEF Observe
<1>3. ys' \in Seq(Objectives) /\ ys \in Seq(Objectives) /\ surrogate' = surrogate
      /\ b \in Seq(Objectives) /\ b # <<>>
  BY <1>2, StoredStep DEF ObservedInv, StoreInv
<1>4. incAt' \in 1..Len(ys') /\ BestRow'
  BY <1>1, ObserveStep
<1>5. y \in Objectives /\ Len(b) \in Nat /\ Len(b) # 0 /\ num' \in Nat
  BY <1>2, <1>3, <1>4
<1>6. /\ w \in 0..Len(ys')
      /\ clean /\ tr.prev # 0 => ys' = ys \o b /\ ys # <<>>
  BY <1>1, WatermarkType
<1> HIDE DEF w
<1>7. r \in RegionTypes /\ HistBounded(r.hist) /\ r.prev = w /\ r.best = tr.best
  BY <1>6 DEF BestInv, RegionTypes
<1> HIDE DEF r, y
<1>8. /\ u \in RegionTypes /\ HistBounded(u.hist) /\ u.prev = num'
      /\ u.best = IF tr.best \in {NegInf, NaN} \/ Greater(y, tr.best) THEN y ELSE tr.best
  BY <1>1, <1>3, <1>5, <1>7, UpdatedType
<1> HIDE DEF u
<1>9. /\ tr' \in RegionTypes /\ HistBounded(tr'.hist) /\ tr'.prev = num'
      /\ tr'.best \in {NegInf, u.best}
  BY <1>1, <1>8, RestartedType
<1>10. ASSUME clean, ~blind', surrogate \/ IsFinite(ys')
       PROVE  tr'.best \in {NegInf, ys'[incAt']}
  <2>1. u.best = y
    <3>1. CASE tr.best \in {NegInf, NaN} \/ Greater(y, tr.best)
      BY <1>8, <3>1
    <3>2. CASE ~(tr.best \in {NegInf, NaN} \/ Greater(y, tr.best))
      <4>1. tr.prev # 0
        BY <1>10, <3>2 DEF BestInv
      <4>2. ys' = ys \o b /\ ys # <<>>
        BY <1>6, <1>10, <4>1
      <4>3. \A i \in DOMAIN ys : i \in DOMAIN ys' /\ ys'[i] = ys[i]
        BY <1>3, <4>2
      <4>4. surrogate \/ IsFinite(ys)
        BY <1>10, <4>3 DEF IsFinite, Range
      <4>5. ~blind
        <5>1. blind \in BOOLEAN
          BY DEF ObservedInv, StoreInv
        <5>. QED
          BY <1>2, <1>10
      <4>6. tr.best = ys[incAt]
        BY <1>10, <3>2, <4>4, <4>5 DEF BestInv
      <4>7. incAt \in DOMAIN ys
        BY <1>3, <1>10, <4>2 DEF ObservedInv, IncumbentInv
      <4>8. ~Greater(tr.best, y) /\ y # NaN
        BY <1>3, <1>4, <1>10, <4>3, <4>6, <4>7 DEF BestRow, y, IsFinite
      <4>9. tr.best \in Nat /\ y \in Nat /\ tr.best # NaN
        <5>1. tr.best \in Objectives
          BY <1>3, <4>6, <4>7
        <5>2. tr.best # NaN
          BY <3>2
        <5>. QED
          BY <1>5, <4>8, <5>1, <5>2, NumbersAreNot
      <4> DEFINE p == tr.best
      <4>10. p \in Nat /\ y \in Nat /\ p # NaN /\ y # NaN /\ ~Greater(p, y) /\ ~Greater(y, p)
        BY <3>2, <4>8, <4>9
      <4> HIDE DEF p
      <4>11. p = y
        BY <4>10 DEF Greater
      <4>12. u.best = tr.best
        BY <1>8, <3>2
      <4>. QED
        BY <4>11, <4>12 DEF p
    <3>. QED
      BY <3>1, <3>2
  <2>. QED
    BY <1>9, <2>1 DEF y
<1>11. tr'.prev <= Len(ys') /\ num' # 0
  <2>1. w \in Nat
    BY <1>2, <1>5, <1>6
  <2>. QED
    BY <1>1, <1>2, <1>5, <1>9, <2>1
<1>12. IsFinite(ys)' = IsFinite(ys')
  BY DEF IsFinite
<1>. QED
  BY <1>1, <1>2, <1>3, <1>9, <1>10, <1>11, <1>12 DEF BestInv

\* A batch that does not fit the watermark moves it and nothing else.
LEMMA BestTellMismatch ==
    ASSUME ObservedInv, BestInv, NEW b \in Batches, TellMismatch(b)
    PROVE  BestInv'
<1> DEFINE w == Watermark(b, num')
<1>1. /\ ~inInit /\ Observe(b) /\ w + Len(b) # num' /\ tr' = [tr EXCEPT !.prev = w]
      /\ UNCHANGED <<inInit, completed, clean>> /\ result' = "refused"
  BY DEF TellMismatch
<1>2. Store(b) /\ num' = Len(ys')
  BY <1>1 DEF Observe
<1>3. ys' \in Seq(Objectives)
  BY <1>2, StoredStep DEF ObservedInv, StoreInv
<1>4. /\ w \in 0..Len(ys')
      /\ clean /\ tr.prev = 0 /\ w + Len(b) # num' => w = 0
      /\ clean /\ tr.prev # 0 => w + Len(b) = num'
  BY <1>1, WatermarkType
<1> HIDE DEF w
<1>5. /\ tr' \in RegionTypes /\ HistBounded(tr'.hist) /\ tr'.prev = w
      /\ tr'.best = tr.best
  BY <1>1, <1>3, <1>4 DEF BestInv, RegionTypes
<1>6. tr'.prev <= Len(ys')
  BY <1>3, <1>4, <1>5
<1>7. ASSUME clean PROVE tr'.prev = 0 /\ tr'.best = NegInf
  BY <1>1, <1>4, <1>5, <1>7 DEF BestInv
<1>. QED
  BY <1>1, <1>2, <1>5, <1>6, <1>7 DEF BestInv

LEMMA BestStutters ==
    ASSUME BestInv, result' \in {result, "err"},
           UNCHANGED <<surrogate, ys, num, incAt, inInit, completed, tr, clean, blind>>
    PROVE  BestInv'
BY DEF BestInv, IsFinite

LEMMA BestNext ==
    ASSUME ObservedInv, BestInv, [Next]_vars PROVE BestInv'
<1>1. CASE TellRefused
  BY <1>1, BestStutters DEF TellRefused, ghostVars
<1>2. ASSUME NEW b \in Batches, StoreFails(b) \/ FitFails(b) PROVE BestInv'
  BY <1>2, BestFails
<1>3. ASSUME NEW b \in Batches, TellInit(b) PROVE BestInv'
  BY <1>3, BestTellInit
<1>4. ASSUME NEW b \in Batches, TellTurbo(b) PROVE BestInv'
  BY <1>4, BestTellTurbo
<1>5. ASSUME NEW b \in Batches, TellMismatch(b) PROVE BestInv'
  BY <1>5, BestTellMismatch
<1>6. CASE UNCHANGED vars
  BY <1>6, BestStutters DEF vars, ghostVars
<1>. QED
  BY <1>1, <1>2, <1>3, <1>4, <1>5, <1>6 DEF Next

THEOREM BestInvariance == Spec => []BestInv
<1>1. Init => BestInv
  BY BestInit
<1>2. ObservedInv /\ BestInv /\ [Next]_vars => BestInv'
  BY BestNext
<1>. QED
  BY <1>1, <1>2, ObservedInvariance, PTL DEF Spec

\* Every variable holds a value of its type: row counts, indices and watermark
\* never point past the rows, and a success counter never reaches its
\* tolerance.
THEOREM TypeCorrect == Spec => []TypeOK
<1>1. ObservedInv /\ BestInv => TypeOK
  <2> SUFFICES ASSUME ObservedInv, BestInv PROVE TypeOK
    OBVIOUS
  <2>1. /\ {surrogate, hasModel, inInit, clean, resumed, blind} \subseteq BOOLEAN
        /\ onDisk \in Rows /\ ys \in Rows /\ num \in 0..Len(ys)
    BY DEF ObservedInv, StoreInv, Objectives, Rows
  <2>2. Len(ys) \in Nat
    BY <2>1 DEF Rows
  <2>3. tracker.count \in Nat /\ tracker.at \subseteq 1..Len(ys) /\ incAt \in 0..Len(ys)
    <3>1. tracker.count \in Nat /\ tracker.at \subseteq 1..num /\ incAt \in 0..Len(ys)
      BY DEF ObservedInv, TrackerInv, Trackers, IncumbentInv
    <3>. QED
      BY <2>1, <2>2, <3>1
  <2>4. /\ completed \in Nat
        /\ result \in {"none", "ok", "late", "err", "refused"}
        /\ tr \in RegionTypes /\ tr.prev <= Len(ys)
    BY DEF BestInv
  <2>5. tr \in [length : Nat, succ : 0..2, fail : Nat, best : Value \cup {NaN, NegInf},
                prev : 0..Len(ys), hist : SUBSET Value]
    BY <2>2, <2>4 DEF RegionTypes, Objectives
  <2>. QED
    BY <2>1, <2>3, <2>4, <2>5 DEF TypeOK
<1>. QED
  BY <1>1, ObservedInvariance, BestInvariance, PTL

\* The best value that improvements are measured from is the incumbent's, or
\* was reset by a restart (update_with_incumbent_new_batch).
THEOREM BestAlwaysIncumbent == Spec => []BestIsIncumbent
<1>1. BestInv => BestIsIncumbent
  BY DEF BestInv, BestIsIncumbent
<1>. QED
  BY <1>1, BestInvariance, PTL

\* With TuRBO's region or another one that it leaves alone, an optimizer
\* behaves as this model says: the theorems hold of every optimizer.
THEOREM OptimizerIsTurbo == OptimizerSpec => Spec
<1>1. OptimizerInit => Init
  BY DEF OptimizerInit
<1>2. [OptimizerNext]_optimizerVars => [Next]_vars
  BY DEF OptimizerNext, optimizerVars
<1>. QED
  BY <1>1, <1>2, PTL DEF OptimizerSpec, Spec

=============================================================================
