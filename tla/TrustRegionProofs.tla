------------------------- MODULE TrustRegionProofs -------------------------
(***************************************************************************)
(* What the trust regions of several objectives and of several regions     *)
(* keep, for any rows, batches, weights, bounds, tolerances and arms.      *)
(* MorboTell: the ranges that scores are relative to are those of the rows,*)
(* and the best value is the score of the row behind it as of now.         *)
(* MultiTrustRegion: a region is centered on a row that was observed to    *)
(* have its best value, none is left behind that is too small, and each is *)
(* credited with the rows it made.                                         *)
(***************************************************************************)
EXTENDS OptimizerTell, NumberFacts, FiniteSetTheorems

----------------------------------------------------------------------------
(* MORBO's region *)

\* The values of metric m in rows.
Column(told, m) == {told[i][m] : i \in DOMAIN told}

Ranges == [Metrics -> {r \in [lo : Nat, hi : Nat] : r.lo <= r.hi}]

MorboRegions == [length : Nat, succ : Nat, fail : Nat, best : Nat \cup {NoBest},
                 prev : Nat, tolerance : Nat]

\* A metric without rows has no range.
MorboTypeInv ==
    /\ rows \in Seq(Points)
    /\ weights \in Weights
    /\ raw \in Points \cup {<<>>}
    /\ ranges \in Ranges \cup {<<>>}
    /\ region \in MorboRegions

\* The watermark is never ahead of the rows: a tell that gets to the region
\* has rows that are new to it.  Without a row behind it there is no best
\* value.
RegionBehind ==
    /\ region.prev <= Len(rows)
    /\ raw = <<>> => region.best = NoBest

\* As RangesCoverRows, and before the first row there are no ranges.
RangesInv == ~missed => ranges = IF rows = <<>> THEN <<>> ELSE Widened(<<>>, rows)

MorboInv == MorboTypeInv /\ RegionBehind /\ RangesInv /\ BestIsCentersScore

----------------------------------------------------------------------------
(* Ranges *)

LEMMA ToleranceType ==
    ASSUME NEW n \in Nat \ {0}
    PROVE  FailureTolerance(n) \in Nat \ {0}
<1>1. Max({4, Dim}) \in Nat
  BY MaxOfTwo, DesignAssumption
<1> DEFINE q == (Max({4, Dim}) + n - 1) \div n
<1>2. q \in Int
  BY <1>1
<1> HIDE DEF q
<1>3. Max({1, q}) \in Nat \ {0}
  BY <1>2, MaxOfTwo
<1>. QED
  BY <1>3 DEF FailureTolerance, q

LEMMA ColumnBounded ==
    ASSUME NEW told \in Seq(Points), told # <<>>, NEW m \in Metrics
    PROVE  /\ Column(told, m) \in SUBSET Nat /\ Column(told, m) # {}
           /\ \E u \in Nat : \A v \in Column(told, m) : v <= u
<1> DEFINE n == Len(told)
           f == [i \in 1..n |-> told[i][m]]
<1>1. n \in Nat /\ n # 0 /\ DOMAIN told = 1..n
  OBVIOUS
<1>2. \A i \in 1..n : told[i][m] \in Nat
  BY <1>1, MorboAssumption DEF Metrics
<1> HIDE DEF n
<1>3. f \in [1..n -> Nat]
  BY <1>2
<1>4. PICK u \in Nat : \A i \in 1..n : f[i] <= u
  BY <1>1, <1>3, NumbersBounded
<1>5. \A i \in 1..n : told[i][m] <= u
  BY <1>4
<1>6. told[1][m] \in Column(told, m)
  BY <1>1 DEF Column
<1>. QED
  BY <1>1, <1>2, <1>5, <1>6 DEF Column

\* The least and the greatest of a range and some new numbers are those of all
\* numbers.
LEMMA ExtremesOfUnion ==
    ASSUME NEW A \in SUBSET Nat, A # {}, NEW B \in SUBSET Nat,
           NEW u \in Nat, \A v \in A : v <= u, NEW w \in Nat, \A v \in B : v <= w
    PROVE  /\ Min(B \cup {Min(A), Max(A)}) = Min(B \cup A)
           /\ Max(B \cup {Min(A), Max(A)}) = Max(B \cup A)
<1> DEFINE lo == Min(A)
           hi == Max(A)
           S == B \cup {lo, hi}
<1>1. lo \in A /\ \A v \in A : lo <= v
  BY MinIsLeast
<1>2. hi \in A /\ \A v \in A : v <= hi
  BY MaxIsGreatest
<1> HIDE DEF lo, hi
<1>3. S \in SUBSET Nat /\ S # {}
  BY <1>1, <1>2
<1>4. Min(S) \in S /\ \A v \in S : Min(S) <= v
  BY <1>3, MinIsLeast
<1>5. PICK x \in Nat : u <= x /\ w <= x
  <2>1. u <= w \/ w <= u
    OBVIOUS
  <2>. QED
    BY <2>1
<1>6. \A v \in S : v <= x
  BY <1>1, <1>2, <1>5
<1>7. Max(S) \in S /\ \A v \in S : v <= Max(S)
  BY <1>3, <1>6, MaxIsGreatest
<1> DEFINE p == Min(S)
           q == Max(S)
<1>8. p \in S /\ (\A v \in S : p <= v) /\ q \in S /\ (\A v \in S : v <= q)
  BY <1>4, <1>7
<1> HIDE DEF p, q
<1>9. p \in B \cup A /\ \A v \in B \cup A : p <= v
  <2>1. ASSUME NEW v \in A PROVE p <= v
    <3>1. p <= lo /\ lo <= v /\ p \in Nat /\ lo \in Nat /\ v \in Nat
      BY <1>1, <1>3, <1>8
    <3>. QED
      BY <3>1
  <2>. QED
    BY <1>1, <1>2, <1>8, <2>1
<1>10. q \in B \cup A /\ \A v \in B \cup A : v <= q
  <2>1. ASSUME NEW v \in A PROVE v <= q
    <3>1. v <= hi /\ hi <= q /\ q \in Nat /\ hi \in Nat /\ v \in Nat
      BY <1>2, <1>3, <1>8
    <3>. QED
      BY <3>1
  <2>. QED
    BY <1>1, <1>2, <1>8, <2>1
<1>11. B \cup A \in SUBSET Int
  OBVIOUS
<1>12. Min(B \cup A) = p
  BY <1>9, <1>11, MinIs
<1>13. Max(B \cup A) = q
  <2>1. \A v \in B \cup A : q >= v
    BY <1>10, <1>11
  <2>. QED
    BY <1>10, <1>11, <2>1, MaxIs
<1>. QED
  BY <1>12, <1>13 DEF p, q, lo, hi

LEMMA FirstRanges ==
    ASSUME NEW told \in Seq(Points), told # <<>>
    PROVE  /\ Widened(<<>>, told) = [m \in Metrics |-> [lo |-> Min(Column(told, m)),
                                                      hi |-> Max(Column(told, m))]]
           /\ Widened(<<>>, told) \in Ranges
<1>1. Widened(<<>>, told) = [m \in Metrics |-> [lo |-> Min(Column(told, m)),
                                              hi |-> Max(Column(told, m))]]
  <2>1. \A m \in Metrics : {told[i][m] : i \in DOMAIN told} \cup {} = Column(told, m)
    BY DEF Column
  <2>. QED
    BY <2>1 DEF Widened
<1>2. ASSUME NEW m \in Metrics
      PROVE  /\ Min(Column(told, m)) \in Nat /\ Max(Column(told, m)) \in Nat
             /\ Min(Column(told, m)) <= Max(Column(told, m))
  <2> DEFINE C == Column(told, m)
  <2>1. C \in SUBSET Nat /\ C # {} /\ \E u \in Nat : \A v \in C : v <= u
    BY ColumnBounded
  <2> HIDE DEF C
  <2>2. Min(C) \in C /\ \A v \in C : Min(C) <= v
    BY <2>1, MinIsLeast
  <2>3. Max(C) \in C
    BY <2>1, MaxIsGreatest
  <2>4. Min(C) \in Nat /\ Max(C) \in Nat /\ Min(C) <= Max(C)
    BY <2>1, <2>2, <2>3
  <2>. QED
    BY <2>4 DEF C
<1>. QED
  BY <1>1, <1>2 DEF Ranges

LEMMA WidenedType ==
    ASSUME NEW r \in Ranges \cup {<<>>}, NEW b \in Seq(Points), b # <<>>
    PROVE  Widened(r, b) \in Ranges
<1>1. CASE r = <<>>
  BY <1>1, FirstRanges
<1>2. CASE r \in Ranges
  <2>1. r # <<>>
    <3>1. DOMAIN r = Metrics
      BY <1>2 DEF Ranges
    <3>2. 1 \in Metrics /\ 1 \notin DOMAIN <<>>
      BY DEF Metrics
    <3>. QED
      BY <3>1, <3>2
  <2>2. ASSUME NEW m \in Metrics
        PROVE  LET seen == Column(b, m) \cup {r[m].lo, r[m].hi}
               IN  Min(seen) \in Nat /\ Max(seen) \in Nat /\ Min(seen) <= Max(seen)
    <3> DEFINE lo == r[m].lo
               hi == r[m].hi
               C == Column(b, m)
               S == C \cup {lo, hi}
    <3>1. lo \in Nat /\ hi \in Nat
      BY <1>2 DEF Ranges
    <3>2. C \in SUBSET Nat
      BY ColumnBounded
    <3>3. PICK u \in Nat : \A v \in C : v <= u
      BY ColumnBounded
    <3> HIDE DEF lo, hi, C
    <3>4. PICK x \in Nat : u <= x /\ lo <= x /\ hi <= x
      <4>1. u + lo + hi \in Nat /\ u <= u + lo + hi /\ lo <= u + lo + hi /\ hi <= u + lo + hi
        BY <3>1
      <4>. QED
        BY <4>1
    <3>5. S \in SUBSET Nat /\ S # {} /\ \A v \in S : v <= x
      BY <3>1, <3>2, <3>3, <3>4
    <3> HIDE DEF S
    <3>6. Min(S) \in S /\ \A v \in S : Min(S) <= v
      BY <3>5, MinIsLeast
    <3>7. Max(S) \in S
      BY <3>5, MaxIsGreatest
    <3>8. Min(S) \in Nat /\ Max(S) \in Nat /\ Min(S) <= Max(S)
      BY <3>5, <3>6, <3>7
    <3>. QED
      BY <3>8 DEF S, C, lo, hi
  <2>3. Widened(r, b) = [m \in Metrics |->
          [lo |-> Min(Column(b, m) \cup {r[m].lo, r[m].hi}),
           hi |-> Max(Column(b, m) \cup {r[m].lo, r[m].hi})]]
    BY <2>1 DEF Widened, Column
  <2>. QED
    BY <2>2, <2>3 DEF Ranges
<1>. QED
  BY <1>1, <1>2

\* The ranges of the rows, widened by a batch, are the ranges of both.
LEMMA WidenedAppend ==
    ASSUME NEW a \in Seq(Points), NEW b \in Seq(Points), a # <<>>, b # <<>>
    PROVE  Widened(Widened(<<>>, a), b) = Widened(<<>>, a \o b)
<1> DEFINE r == Widened(<<>>, a)
<1>1. r = [m \in Metrics |-> [lo |-> Min(Column(a, m)), hi |-> Max(Column(a, m))]]
      /\ r \in Ranges
  BY FirstRanges
<1> HIDE DEF r
<1>2. r # <<>>
  BY <1>1 DEF Ranges, Metrics
<1>3. Widened(r, b) = [m \in Metrics |->
        [lo |-> Min(Column(b, m) \cup {r[m].lo, r[m].hi}),
         hi |-> Max(Column(b, m) \cup {r[m].lo, r[m].hi})]]
  BY <1>2 DEF Widened, Column
<1>4. a \o b \in Seq(Points) /\ a \o b # <<>>
  OBVIOUS
<1>5. Widened(<<>>, a \o b) = [m \in Metrics |-> [lo |-> Min(Column(a \o b, m)),
                                                  hi |-> Max(Column(a \o b, m))]]
  BY <1>4, FirstRanges
<1>6. ASSUME NEW m \in Metrics
      PROVE  /\ Min(Column(b, m) \cup {r[m].lo, r[m].hi}) = Min(Column(a \o b, m))
             /\ Max(Column(b, m) \cup {r[m].lo, r[m].hi}) = Max(Column(a \o b, m))
  <2>1. Column(a \o b, m) = Column(b, m) \cup Column(a, m)
    <3>1. \A i \in DOMAIN a : i \in DOMAIN (a \o b) /\ (a \o b)[i] = a[i]
      OBVIOUS
    <3>2. \A i \in DOMAIN b : Len(a) + i \in DOMAIN (a \o b) /\ (a \o b)[Len(a) + i] = b[i]
      OBVIOUS
    <3>3. \A i \in DOMAIN (a \o b) :
            \/ i \in DOMAIN a /\ (a \o b)[i] = a[i]
            \/ i - Len(a) \in DOMAIN b /\ (a \o b)[i] = b[i - Len(a)]
      OBVIOUS
    <3> DEFINE c == a \o b
    <3>4. (\A i \in DOMAIN a : i \in DOMAIN c /\ c[i] = a[i])
      BY <3>1
    <3>5. \A i \in DOMAIN b : Len(a) + i \in DOMAIN c /\ c[Len(a) + i] = b[i]
      BY <3>2
    <3>6. \A i \in DOMAIN c : \/ i \in DOMAIN a /\ c[i] = a[i]
                              \/ i - Len(a) \in DOMAIN b /\ c[i] = b[i - Len(a)]
      BY <3>3
    <3> HIDE DEF c
    <3>7. \A v \in Column(a, m) : v \in Column(c, m)
      BY <3>4 DEF Column
    <3>8. \A v \in Column(b, m) : v \in Column(c, m)
      BY <3>5 DEF Column
    <3>9. \A v \in Column(c, m) : v \in Column(a, m) \/ v \in Column(b, m)
      BY <3>6 DEF Column
    <3>10. Column(c, m) = Column(b, m) \cup Column(a, m)
      BY <3>7, <3>8, <3>9
    <3>. QED
      BY <3>10 DEF c
  <2>2. r[m].lo = Min(Column(a, m)) /\ r[m].hi = Max(Column(a, m))
    BY <1>1
  <2>3. Column(a, m) \in SUBSET Nat /\ Column(a, m) # {} /\ Column(b, m) \in SUBSET Nat
    BY ColumnBounded
  <2>4. PICK u \in Nat : \A v \in Column(a, m) : v <= u
    BY ColumnBounded
  <2>5. PICK w \in Nat : \A v \in Column(b, m) : v <= w
    BY ColumnBounded
  <2>6. /\ Min(Column(b, m) \cup {Min(Column(a, m)), Max(Column(a, m))})
             = Min(Column(b, m) \cup Column(a, m))
        /\ Max(Column(b, m) \cup {Min(Column(a, m)), Max(Column(a, m))})
             = Max(Column(b, m) \cup Column(a, m))
    BY <2>3, <2>4, <2>5, ExtremesOfUnion
  <2>. QED
    BY <2>1, <2>2, <2>6
<1>7. Widened(r, b) = Widened(<<>>, a \o b)
  BY <1>3, <1>5, <1>6
<1>. QED
  BY <1>7 DEF r

----------------------------------------------------------------------------
(* Scores *)

LEMMA RelativeType ==
    ASSUME NEW v \in Nat, NEW r \in [lo : Nat, hi : Nat], r.lo <= r.hi
    PROVE  Relative(v, r) \in Nat
<1>1. ScoreUnit \in Nat \ {0}
  BY MorboAssumption
<1>2. CASE r.hi = r.lo
  BY <1>1, <1>2 DEF Relative
<1>3. CASE r.hi # r.lo
  <2> DEFINE q == (ScoreUnit * (v - r.lo)) \div (r.hi - r.lo)
  <2>1. r.hi - r.lo \in Nat \ {0} /\ ScoreUnit * (v - r.lo) \in Int
    BY <1>1, <1>3
  <2>2. q \in Int
    BY <2>1
  <2>3. Relative(v, r) = Min({ScoreUnit, Max({0, q})})
    BY <1>3 DEF Relative
  <2> HIDE DEF q
  <2>4. Max({0, q}) \in Nat
    BY <2>2, MaxOfTwo
  <2>5. Min({ScoreUnit, Max({0, q})}) \in Nat
    BY <1>1, <2>4, MinOfTwo
  <2>. QED
    BY <2>3, <2>5
<1>. QED
  BY <1>2, <1>3

LEMMA ScoreType ==
    ASSUME NEW y \in Points, NEW r \in Ranges, NEW w \in Weights
    PROVE  Score(y, r, w) \in Nat
<1> DEFINE t == [m \in Metrics |-> w[m] * Relative(y[m], r[m])]
<1>1. \A m \in Metrics : t[m] \in Nat
  <2> TAKE m \in Metrics
  <2>1. y[m] \in Nat /\ w[m] \in Nat
    BY MorboAssumption
  <2>2. r[m] \in [lo : Nat, hi : Nat] /\ r[m].lo <= r[m].hi
    BY DEF Ranges
  <2>3. Relative(y[m], r[m]) \in Nat
    BY <2>1, <2>2, RelativeType
  <2> DEFINE a == w[m]
             c == Relative(y[m], r[m])
  <2>4. a \in Nat /\ c \in Nat
    BY <2>1, <2>3
  <2>5. t[m] = a * c
    OBVIOUS
  <2> HIDE DEF a, c, t
  <2>. QED
    BY <2>4, <2>5
<1>2. Score(y, r, w) = AlphaInverse * Min({t[m] : m \in Metrics}) + t[1] + t[2]
  BY DEF Score
<1> HIDE DEF t
<1>3. t[1] \in Nat /\ t[2] \in Nat
  BY <1>1 DEF Metrics
<1>4. {t[m] : m \in Metrics} \in SUBSET Nat /\ {t[m] : m \in Metrics} # {}
  BY <1>1 DEF Metrics
<1>5. Min({t[m] : m \in Metrics}) \in Nat
  BY <1>4, MinIsLeast
<1>6. AlphaInverse \in Nat
  BY MorboAssumption
<1> DEFINE a == Min({t[m] : m \in Metrics})
           c == AlphaInverse
<1>7. a \in Nat /\ c \in Nat
  BY <1>5, <1>6
<1> HIDE DEF a, c
<1>8. c * a \in Nat
  BY <1>7
<1>9. c * a + t[1] + t[2] \in Nat
  BY <1>3, <1>8
<1>. QED
  BY <1>2, <1>9 DEF a, c

----------------------------------------------------------------------------
(* The region *)

\* Rows that are new to the region move its watermark to them and its best
\* value to the greater of itself and the score; other calls change nothing.
LEMMA ScalarUpdatedRegion ==
    ASSUME NEW r \in MorboRegions, NEW n \in Nat, NEW score \in Nat
    PROVE  LET s == ScalarUpdated(r, n, score)
           IN  /\ s \in MorboRegions
               /\ n \in {0, r.prev} => s = r
               /\ n \notin {0, r.prev} => /\ s.prev = n
                                          /\ s.best = IF r.best > score THEN r.best ELSE score
<1> DEFINE s == ScalarUpdated(r, n, score)
<1>1. NoBest \notin Nat /\ NoBest < score
  BY DEF NoBest
<1>2. CASE n \in {0, r.prev}
  BY <1>2 DEF ScalarUpdated
<1>3. CASE n \notin {0, r.prev} /\ r.best = NoBest
  <2>1. s = [r EXCEPT !.best = score, !.prev = n]
    BY <1>3 DEF ScalarUpdated
  <2> HIDE DEF s
  <2>2. s \in MorboRegions /\ s.prev = n /\ s.best = score
    BY <2>1 DEF MorboRegions
  <2>3. ~(r.best > score)
    BY <1>1, <1>3 DEF NoBest
  <2>. QED
    BY <1>3, <2>2, <2>3 DEF s
<1>4. CASE n \notin {0, r.prev} /\ r.best # NoBest
  <2> DEFINE improved == score > r.best
             succ     == IF improved THEN r.succ + 1 ELSE 0
             fail     == IF improved THEN 0 ELSE r.fail + 1
             expands  == succ >= SuccessTolerance
             shrinks  == ~expands /\ fail >= r.tolerance
             length   == IF expands THEN Min({2 * r.length, LengthMax})
                         ELSE IF shrinks THEN r.length \div 2 ELSE r.length
             succ2    == IF expands THEN 0 ELSE succ
             fail2    == IF shrinks THEN 0 ELSE fail
             best     == Max({r.best, score})
  <2>1. s = [r EXCEPT !.length = length, !.succ = succ2, !.fail = fail2,
                      !.best = best, !.prev = n]
    BY <1>4 DEF ScalarUpdated
  <2>2. r.length \in Nat /\ r.succ \in Nat /\ r.fail \in Nat /\ r.best \in Nat
        /\ r.tolerance \in Nat
    BY <1>4 DEF MorboRegions
  <2>3. succ2 \in Nat /\ fail2 \in Nat
    BY <2>2
  <2>4. LengthMax \in Nat
    BY LengthAssumption
  <2>5. Min({2 * r.length, LengthMax}) \in Nat /\ r.length \div 2 \in Nat
    BY <2>2, <2>4, MinOfTwo
  <2>6. length \in Nat
    BY <2>2, <2>5
  <2>7. best = IF r.best > score THEN r.best ELSE score
    BY <2>2, MaxOfTwo
  <2>8. best \in Nat
    BY <2>2, <2>7
  <2> HIDE DEF s, length, succ2, fail2, best
  <2>9. s \in MorboRegions /\ s.prev = n /\ s.best = best
    BY <2>1, <2>3, <2>6, <2>8 DEF MorboRegions
  <2>. QED
    BY <1>4, <2>7, <2>9 DEF s
<1>. QED
  BY <1>2, <1>3, <1>4

\* What a tell makes of a row that its center is on: the best value is the
\* score of the row behind it, and at least that of the center.
LEMMA IncumbentToldRegion ==
    ASSUME MorboTypeInv, RegionBehind, NEW y \in Points, NEW r \in Ranges, NEW n \in Nat,
           n > Len(rows)
    PROVE  LET told == IncumbentTold(y, r, weights, n)
           IN  /\ told.region \in MorboRegions
               /\ told.region.prev = n
               /\ told.raw \in Points
               /\ told.region.best = Score(told.raw, r, weights)
               /\ told.region.best >= Score(y, r, weights)
<1> DEFINE told == IncumbentTold(y, r, weights, n)
           new == Score(y, r, weights)
<1>1. new \in Nat
  BY ScoreType DEF MorboTypeInv
<1>2. Len(rows) \in Nat /\ region.prev \in Nat /\ region.prev <= Len(rows)
  BY DEF MorboTypeInv, RegionBehind, MorboRegions
<1>3. n \notin {0, region.prev}
  BY <1>2
<1>4. CASE raw = <<>>
  <2> DEFINE s == ScalarUpdated(region, n, new)
  <2>1. told = [region |-> s, raw |-> y]
    BY <1>4 DEF IncumbentTold
  <2>2. region \in MorboRegions /\ region.best = NoBest
    BY <1>4 DEF MorboTypeInv, RegionBehind
  <2>3. s \in MorboRegions /\ s.prev = n
        /\ s.best = IF region.best > new THEN region.best ELSE new
    BY <1>1, <1>3, <2>2, ScalarUpdatedRegion
  <2>4. ~(region.best > new)
    BY <1>1, <2>2 DEF NoBest
  <2>5. s.best = new /\ new >= new
    BY <1>1, <2>3, <2>4
  <2>. QED
    BY <2>1, <2>3, <2>5
<1>5. CASE raw # <<>>
  <2> DEFINE old == Score(raw, r, weights)
             g   == [region EXCEPT !.best = old]
             s   == ScalarUpdated(g, n, new)
  <2>1. told = [region |-> s, raw |-> IF new > old THEN y ELSE raw]
    BY <1>5 DEF IncumbentTold
  <2>2. raw \in Points
    BY <1>5 DEF MorboTypeInv
  <2>3. old \in Nat
    BY <2>2, ScoreType DEF MorboTypeInv
  <2> HIDE DEF old, new
  <2>4. g \in MorboRegions /\ g.best = old /\ g.prev = region.prev
    BY <2>3 DEF MorboTypeInv, MorboRegions
  <2> HIDE DEF g
  <2>5. s \in MorboRegions /\ s.prev = n
        /\ s.best = IF g.best > new THEN g.best ELSE new
    BY <1>1, <1>3, <2>4, ScalarUpdatedRegion
  <2> HIDE DEF s
  <2>6. s.best >= new
    BY <1>1, <2>3, <2>4, <2>5
  <2>7. CASE new > old
    <3>1. s.best = new
      BY <1>1, <2>3, <2>4, <2>5, <2>7
    <3>. QED
      BY <2>1, <2>5, <2>6, <2>7, <3>1 DEF new
  <2>8. CASE ~(new > old)
    <3>1. s.best = old
      BY <1>1, <2>3, <2>4, <2>5, <2>8
    <3>. QED
      BY <2>1, <2>2, <2>5, <2>6, <2>8, <3>1 DEF old, new
  <2>. QED
    BY <2>7, <2>8
<1>. QED
  BY <1>4, <1>5

----------------------------------------------------------------------------
(* The invariant *)

LEMMA MorboInitOK ==
    ASSUME MorboInit PROVE MorboInv
<1>1. rows = <<>> /\ rows \in Seq(Points) /\ Len(rows) = 0
  BY DEF MorboInit
<1>2. FreshRegion \in MorboRegions /\ FreshRegion.prev = 0 /\ FreshRegion.best = NoBest
  BY LengthAssumption DEF FreshRegion, MorboRegions
<1>3. MorboTypeInv /\ RegionBehind
  BY <1>1, <1>2 DEF MorboInit, MorboTypeInv, RegionBehind
<1>. QED
  BY <1>1, <1>3 DEF MorboInit, MorboInv, RangesInv, BestIsCentersScore

\* The rows after a batch, and their ranges.
LEMMA RowsStored ==
    ASSUME MorboInv, NEW b \in MorboBatches, MorboStore(b)
    PROVE  /\ rows' \in Seq(Points) /\ rows' # <<>>
           /\ Len(rows') > Len(rows)
           /\ Widened(ranges, b) \in Ranges
           /\ ~missed => Widened(ranges, b) = Widened(<<>>, rows')
<1>1. b \in Seq(Points) /\ b # <<>> /\ rows \in Seq(Points) /\ rows' = rows \o b
  BY MorboAssumption DEF MorboInv, MorboTypeInv, MorboStore
<1>2. /\ rows \o b \in Seq(Points) /\ rows \o b # <<>>
      /\ Len(rows \o b) > Len(rows)
  BY <1>1
<1>3. Widened(ranges, b) \in Ranges
  BY <1>1, WidenedType DEF MorboInv, MorboTypeInv
<1>4. ASSUME ~missed PROVE Widened(ranges, b) = Widened(<<>>, rows \o b)
  <2>1. CASE rows = <<>>
    <3>1. ranges = <<>> /\ rows \o b = b
      BY <1>1, <1>4, <2>1 DEF MorboInv, RangesInv
    <3>. QED
      BY <3>1
  <2>2. CASE rows # <<>>
    <3>1. ranges = Widened(<<>>, rows)
      BY <1>4, <2>2 DEF MorboInv, RangesInv
    <3>. QED
      BY <1>1, <2>2, <3>1, WidenedAppend
  <2>. QED
    BY <2>1, <2>2
<1>. QED
  BY <1>1, <1>2, <1>3, <1>4

\* An ask moves neither rows nor ranges; what it makes of the best value is
\* left to the next tell.
LEMMA MorboAskKeeps ==
    ASSUME MorboInv, NEW arms \in Arms, MorboAsk(arms)
    PROVE  MorboInv'
<1> DEFINE g == [region EXCEPT !.tolerance = FailureTolerance(arms)]
<1>1. arms \in Nat \ {0}
  BY MorboAssumption
<1>2. FailureTolerance(arms) \in Nat
  BY <1>1, ToleranceType
<1>3. g \in MorboRegions /\ g.prev = region.prev /\ g.best = region.best
  BY <1>2 DEF MorboInv, MorboTypeInv, MorboRegions
<1>4. region' = Rescalarized(g, weights')
  BY DEF MorboAsk
<1> HIDE DEF g
<1>5. weights' \in Weights
  BY DEF MorboAsk, MorboInv, MorboTypeInv
<1>6. Len(rows) \in Nat /\ region.prev \in Nat /\ region.prev <= Len(rows)
  BY DEF MorboInv, MorboTypeInv, RegionBehind, MorboRegions
<1>7. region' \in MorboRegions /\ region'.prev <= Len(rows)
      /\ (raw = <<>> => region'.best = NoBest)
  <2>1. CASE raw = <<>> \/ ranges = <<>>
    <3>1. region' = g
      BY <1>4, <2>1 DEF Rescalarized
    <3>. QED
      BY <1>3, <1>6, <3>1 DEF MorboInv, RegionBehind
  <2>2. CASE ~(raw = <<>> \/ ranges = <<>>)
    <3> DEFINE score == Score(raw, ranges, weights')
               h     == [g EXCEPT !.best = score]
    <3>1. raw \in Points /\ ranges \in Ranges
      BY <2>2 DEF MorboInv, MorboTypeInv
    <3>2. score \in Nat
      BY <1>5, <3>1, ScoreType
    <3>3. region' = ScalarUpdated(h, Len(rows), score)
      BY <1>4, <2>2 DEF Rescalarized
    <3> HIDE DEF score
    <3>4. h \in MorboRegions /\ h.prev = region.prev
      BY <1>3, <3>2 DEF MorboRegions
    <3> HIDE DEF h
    <3>5. /\ region' \in MorboRegions
          /\ Len(rows) \in {0, h.prev} => region' = h
          /\ Len(rows) \notin {0, h.prev} => region'.prev = Len(rows)
      <4>1. Len(rows) \in Nat /\ score \in Nat /\ h \in MorboRegions
        BY ONLY <1>6, <3>2, <3>4
      <4> DEFINE n == Len(rows)
                 s == ScalarUpdated(h, n, score)
      <4> HIDE DEF n
      <4>2. n \in Nat
        BY <4>1 DEF n
      <4>3. /\ s \in MorboRegions
            /\ n \in {0, h.prev} => s = h
            /\ n \notin {0, h.prev} => s.prev = n
        BY ONLY <4>1, <4>2, ScalarUpdatedRegion
      <4>4. region' = s
        BY <3>3 DEF n
      <4> HIDE DEF s
      <4>. QED
        BY ONLY <4>3, <4>4 DEF n
    <3>6. region'.prev <= Len(rows)
      <4>1. CASE Len(rows) \in {0, h.prev}
        BY ONLY <1>6, <3>4, <3>5, <4>1
      <4>2. CASE Len(rows) \notin {0, h.prev}
        BY ONLY <1>6, <3>5, <4>2
      <4>. QED
        BY <4>1, <4>2
    <3>. QED
      BY <2>2, <3>5, <3>6
  <2>. QED
    BY <2>1, <2>2
<1>8. UNCHANGED <<rows, raw, ranges, missed>> /\ answer' = "ask"
  BY DEF MorboAsk
<1>. QED
  BY <1>5, <1>7, <1>8
     DEF MorboInv, MorboTypeInv, RegionBehind, RangesInv, BestIsCentersScore

\* Rows that a failing tell has stored are not in the ranges.
LEMMA MorboFitFailsKeeps ==
    ASSUME MorboInv, NEW b \in MorboBatches, MorboFitFails(b)
    PROVE  MorboInv'
<1>1. rows' \in Seq(Points) /\ Len(rows') > Len(rows)
  BY RowsStored DEF MorboFitFails
<1>2. UNCHANGED <<region, weights, ranges, raw>> /\ answer' = "err" /\ missed' = TRUE
  BY DEF MorboFitFails
<1>3. Len(rows) \in Nat /\ Len(rows') \in Nat /\ region.prev \in Nat /\ region.prev <= Len(rows)
  BY <1>1 DEF MorboInv, MorboTypeInv, RegionBehind, MorboRegions
<1>4. region.prev <= Len(rows')
  BY <1>1, <1>3
<1>. QED
  BY <1>1, <1>2, <1>4
     DEF MorboInv, MorboTypeInv, RegionBehind, RangesInv, BestIsCentersScore

\* After a tell that keeps its region: the row behind the best value is the
\* center's if the tracker still has it.
LEMMA ToldBest ==
    ASSUME MorboInv, NEW b \in MorboBatches, MorboStore(b), NEW i \in DOMAIN rows',
           Scored(b, i), top' = top, weights' = weights, ranges' = Widened(ranges, b),
           raw' = IncumbentTold(rows'[i], ranges', weights, Len(rows')).raw,
           region'.best = IncumbentTold(rows'[i], ranges', weights, Len(rows')).region.best
    PROVE  BestIsCentersScore'
<1> DEFINE told == IncumbentTold(rows'[i], ranges', weights, Len(rows'))
<1>1. rows' \in Seq(Points) /\ Len(rows') > Len(rows) /\ ranges' \in Ranges
  BY RowsStored
<1>2. rows'[i] \in Points /\ Len(rows') \in Nat
  BY <1>1
<1>3. /\ told.raw \in Points
      /\ told.region.best = Score(told.raw, ranges', weights)
      /\ told.region.best >= Score(rows'[i], ranges', weights)
  BY <1>1, <1>2, IncumbentToldRegion DEF MorboInv
<1> HIDE DEF told
<1>4. /\ region'.best = Score(raw', ranges', weights')
      /\ region'.best >= Score(rows'[center'], ranges', weights')
  BY <1>3 DEF told, Scored
<1>5. ASSUME NEW j \in Candidates(rows)', rows'[j] = raw'
      PROVE  region'.best = Score(rows'[center'], ranges', weights')
  <2>1. \A k \in Candidates(rows') :
          Score(rows'[k], ranges', weights') <= Score(rows'[center'], ranges', weights')
    BY DEF Scored, Centers
  <2>2. Candidates(rows)' = Candidates(rows')
    BY DEF Candidates, TopRows
  <2>3. region'.best <= Score(rows'[center'], ranges', weights')
    BY <1>4, <1>5, <2>1, <2>2
  <2>4. weights' \in Weights
    BY DEF MorboInv, MorboTypeInv
  <2>5. Score(raw', ranges', weights') \in Nat
    BY <1>1, <1>3, <2>4, ScoreType DEF told
  <2>6. Score(rows'[center'], ranges', weights') \in Nat
    BY <1>1, <1>2, <2>4, ScoreType DEF Scored
  <2> DEFINE p == region'.best
             q == Score(rows'[center'], ranges', weights')
  <2>7. p \in Nat /\ q \in Nat /\ p <= q /\ p >= q
    BY <1>4, <2>3, <2>5, <2>6
  <2> HIDE DEF p, q
  <2>8. p = q
    BY <2>7
  <2>. QED
    BY <2>8 DEF p, q
<1>. QED
  BY <1>4, <1>5 DEF BestIsCentersScore

\* What a tell leaves of rows, ranges and region: the region may have been
\* started afresh at the rows it has seen.
LEMMA ToldInv ==
    ASSUME MorboInv, NEW b \in MorboBatches, MorboStore(b), weights' \in Weights,
           region' \in MorboRegions, region'.prev = Len(rows'),
           \/ /\ ranges' = Widened(ranges, b) /\ missed' = missed
              /\ raw' \in Points
           \/ /\ ranges' = Widened(<<>>, rows') /\ missed' = FALSE
              /\ raw' = <<>> /\ region'.best = NoBest
    PROVE  MorboTypeInv' /\ RegionBehind' /\ RangesInv'
<1>1. /\ rows' \in Seq(Points) /\ rows' # <<>>
      /\ Widened(ranges, b) \in Ranges
      /\ ~missed => Widened(ranges, b) = Widened(<<>>, rows')
  BY RowsStored
<1>2. Widened(<<>>, rows') \in Ranges
  BY <1>1, FirstRanges
<1>3. MorboTypeInv'
  BY <1>1, <1>2 DEF MorboTypeInv
<1>4. Len(rows') \in Nat
  BY <1>1
<1>5. <<>> \notin Points
  <2>1. ASSUME NEW p \in Points PROVE p # <<>>
    <3>1. DOMAIN p = Metrics
      BY MorboAssumption
    <3>2. 1 \in Metrics /\ 1 \notin DOMAIN <<>>
      BY DEF Metrics
    <3>. QED
      BY <3>1, <3>2
  <2>. QED
    BY <2>1
<1>6. RegionBehind'
  BY <1>4, <1>5 DEF RegionBehind
<1>7. RangesInv'
  BY <1>1 DEF RangesInv
<1>. QED
  BY <1>3, <1>6, <1>7

LEMMA MorboTellInitKeeps ==
    ASSUME MorboInv, NEW b \in MorboBatches, MorboTellInit(b)
    PROVE  MorboInv'
<1>1. MorboStore(b) /\ ranges' = Widened(ranges, b)
      /\ UNCHANGED <<top, weights, missed>>
  BY DEF MorboTellInit
<1>2. PICK i \in DOMAIN rows' :
        /\ Scored(b, i)
        /\ region' = IncumbentTold(rows'[i], ranges', weights, Len(rows')).region
        /\ raw' = IncumbentTold(rows'[i], ranges', weights, Len(rows')).raw
  BY DEF MorboTellInit
<1>3. rows' \in Seq(Points) /\ Len(rows') > Len(rows) /\ ranges' \in Ranges
  BY <1>1, RowsStored
<1>4. rows'[i] \in Points /\ Len(rows') \in Nat
  BY <1>3
<1>5. region' \in MorboRegions /\ region'.prev = Len(rows') /\ raw' \in Points
  BY <1>2, <1>3, <1>4, IncumbentToldRegion DEF MorboInv
<1>6. weights' \in Weights
  BY <1>1 DEF MorboInv, MorboTypeInv
<1>7. MorboTypeInv' /\ RegionBehind' /\ RangesInv'
  BY <1>1, <1>5, <1>6, ToldInv
<1>8. BestIsCentersScore'
  BY <1>1, <1>2, ToldBest
<1>. QED
  BY <1>7, <1>8 DEF MorboInv

LEMMA MorboTellTurboKeeps ==
    ASSUME MorboInv, NEW b \in MorboBatches, MorboTellTurbo(b)
    PROVE  MorboInv'
<1>1. MorboStore(b) /\ top' = top
  BY DEF MorboTellTurbo
<1> DEFINE R == Widened(ranges, b)
           told(i) == IncumbentTold(rows'[i], R, weights, Len(rows'))
           next(i) == [told(i).region EXCEPT !.tolerance = FailureTolerance(Len(b))]
<1>2. PICK i \in DOMAIN rows' :
        /\ Scored(b, i)
        /\ IF next(i).length >= LengthMin
           THEN /\ region' = next(i)
                /\ raw' = told(i).raw
                /\ ranges' = R
                /\ UNCHANGED <<weights, missed>>
           ELSE /\ region' = [FreshRegion EXCEPT !.prev = next(i).prev,
                                                 !.tolerance = next(i).tolerance]
                /\ raw' = <<>>
                /\ ranges' = Widened(<<>>, rows')
                /\ weights' \in IF onPropose THEN {weights} ELSE Weights
                /\ missed' = FALSE
  BY DEF MorboTellTurbo, RangesSynced
<1>3. rows' \in Seq(Points) /\ Len(rows') > Len(rows) /\ R \in Ranges
  BY <1>1, RowsStored
<1>4. rows'[i] \in Points /\ Len(rows') \in Nat
  BY <1>3
<1>5. told(i).region \in MorboRegions /\ told(i).region.prev = Len(rows')
      /\ told(i).raw \in Points
  BY <1>3, <1>4, IncumbentToldRegion DEF MorboInv
<1>6. FailureTolerance(Len(b)) \in Nat
  <2>1. b \in Seq(Points) /\ b # <<>>
    BY MorboAssumption
  <2>2. Len(b) \in Nat \ {0}
    BY <2>1
  <2>. QED
    BY <2>2, ToleranceType
<1>7. next(i) \in MorboRegions /\ next(i).prev = Len(rows')
      /\ next(i).best = told(i).region.best
  <2> DEFINE g == told(i).region
             n == FailureTolerance(Len(b))
  <2>1. g \in MorboRegions /\ n \in Nat /\ g.prev = Len(rows')
    BY <1>5, <1>6
  <2> HIDE DEF g, n
  <2>2. [g EXCEPT !.tolerance = n] \in MorboRegions
        /\ [g EXCEPT !.tolerance = n].prev = Len(rows')
        /\ [g EXCEPT !.tolerance = n].best = g.best
    BY <2>1 DEF MorboRegions
  <2>. QED
    BY <2>2 DEF g, n
<1>8. weights \in Weights
  BY DEF MorboInv, MorboTypeInv
<1>9. CASE next(i).length >= LengthMin
  <2>1. /\ region' = next(i) /\ raw' = told(i).raw /\ ranges' = R
        /\ UNCHANGED <<weights, missed>>
    BY <1>2, <1>9
  <2>2. MorboTypeInv' /\ RegionBehind' /\ RangesInv'
    BY <1>1, <1>5, <1>7, <1>8, <2>1, ToldInv
  <2>3. BestIsCentersScore'
    BY <1>1, <1>2, <1>7, <2>1, ToldBest
  <2>. QED
    BY <2>2, <2>3 DEF MorboInv
<1>10. CASE ~(next(i).length >= LengthMin)
  <2>1. /\ region' = [FreshRegion EXCEPT !.prev = next(i).prev,
                                         !.tolerance = next(i).tolerance]
        /\ raw' = <<>> /\ ranges' = Widened(<<>>, rows') /\ missed' = FALSE
        /\ weights' \in Weights
    BY <1>2, <1>8, <1>10
  <2> HIDE DEF next, told
  <2>2. next(i).prev \in Nat /\ next(i).tolerance \in Nat
    BY <1>7 DEF MorboRegions
  <2>3. region' \in MorboRegions /\ region'.prev = Len(rows') /\ region'.best = NoBest
    BY <1>7, <2>1, <2>2, LengthAssumption DEF MorboRegions, FreshRegion
  <2>4. MorboTypeInv' /\ RegionBehind' /\ RangesInv'
    BY <1>1, <2>1, <2>3, ToldInv
  <2>5. BestIsCentersScore'
    BY <2>1 DEF BestIsCentersScore
  <2>. QED
    BY <2>4, <2>5 DEF MorboInv
<1>. QED
  BY <1>9, <1>10

LEMMA MorboStutters ==
    ASSUME MorboInv, UNCHANGED <<top, rows, region, weights, ranges, raw, center, missed>>,
           answer' \in {answer, "ask"}
    PROVE  MorboInv'
<1>1. MorboTypeInv' /\ RegionBehind' /\ RangesInv'
  BY DEF MorboInv, MorboTypeInv, RegionBehind, RangesInv
<1>2. BestIsCentersScore'
  <2>1. CASE answer' = "ask"
    BY <2>1 DEF BestIsCentersScore
  <2>2. CASE answer' = answer
    <3>1. Candidates(rows)' = Candidates(rows)
      BY DEF Candidates, TopRows
    <3>2. Score(rows[center], ranges, weights)' = Score(rows[center], ranges, weights)
      OBVIOUS
    <3>3. Score(raw, ranges, weights)' = Score(raw, ranges, weights)
      OBVIOUS
    <3>. QED
      BY <2>2, <3>1, <3>2, <3>3 DEF MorboInv, BestIsCentersScore
  <2>. QED
    BY <2>1, <2>2
<1>. QED
  BY <1>1, <1>2 DEF MorboInv

THEOREM MorboInvariance == MorboSpec => []MorboInv
<1>1. MorboInit => MorboInv
  BY MorboInitOK
<1>2. MorboInv /\ [MorboNext]_morboVars => MorboInv'
  <2> SUFFICES ASSUME MorboInv, [MorboNext]_morboVars PROVE MorboInv'
    OBVIOUS
  <2>1. CASE MorboAskInit
    BY <2>1, MorboStutters DEF MorboAskInit
  <2>2. ASSUME NEW arms \in Arms, MorboAsk(arms) PROVE MorboInv'
    BY <2>2, MorboAskKeeps
  <2>3. ASSUME NEW b \in MorboBatches, MorboFitFails(b) PROVE MorboInv'
    BY <2>3, MorboFitFailsKeeps
  <2>4. ASSUME NEW b \in MorboBatches, MorboTellInit(b) PROVE MorboInv'
    BY <2>4, MorboTellInitKeeps
  <2>5. ASSUME NEW b \in MorboBatches, MorboTellTurbo(b) PROVE MorboInv'
    BY <2>5, MorboTellTurboKeeps
  <2>6. CASE UNCHANGED morboVars
    BY <2>6, MorboStutters DEF morboVars
  <2>. QED
    BY <2>1, <2>2, <2>3, <2>4, <2>5, <2>6 DEF MorboNext
<1>. QED
  BY <1>1, <1>2, PTL DEF MorboSpec

\* The ranges that scores are relative to are those of all rows that were
\* told, kept up to date batch by batch or rebuilt by a restart
\* (update_ranges_incremental, morbo_sync_ranges_from_obs).
THEOREM RangesAreTheRows == MorboSpec => []RangesCoverRows
<1>1. MorboInv => RangesCoverRows
  BY DEF MorboInv, RangesInv, RangesCoverRows
<1>. QED
  BY <1>1, MorboInvariance, PTL

\* After a tell the best value is the score of the row behind it under the
\* weights and ranges of that moment, and the center's own unless the tracker
\* has dropped that row (update_incumbent_only).
THEOREM BestIsScoredNow == MorboSpec => []BestIsCentersScore
<1>1. MorboInv => BestIsCentersScore
  BY DEF MorboInv
<1>. QED
  BY <1>1, MorboInvariance, PTL

\* With MORBO's region or another one that it leaves alone, an optimizer
\* behaves as this model says: the theorems hold of every optimizer.
THEOREM OptimizerIsMorbo == OptimizerSpec => MorboSpec
<1>1. OptimizerInit => MorboInit
  BY DEF OptimizerInit
<1>2. [OptimizerNext]_optimizerVars => [MorboNext]_morboVars
  BY DEF OptimizerNext, optimizerVars
<1>. QED
  BY <1>1, <1>2, PTL DEF OptimizerSpec, MorboSpec

----------------------------------------------------------------------------
(* Several regions *)

CenterValues == {Middle} \cup {X(row) : row \in Row}
Bests   == {NeverImproved} \cup {Y(row) : row \in Row}

\* A region, centered on a row with its best value once it has one.
RegionStates ==
    {g \in [center : CenterValues, length : Nat, best : Bests,
            succ : 0..(SuccTolerance - 1), fail : 0..(FailTolerance - 1),
            active : BOOLEAN, trials : Nat] :
        g.best # NeverImproved => <<g.center, g.best>> \in Row}

\* Only a strategy that shares its regions asks.
SharedInv == strategy => policy = "shared"

\* The rows of the last ask, as long as it is unanswered and no other rows were
\* told, are pending with the regions that made them; otherwise no region is
\* waiting for rows.
PendingInv ==
    orderly => \/ pending = NoRegions /\ \A i \in DOMAIN issued : issued[i] = 0
               \/ pending = issued /\ pending # NoRegions

RegionsInv ==
    /\ RegionsTypeOK
    /\ regions \in [Regions -> RegionStates]
    /\ SharedInv
    /\ PendingInv
    /\ EveryRegionActive
    /\ CreditIsOwn

----------------------------------------------------------------------------
(* Operators *)

LEMMA RowParts ==
    ASSUME NEW row \in Row
    PROVE  /\ X(row) \in CenterValues /\ X(row) \in Nat
           /\ Y(row) \in Bests /\ Y(row) \in Nat /\ Y(row) # NeverImproved
           /\ row = <<X(row), Y(row)>>
<1>1. row \in Nat \X Nat
  BY RegionRowAssumption
<1>2. row[1] \in Nat /\ row[2] \in Nat /\ row = <<row[1], row[2]>>
  BY <1>1
<1>. QED
  BY <1>2 DEF X, Y, CenterValues, Bests, NeverImproved

LEMMA StartedType ==
    ASSUME NEW x \in CenterValues
    PROVE  StartedRegion(x) \in RegionStates
<1>1. SuccTolerance \in Nat \ {0} /\ FailTolerance \in Nat \ {0} /\ LengthInit \in Nat
  BY RegionAssumption, LengthAssumption
<1>2. 0 \in 0..(SuccTolerance - 1) /\ 0 \in 0..(FailTolerance - 1)
  BY <1>1
<1>. QED
  BY <1>1, <1>2 DEF StartedRegion, RegionStates, Bests

LEMMA MadeByType ==
    ASSUME NEW n \in Nat, NEW ids, DOMAIN ids = 1..n, NEW r
    PROVE  MadeBy(ids, r) \in Nat
<1> DEFINE S == {i \in DOMAIN ids : ids[i] = r}
<1>1. IsFiniteSet(1..n)
  BY FS_Interval
<1>2. S \subseteq 1..n
  OBVIOUS
<1>3. IsFiniteSet(S)
  BY <1>1, <1>2, FS_Subset
<1>4. Cardinality(S) \in Nat
  BY <1>3, FS_CardinalityType
<1>. QED
  BY <1>4 DEF MadeBy

\* Of some rows of a batch one is the first of the best.
LEMMA SomeBest ==
    ASSUME NEW b \in Seq(Row), NEW S \in SUBSET DOMAIN b, S # {}
    PROVE  \E k \in S : \A j \in S : Y(b[j]) < Y(b[k]) \/ (Y(b[j]) = Y(b[k]) /\ k <= j)
<1> DEFINE n == Len(b)
           f == [i \in 1..n |-> Y(b[i])]
           V == {Y(b[i]) : i \in S}
<1>1. n \in Nat /\ DOMAIN b = 1..n /\ \A i \in 1..n : b[i] \in Row
  OBVIOUS
<1> HIDE DEF n
<1>2. \A i \in 1..n : Y(b[i]) \in Nat
  BY <1>1, RowParts
<1>3. f \in [1..n -> Nat]
  BY <1>2
<1>4. PICK u \in Nat : \A i \in 1..n : f[i] <= u
  BY <1>1, <1>3, NumbersBounded
<1>5. \A i \in 1..n : Y(b[i]) <= u
  BY <1>4
<1>6. V \in SUBSET Nat /\ V # {} /\ \A v \in V : v <= u
  BY <1>1, <1>2, <1>5
<1>7. Max(V) \in V /\ \A v \in V : v <= Max(V)
  BY <1>6, MaxIsGreatest
<1> DEFINE highest == Max(V)
           T == {i \in S : Y(b[i]) = highest}
<1>8. highest \in V /\ \A v \in V : v <= highest
  BY <1>7
<1> HIDE DEF highest
<1>9. \A i \in S : Y(b[i]) <= highest
  BY <1>8
<1>10. T \in SUBSET Nat /\ T # {}
  BY <1>1, <1>8
<1>11. PICK i \in T : \A j \in T : i <= j
  BY <1>10, LeastNumber
<1>12. ASSUME NEW j \in S PROVE Y(b[j]) < Y(b[i]) \/ (Y(b[j]) = Y(b[i]) /\ i <= j)
  <2>1. Y(b[j]) \in Nat /\ Y(b[i]) \in Nat /\ Y(b[i]) = highest /\ Y(b[j]) <= highest
    BY <1>1, <1>2, <1>9, <1>11
  <2>2. CASE Y(b[j]) = highest
    BY <1>11, <2>1, <2>2
  <2>3. CASE Y(b[j]) # highest
    BY <2>1, <2>3
  <2>. QED
    BY <2>2, <2>3
<1>. QED
  BY <1>11, <1>12

LEMMA FirstBestIn ==
    ASSUME NEW b \in Seq(Row), NEW S \in SUBSET DOMAIN b, S # {}
    PROVE  FirstBest(b, S) \in S
<1>1. \E k \in S : \A j \in S : Y(b[j]) < Y(b[k]) \/ (Y(b[j]) = Y(b[k]) /\ k <= j)
  BY SomeBest
<1>. QED
  BY <1>1, Zenon DEF FirstBest

\* What a batch makes of a region is one again, with the rows it made.
LEMMA AfterBatchType ==
    ASSUME NEW rs \in [Regions -> RegionStates], NEW r \in Regions, NEW b \in Seq(Row),
           NEW ids, ids # NoRegions => \E n \in Nat : DOMAIN ids = 1..n
    PROVE  /\ AfterBatch(rs, r, b, ids) \in RegionStates
           /\ rs[r].active =>
                AfterBatch(rs, r, b, ids).trials = Recorded(rs[r], r, ids).trials
<1> DEFINE improving == Improving(rs, r, b, ids)
           g == Recorded(rs[r], r, ids)
           after == AfterBatch(rs, r, b, ids)
<1>1. rs[r] \in RegionStates
  OBVIOUS
<1>2. g \in RegionStates /\ g.active = rs[r].active
  <2>1. CASE ids = NoRegions
    BY <1>1, <2>1 DEF Recorded
  <2>2. CASE ids # NoRegions
    <3>1. MadeBy(ids, r) \in Nat
      BY <2>2, MadeByType
    <3> DEFINE t == rs[r].trials + MadeBy(ids, r)
    <3>2. t \in Nat
      BY <1>1, <3>1 DEF RegionStates
    <3>3. g = [rs[r] EXCEPT !.trials = t]
      BY <2>2 DEF Recorded
    <3> HIDE DEF t, g
    <3>. QED
      BY <1>1, <3>2, <3>3 DEF RegionStates
  <2>. QED
    BY <2>1, <2>2
<1>3. after = IF ~g.active THEN rs[r]
              ELSE IF improving = {} THEN Failed(g)
              ELSE Succeeded(Moved(g, b[FirstBest(b, improving)]))
  BY DEF AfterBatch
<1>4. SuccTolerance \in Nat \ {0} /\ FailTolerance \in Nat \ {0}
      /\ LengthMin \in Nat /\ LengthMax \in Nat
  BY RegionAssumption, LengthAssumption
<1>5. improving \in SUBSET DOMAIN b
  BY DEF Improving
<1> HIDE DEF g, after, improving
<1>6. ASSUME NEW h \in RegionStates
      PROVE  /\ Failed(h) \in RegionStates /\ Failed(h).trials = h.trials
             /\ Succeeded(h) \in RegionStates /\ Succeeded(h).trials = h.trials
  <2>1. h.length \in Nat /\ h.succ \in 0..(SuccTolerance - 1)
        /\ h.fail \in 0..(FailTolerance - 1) /\ h.active \in BOOLEAN
    BY DEF RegionStates
  <2>2. h.length \div 2 \in Nat
    BY <2>1
  <2>3. Min({2 * h.length, LengthMax}) \in Nat
    BY <1>4, <2>1, MinOfTwo
  <2>4. 0 \in 0..(SuccTolerance - 1) /\ 0 \in 0..(FailTolerance - 1)
    BY <1>4
  <2>5. Failed(h) \in RegionStates /\ Failed(h).trials = h.trials
    <3>1. CASE h.fail + 1 >= FailTolerance
      <4> DEFINE l == h.length \div 2
                 a == (l >= LengthMin)
      <4>1. Failed(h) = [h EXCEPT !.length = l, !.succ = 0, !.fail = 0, !.active = a]
        BY <3>1 DEF Failed
      <4>2. l \in Nat /\ a \in BOOLEAN
        BY <2>2
      <4> HIDE DEF l, a
      <4>. QED
        BY <2>4, <4>1, <4>2 DEF RegionStates
    <3>2. CASE ~(h.fail + 1 >= FailTolerance)
      <4>1. Failed(h) = [h EXCEPT !.succ = 0, !.fail = h.fail + 1]
        BY <3>2 DEF Failed
      <4>2. h.fail + 1 \in 0..(FailTolerance - 1)
        BY <1>4, <2>1, <3>2
      <4>. QED
        BY <2>4, <4>1, <4>2 DEF RegionStates
    <3>. QED
      BY <3>1, <3>2
  <2>6. Succeeded(h) \in RegionStates /\ Succeeded(h).trials = h.trials
    <3>1. CASE h.succ + 1 >= SuccTolerance
      <4> DEFINE l == Min({2 * h.length, LengthMax})
      <4>1. Succeeded(h) = [h EXCEPT !.length = l, !.succ = 0, !.fail = 0]
        BY <3>1 DEF Succeeded
      <4>2. l \in Nat
        BY <2>3
      <4> HIDE DEF l
      <4>. QED
        BY <2>4, <4>1, <4>2 DEF RegionStates
    <3>2. CASE ~(h.succ + 1 >= SuccTolerance)
      <4>1. Succeeded(h) = [h EXCEPT !.succ = h.succ + 1, !.fail = 0]
        BY <3>2 DEF Succeeded
      <4>2. h.succ + 1 \in 0..(SuccTolerance - 1)
        BY <1>4, <2>1, <3>2
      <4>. QED
        BY <2>4, <4>1, <4>2 DEF RegionStates
    <3>. QED
      BY <3>1, <3>2
  <2>. QED
    BY <2>5, <2>6
<1>7. CASE ~g.active
  BY <1>1, <1>2, <1>3, <1>7 DEF after
<1>8. CASE g.active /\ improving = {}
  BY <1>2, <1>3, <1>6, <1>8 DEF g, after
<1>9. CASE g.active /\ improving # {}
  <2> DEFINE row == b[FirstBest(b, improving)]
             h == Moved(g, row)
  <2>1. FirstBest(b, improving) \in DOMAIN b
    BY <1>5, <1>9, FirstBestIn
  <2>2. row \in Row
    BY <2>1
  <2> HIDE DEF row
  <2>3. X(row) \in CenterValues /\ Y(row) \in Bests /\ <<X(row), Y(row)>> \in Row
    <3>1. row = <<X(row), Y(row)>>
      BY <2>2, RowParts
    <3>. QED
      BY <2>2, <3>1, RowParts
  <2>4. h \in RegionStates /\ h.trials = g.trials
    BY <1>2, <2>3 DEF Moved, RegionStates
  <2>5. after = Succeeded(h)
    BY <1>3, <1>9 DEF row
  <2> HIDE DEF h
  <2>6. after \in RegionStates /\ after.trials = g.trials
    BY <1>6, <2>4, <2>5
  <2>. QED
    BY <2>6 DEF g, after
<1>. QED
  BY <1>7, <1>8, <1>9

\* A tell: the regions stay regions, and each that was in use has the rows it
\* made.
LEMMA ToldType ==
    ASSUME regions \in [Regions -> RegionStates], NEW b \in Seq(Row),
           NEW ids, ids # NoRegions => \E n \in Nat : DOMAIN ids = 1..n
    PROVE  /\ ToldRegions(b, ids) \in [Regions -> RegionStates]
           /\ \A r \in Regions : regions[r].active =>
                ToldRegions(b, ids)[r].trials = Recorded(regions[r], r, ids).trials
<1> DEFINE n == NumRegions
           T == [Regions -> RegionStates]
           step(k, rs) == [rs EXCEPT ![k] = AfterBatch(rs, k, b, ids)]
           g == [k \in 1..n |-> [rs \in T |-> step(k, rs)]]
           told == ToldUpTo(b, ids)
<1>1. n \in Nat /\ Regions = 1..n
  BY RegionAssumption DEF Regions
<1>2. \A k \in 1..n : \A rs \in T : step(k, rs) \in T
  BY <1>1, AfterBatchType
<1>3. g \in [1..n -> [T -> T]]
  BY <1>2
<1>4. \A k \in 1..n : \A rs \in T : g[k][rs] = step(k, rs)
  OBVIOUS
<1> HIDE DEF g
<1>5. PICK f : f \in [0..n -> T] /\ f[0] = regions /\ \A k \in 1..n : f[k] = g[k][f[k - 1]]
  <2>1. n \in Nat /\ regions \in T /\ g \in [1..n -> [T -> T]]
    BY <1>1, <1>3
  <2> HIDE DEF n, T
  <2>. QED
    <3>1. \E f : Iterates(f, n, T, regions, g)
      BY <2>1, Iterated
    <3>. QED
      BY <3>1, Zenon DEF Iterates
<1>6. \A k \in 0..n : f[k] = IF k = 0 THEN regions ELSE step(k, f[k - 1])
  <2> TAKE k \in 0..n
  <2>1. CASE k = 0
    BY <1>5, <2>1
  <2>2. CASE k # 0
    <3>1. k \in 1..n /\ k - 1 \in 0..n
      BY <1>1, <2>2
    <3>2. f[k] = g[k][f[k - 1]] /\ f[k - 1] \in T
      BY <1>5, <3>1
    <3>3. f[k] = step(k, f[k - 1])
      BY <1>4, <3>1, <3>2
    <3>. QED
      BY <2>2, <3>3
  <2>. QED
    BY <2>1, <2>2
<1>7. f = [k \in 0..n |-> IF k = 0 THEN regions ELSE step(k, f[k - 1])]
  BY <1>5, <1>6
<1>8. told = CHOOSE h : h = [k \in 0..n |-> IF k = 0 THEN regions ELSE step(k, h[k - 1])]
  BY DEF ToldUpTo
<1>9. told = [k \in 0..n |-> IF k = 0 THEN regions ELSE step(k, told[k - 1])]
  BY <1>7, <1>8
<1> HIDE DEF told
<1>10. told[0] = regions /\ \A k \in 1..n : told[k] = step(k, told[k - 1])
  <2>1. 0 \in 0..n /\ \A k \in 1..n : k \in 0..n /\ k # 0
    BY <1>1
  <2> HIDE DEF step
  <2>. QED
    BY <1>9, <2>1
<1> DEFINE Upto(k, rs) ==
             /\ rs \in T
             /\ \A r \in Regions : r > k => rs[r] = regions[r]
             /\ \A r \in Regions : r <= k /\ regions[r].active =>
                  rs[r].trials = Recorded(regions[r], r, ids).trials
           S == {k \in 0..n : Upto(k, told[k])}
<1>11. 0 \in S
  <2>1. \A r \in Regions : ~(r <= 0)
    BY <1>1
  <2>2. regions \in T
    OBVIOUS
  <2>3. Upto(0, told[0])
    BY <1>10, <2>1, <2>2
  <2>. QED
    BY <1>1, <2>3
<1>12. ASSUME NEW k \in 0..(n - 1), k \in S PROVE k + 1 \in S
  <2> DEFINE m == k + 1
             old == told[k]
             after == AfterBatch(old, m, b, ids)
  <2>1. m \in 1..n /\ m \in Regions /\ m - 1 = k /\ m > k
    BY <1>1
  <2>2. Upto(k, old)
    BY <1>12
  <2>3. old[m] = regions[m]
    BY <2>1, <2>2
  <2>4. after \in RegionStates
        /\ (regions[m].active => after.trials = Recorded(regions[m], m, ids).trials)
    BY <2>1, <2>2, <2>3, AfterBatchType
  <2>5. told[m] = [old EXCEPT ![m] = after]
    BY <1>10, <2>1
  <2> HIDE DEF after
  <2> DEFINE new == told[m]
  <2>6. new \in T /\ new[m] = after /\ \A r \in Regions : r # m => new[r] = old[r]
    BY <2>1, <2>2, <2>4, <2>5
  <2> HIDE DEF new, old
  <2>7. ASSUME NEW r \in Regions, r > m PROVE new[r] = regions[r]
    <3>1. r > k /\ r # m
      BY <1>1, <2>1, <2>7
    <3>. QED
      BY <2>2, <2>6, <3>1
  <2>8. ASSUME NEW r \in Regions, r <= m, regions[r].active
        PROVE  new[r].trials = Recorded(regions[r], r, ids).trials
    <3>1. CASE r = m
      BY <2>4, <2>6, <2>8, <3>1
    <3>2. CASE r # m
      <4>1. r <= k
        BY <1>1, <2>1, <2>8, <3>2
      <4>. QED
        BY <2>2, <2>6, <2>8, <3>2, <4>1
    <3>. QED
      BY <3>1, <3>2
  <2>9. Upto(m, new)
    BY <2>6, <2>7, <2>8
  <2>10. m \in 0..n
    BY <2>1
  <2>. QED
    BY <2>9, <2>10 DEF new
<1>13. \A k \in 0..(n - 1) : k \in S => k + 1 \in S
  BY <1>12
<1> HIDE DEF S
<1>14. \A k \in 0..n : k \in S
  BY <1>1, <1>11, <1>13, UpTo
<1>15. n \in S
  BY <1>1, <1>14
<1>16. Upto(n, told[n])
  BY <1>15 DEF S
<1>17. \A r \in Regions : r <= n
  BY <1>1
<1>. QED
  BY <1>16, <1>17 DEF ToldRegions, told

LEMMA NewIncumbentType ==
    ASSUME NEW b \in Seq(Row), b # <<>>, incumbent \in {<<>>} \cup Row
    PROVE  NewIncumbent(b) \in Row
<1> DEFINE seen == IF incumbent = <<>> THEN b ELSE <<incumbent>> \o b
           T == {i \in DOMAIN seen : \A j \in DOMAIN seen : Y(seen[j]) <= Y(seen[i])}
<1>1. seen \in Seq(Row) /\ seen # <<>>
  OBVIOUS
<1>2. NewIncumbent(b) = seen[Max(T)]
  BY DEF NewIncumbent
<1> HIDE DEF seen
<1> DEFINE D == DOMAIN seen
<1>3. Len(seen) \in Nat /\ D = 1..Len(seen) /\ D # {} /\ \A i \in D : Y(seen[i]) \in Nat
  <2>1. Len(seen) \in Nat /\ D = 1..Len(seen) /\ D # {}
    <3>1. Len(seen) \in Nat /\ Len(seen) # 0 /\ D = 1..Len(seen)
      BY <1>1
    <3>2. 1 \in 1..Len(seen)
      BY <3>1
    <3> HIDE DEF D
    <3>. QED
      BY <3>1, <3>2
  <2>2. \A i \in D : seen[i] \in Row
    BY <1>1, <2>1
  <2> HIDE DEF D
  <2>3. \A i \in D : Y(seen[i]) \in Nat
    BY <2>2, RowParts
  <2>. QED
    BY <2>1, <2>3
<1>4. PICK k \in D : \A j \in D : Y(seen[j]) < Y(seen[k]) \/ (Y(seen[j]) = Y(seen[k]) /\ k <= j)
  <2>1. D \in SUBSET DOMAIN seen
    OBVIOUS
  <2> HIDE DEF D
  <2>. QED
    BY <1>1, <1>3, <2>1, SomeBest
<1>5. \A j \in D : Y(seen[j]) <= Y(seen[k])
  BY <1>3, <1>4
<1>6. T \in SUBSET Nat /\ T # {} /\ T \subseteq D /\ \A i \in T : i <= Len(seen)
  BY <1>3, <1>5
<1> HIDE DEF T
<1>7. Max(T) \in T
  BY <1>3, <1>6, MaxIsGreatest
<1>8. Max(T) \in D
  BY <1>6, <1>7
<1>. QED
  BY <1>1, <1>2, <1>3, <1>8

----------------------------------------------------------------------------
(* The invariant *)

\* The type of the variables, given that of the regions.
LEMMA StatesHaveTypes ==
    RegionStates \subseteq
        [center : {Middle} \cup {X(row) : row \in Row}, length : Nat,
         best : {NeverImproved} \cup {Y(row) : row \in Row},
         succ : 0..(SuccTolerance - 1), fail : 0..(FailTolerance - 1),
         active : BOOLEAN, trials : Nat]
BY DEF RegionStates, CenterValues, Bests

LEMMA RegionsInitOK ==
    ASSUME RegionsInit PROVE RegionsInv
<1>1. \A row \in Row : /\ StartedRegion(X(row)) \in RegionStates
                       /\ StartedRegion(X(row)).active
                       /\ StartedRegion(X(row)).trials = 0
  BY RowParts, StartedType DEF StartedRegion
<1>2. /\ regions \in [Regions -> RegionStates]
      /\ \A r \in Regions : regions[r].active /\ regions[r].trials = 0
  BY <1>1 DEF RegionsInit
<1>3. NumInit \in Nat /\ 0 \in 0..NumInit
  BY DesignAssumption
<1>4. RegionsTypeOK
  <2>1. policy \in Policies /\ {strategy, exploring, orderly} \subseteq BOOLEAN
    BY DEF RegionsInit
  <2>2. explored \in 0..NumInit
    BY <1>3 DEF RegionsInit
  <2>3. made \in [Regions -> Nat]
    BY DEF RegionsInit
  <2>4. issued \in Seq({0} \cup Regions)
    BY DEF RegionsInit
  <2>. QED
    BY <1>2, <2>1, <2>2, <2>3, <2>4, StatesHaveTypes DEF RegionsInit, RegionsTypeOK
<1>5. SharedInv
  BY DEF RegionsInit, SharedInv
<1>6. PendingInv /\ EveryRegionActive /\ CreditIsOwn
  BY <1>2 DEF RegionsInit, PendingInv, EveryRegionActive, CreditIsOwn
<1>. QED
  BY <1>2, <1>4, <1>5, <1>6 DEF RegionsInv

\* Calls of a caller of its own move the regions only.
LEMMA DirectKeeps ==
    ASSUME RegionsInv, ~strategy, regions' \in [Regions -> RegionStates],
           outcome' \in {"none", "ok", "refused", "err"},
           UNCHANGED <<policy, strategy, strategyVars, regionsGhosts>>
    PROVE  RegionsInv'
<1>1. RegionsTypeOK'
  BY StatesHaveTypes DEF RegionsInv, RegionsTypeOK, strategyVars, regionsGhosts
<1>2. SharedInv' /\ PendingInv'
  BY DEF RegionsInv, SharedInv, PendingInv, strategyVars, regionsGhosts
<1>3. EveryRegionActive' /\ CreditIsOwn'
  BY DEF EveryRegionActive, CreditIsOwn
<1>. QED
  BY <1>1, <1>2, <1>3 DEF RegionsInv

LEMMA TellDirectKeeps ==
    ASSUME RegionsInv, NEW b \in RegionBatches,
           NEW ids \in {NoRegions} \cup [1..Len(b) -> Regions], TellDirect(b, ids)
    PROVE  RegionsInv'
<1>1. b \in Seq(Row)
  BY RegionRowAssumption
<1>2. regions \in [Regions -> RegionStates]
  BY DEF RegionsInv
<1>3. ids # NoRegions => \E n \in Nat : DOMAIN ids = 1..n
  BY <1>1
<1>4. ToldRegions(b, ids) \in [Regions -> RegionStates]
  BY <1>1, <1>2, <1>3, ToldType
<1>5. regions' \in [Regions -> RegionStates] /\ outcome' \in {"none", "ok", "refused", "err"}
  BY <1>2, <1>4 DEF TellDirect
<1>. QED
  BY <1>5, DirectKeeps DEF TellDirect

LEMMA RestartRegionKeeps ==
    ASSUME RegionsInv, NEW r \in Regions, NEW row \in Row, RestartRegion(r, X(row))
    PROVE  RegionsInv'
<1>1. StartedRegion(X(row)) \in RegionStates
  BY RowParts, StartedType
<1>2. regions' \in [Regions -> RegionStates]
  BY <1>1 DEF RestartRegion, RegionsInv
<1>3. outcome' \in {"none", "ok", "refused", "err"}
  BY DEF RestartRegion, RegionsInv, RegionsTypeOK
<1>. QED
  BY <1>2, <1>3, DirectKeeps DEF RestartRegion

LEMMA AskInitKeeps ==
    ASSUME RegionsInv, NEW n \in 1..MaxArms, AskInit(n)
    PROVE  RegionsInv'
<1>1. n \in Nat
  BY RegionAssumption
<1>2. issued' \in Seq({0} \cup Regions) /\ \A i \in DOMAIN issued' : issued'[i] = 0
  BY <1>1 DEF AskInit
<1>3. UNCHANGED <<policy, regions, strategy, exploring, explored, incumbent, outcome, made,
                  orderly>> /\ pending' = NoRegions
  BY DEF AskInit
<1>4. RegionsTypeOK'
  BY <1>2, <1>3 DEF RegionsInv, RegionsTypeOK
<1>5. SharedInv' /\ PendingInv' /\ EveryRegionActive' /\ CreditIsOwn'
  BY <1>2, <1>3 DEF RegionsInv, SharedInv, PendingInv, EveryRegionActive, CreditIsOwn
<1>. QED
  BY <1>3, <1>4, <1>5 DEF RegionsInv

LEMMA AskKeeps ==
    ASSUME RegionsInv, NEW n \in 1..MaxArms, Ask(n)
    PROVE  RegionsInv'
<1>1. n \in Nat \ {0}
  BY RegionAssumption
<1>2. regions' = regions
  <2>1. 1 \in Regions
    BY RegionAssumption DEF Regions
  <2>2. regions[1].active
    BY <2>1 DEF RegionsInv, EveryRegionActive, Ask
  <2>. QED
    BY <2>1, <2>2 DEF Ask
<1>3. PICK ids \in Allocations(regions', n) : pending' = ids /\ issued' = ids
  BY DEF Ask
<1>4. ids \in [1..n -> Regions]
  BY <1>3 DEF Allocations
<1>5. ids \in Seq(Regions) /\ ids # <<>> /\ ids \in Seq({0} \cup Regions)
  BY <1>1, <1>4
<1>6. ids # NoRegions
  <2>1. Regions \subseteq Nat
    BY RegionAssumption DEF Regions
  <2>2. ids \in [1..n -> Nat]
    BY <1>4, <2>1
  <2>3. ids \in Seq(Nat)
    BY <1>1, <2>2
  <2>. QED
    BY <2>3, RegionRowAssumption
<1>7. UNCHANGED <<policy, strategy, exploring, explored, incumbent, outcome, made, orderly>>
  BY DEF Ask
<1>8. RegionsTypeOK'
  BY <1>2, <1>3, <1>5, <1>7 DEF RegionsInv, RegionsTypeOK
<1>9. SharedInv' /\ PendingInv' /\ EveryRegionActive' /\ CreditIsOwn'
  BY <1>2, <1>3, <1>6, <1>7 DEF RegionsInv, SharedInv, PendingInv, EveryRegionActive, CreditIsOwn
<1>. QED
  BY <1>2, <1>8, <1>9 DEF RegionsInv

LEMMA TellFailsKeeps ==
    ASSUME RegionsInv, NEW b \in RegionBatches, TellFails(b)
    PROVE  RegionsInv'
<1>1. b \in Seq(Row) /\ b # <<>>
  BY RegionRowAssumption
<1>2. incumbent' \in {<<>>} \cup Row
  BY <1>1, NewIncumbentType DEF TellFails, RegionsInv, RegionsTypeOK
<1>3. UNCHANGED <<policy, regions, strategy, exploring, explored, pending, regionsGhosts>>
      /\ outcome' = "err"
  BY DEF TellFails
<1>4. RegionsTypeOK'
  BY <1>2, <1>3 DEF RegionsInv, RegionsTypeOK, regionsGhosts
<1>5. SharedInv' /\ PendingInv' /\ EveryRegionActive' /\ CreditIsOwn'
  BY <1>3 DEF RegionsInv, SharedInv, PendingInv, EveryRegionActive, CreditIsOwn, regionsGhosts
<1>. QED
  BY <1>3, <1>4, <1>5 DEF RegionsInv

\* What the regions are left with by a tell of the strategy that fits: all are
\* in use, those it has restarted with no rows of their own.
LEMMA RestartedType ==
    ASSUME NEW told \in [Regions -> RegionStates], NEW row \in {<<>>} \cup Row
    PROVE  LET after == Restarted(told, row)
           IN  /\ after \in [Regions -> RegionStates]
               /\ \A r \in Regions : /\ after[r].active
                                     /\ after[r].trials = IF told[r].active THEN told[r].trials
                                                          ELSE 0
<1> DEFINE fresh == StartedRegion(RestartCenter(row))
<1>1. RestartCenter(row) \in CenterValues
  <2>1. CASE row = <<>>
    BY <2>1 DEF RestartCenter, CenterValues
  <2>2. CASE row # <<>>
    BY <2>2, RowParts DEF RestartCenter
  <2>. QED
    BY <2>1, <2>2
<1>2. fresh \in RegionStates
  BY <1>1, StartedType
<1>3. fresh.active /\ fresh.trials = 0
  BY DEF StartedRegion
<1>4. Restarted(told, row) = [r \in Regions |-> IF told[r].active THEN told[r] ELSE fresh]
  BY DEF Restarted
<1> HIDE DEF fresh
<1>. QED
  BY <1>2, <1>3, <1>4

\* The batch of the last ask is credited as it was asked; the batch of nobody
\* to no region.
LEMMA Credited ==
    ASSUME RegionsInv, orderly, NEW b \in Seq(Row), NEW answered \in BOOLEAN,
           answered => Answers(b), ~answered => Range(issued) \subseteq {0},
           NEW r \in Regions
    PROVE  /\ ~Refuses(b, pending) \/ ~strategy
           /\ Recorded(regions[r], r, pending).trials
                = IF answered THEN regions[r].trials + MadeBy(issued, r) ELSE regions[r].trials
<1>1. regions[r].trials \in Nat
  BY DEF RegionsInv, RegionStates
<1>2. \/ pending = NoRegions /\ \A i \in DOMAIN issued : issued[i] = 0
      \/ pending = issued /\ pending # NoRegions
  BY DEF RegionsInv, PendingInv
<1>3. CASE pending = NoRegions /\ \A i \in DOMAIN issued : issued[i] = 0
  <2>1. ~Refuses(b, pending) \/ ~strategy
    BY <1>3 DEF Refuses, RegionsInv, SharedInv
  <2>2. r # 0
    BY RegionAssumption DEF Regions
  <2>3. {i \in DOMAIN issued : issued[i] = r} = {}
    BY <1>3, <2>2
  <2>4. MadeBy(issued, r) = 0
    BY <2>3, FS_EmptySet DEF MadeBy
  <2>5. Recorded(regions[r], r, pending) = regions[r]
    BY <1>3 DEF Recorded
  <2>. QED
    BY <1>1, <2>1, <2>4, <2>5
<1>4. CASE pending = issued /\ pending # NoRegions
  <2>1. pending \in Seq(Regions) /\ pending # <<>>
    BY <1>4 DEF RegionsInv, RegionsTypeOK
  <2>2. Range(pending) \subseteq Regions /\ Range(pending) # {}
    <3>1. Len(pending) # 0 /\ Len(pending) \in Nat
      BY <2>1
    <3>2. 1 \in DOMAIN pending
      BY <2>1, <3>1
    <3>3. \A i \in DOMAIN pending : pending[i] \in Regions
      BY <2>1
    <3>. QED
      BY <3>2, <3>3 DEF Range
  <2>3. answered
    <3>1. 0 \notin Regions
      BY RegionAssumption DEF Regions
    <3>. QED
      BY <1>4, <2>2, <3>1
  <2>4. Len(b) = Len(pending)
    BY <1>4, <2>3 DEF Answers
  <2>5. ~Refuses(b, pending)
    BY <1>4, <2>2, <2>4 DEF Refuses
  <2> DEFINE t == regions[r].trials + MadeBy(pending, r)
  <2>6. Recorded(regions[r], r, pending) = [regions[r] EXCEPT !.trials = t]
    BY <1>4 DEF Recorded
  <2>7. regions[r] \in RegionStates
    BY DEF RegionsInv
  <2> HIDE DEF t
  <2>8. [regions[r] EXCEPT !.trials = t].trials = t
    BY <2>7 DEF RegionStates
  <2>. QED
    BY <1>4, <2>3, <2>5, <2>6, <2>8 DEF t
<1>. QED
  BY <1>2, <1>3, <1>4

LEMMA TellKeeps ==
    ASSUME RegionsInv, NEW b \in RegionBatches, NEW answered \in BOOLEAN, Tell(b, answered)
    PROVE  RegionsInv'
<1> DEFINE refused == Refuses(b, pending)
           told    == ToldRegions(b, pending)
<1>1. b \in Seq(Row) /\ b # <<>>
  BY RegionRowAssumption
<1>2. regions \in [Regions -> RegionStates]
  BY DEF RegionsInv
<1>3. pending # NoRegions => \E n \in Nat : DOMAIN pending = 1..n
  <2>1. ASSUME pending # NoRegions PROVE \E n \in Nat : DOMAIN pending = 1..n
    <3>1. pending \in Seq(Regions)
      BY <2>1 DEF RegionsInv, RegionsTypeOK
    <3>2. Len(pending) \in Nat /\ DOMAIN pending = 1..Len(pending)
      BY <3>1
    <3>. QED
      BY <3>2
  <2>. QED
    BY <2>1
<1>4. /\ told \in [Regions -> RegionStates]
      /\ \A r \in Regions : regions[r].active =>
           told[r].trials = Recorded(regions[r], r, pending).trials
  BY <1>1, <1>2, <1>3, ToldType
<1>5. incumbent' \in Row
  BY <1>1, NewIncumbentType DEF Tell, RegionsInv, RegionsTypeOK
<1>6. /\ regions' = IF refused THEN regions ELSE Restarted(told, incumbent')
      /\ made' = [r \in Regions |->
                   IF ~refused /\ ~told[r].active THEN 0
                   ELSE IF answered THEN made[r] + MadeBy(issued, r) ELSE made[r]]
      /\ issued' = (IF answered THEN <<>> ELSE issued)
      /\ orderly' = (orderly /\ (answered \/ Range(issued) \subseteq {0}))
      /\ strategy /\ (answered => Answers(b))
      /\ UNCHANGED <<policy, strategy>>
  BY DEF Tell
<1>7. pending' = NoRegions /\ outcome' \in {"none", "ok", "refused", "err"}
  BY DEF Tell, PendingTaken
<1> HIDE DEF told, refused
<1>8. /\ Restarted(told, incumbent') \in [Regions -> RegionStates]
      /\ \A r \in Regions :
           /\ Restarted(told, incumbent')[r].active
           /\ Restarted(told, incumbent')[r].trials
                = IF told[r].active THEN told[r].trials ELSE 0
  BY <1>4, <1>5, RestartedType
<1>9. regions' \in [Regions -> RegionStates]
  BY <1>2, <1>6, <1>8
<1>10. EveryRegionActive'
  <2>1. \A r \in Regions : regions[r].active
    BY <1>6 DEF RegionsInv, EveryRegionActive
  <2>. QED
    BY <1>6, <1>8, <2>1 DEF EveryRegionActive
<1>11. RegionsTypeOK'
  <2>1. policy' \in Policies /\ {strategy, exploring, orderly}' \subseteq BOOLEAN
    BY <1>6 DEF RegionsInv, RegionsTypeOK, Tell
  <2>2. explored' \in 0..NumInit
    <3>1. explored \in Nat /\ NumInit \in Nat /\ Len(b) \in Nat
      BY <1>1, DesignAssumption DEF RegionsInv, RegionsTypeOK
    <3>2. explored + Len(b) \in Nat
      BY <3>1
    <3>3. Min({explored + Len(b), NumInit}) \in 0..NumInit
      BY <3>1, <3>2, MinOfTwo
    <3>. QED
      BY <3>3 DEF Tell
  <2>3. made' \in [Regions -> Nat]
    <3>1. issued \in Seq({0} \cup Regions)
      BY DEF RegionsInv, RegionsTypeOK
    <3>2. Len(issued) \in Nat /\ DOMAIN issued = 1..Len(issued)
      BY <3>1
    <3>3. \A r \in Regions : MadeBy(issued, r) \in Nat
      BY <3>2, MadeByType
    <3>4. \A r \in Regions : made[r] \in Nat
      BY DEF RegionsInv, RegionsTypeOK
    <3>5. \A r \in Regions : made[r] + MadeBy(issued, r) \in Nat
      BY <3>3, <3>4
    <3>. QED
      BY <1>6, <3>4, <3>5
  <2>4. issued' \in Seq({0} \cup Regions)
    BY <1>6 DEF RegionsInv, RegionsTypeOK
  <2>. QED
    BY <1>5, <1>7, <1>9, <2>1, <2>2, <2>3, <2>4, StatesHaveTypes DEF RegionsTypeOK
<1>12. SharedInv'
  BY <1>6 DEF RegionsInv, SharedInv
<1>13. PendingInv'
  <2>1. CASE answered
    BY <1>6, <1>7, <2>1 DEF PendingInv
  <2>2. CASE ~answered
    <3>1. issued' = issued /\ (orderly' => Range(issued) \subseteq {0})
      BY <1>6, <2>2
    <3>2. \A i \in DOMAIN issued : issued[i] \in Range(issued)
      BY DEF Range
    <3>. QED
      BY <1>7, <3>1, <3>2 DEF PendingInv
  <2>. QED
    BY <2>1, <2>2
<1>14. CreditIsOwn'
  <2> SUFFICES ASSUME orderly', NEW r \in Regions PROVE regions'[r].trials = made'[r]
    BY DEF CreditIsOwn
  <2>1. orderly /\ (~answered => Range(issued) \subseteq {0})
    BY <1>6
  <2>2. regions[r].trials = made[r] /\ regions[r].active
    BY <1>6, <2>1 DEF RegionsInv, CreditIsOwn, EveryRegionActive
  <2>3. /\ ~refused
        /\ Recorded(regions[r], r, pending).trials
             = IF answered THEN regions[r].trials + MadeBy(issued, r) ELSE regions[r].trials
    BY <1>1, <1>6, <2>1, Credited DEF refused
  <2>4. told[r].trials = IF answered THEN made[r] + MadeBy(issued, r) ELSE made[r]
    BY <1>4, <2>2, <2>3
  <2>5. regions'[r].trials = IF told[r].active THEN told[r].trials ELSE 0
    BY <1>6, <1>8, <2>3
  <2>6. made'[r] = IF ~told[r].active THEN 0
                   ELSE IF answered THEN made[r] + MadeBy(issued, r) ELSE made[r]
    BY <1>6, <2>3
  <2>. QED
    BY <2>4, <2>5, <2>6
<1>. QED
  BY <1>9, <1>10, <1>11, <1>12, <1>13, <1>14 DEF RegionsInv

THEOREM RegionsInvariance == RegionsSpec => []RegionsInv
<1>1. RegionsInit => RegionsInv
  BY RegionsInitOK
<1>2. RegionsInv /\ [RegionsNext]_regionsVars => RegionsInv'
  <2> SUFFICES ASSUME RegionsInv, [RegionsNext]_regionsVars PROVE RegionsInv'
    OBVIOUS
  <2>1. ASSUME NEW b \in RegionBatches,
               NEW ids \in {NoRegions} \cup [1..Len(b) -> Regions], TellDirect(b, ids)
        PROVE  RegionsInv'
    BY <2>1, TellDirectKeeps
  <2>2. ASSUME NEW b \in RegionBatches, NEW answered \in BOOLEAN, Tell(b, answered)
        PROVE  RegionsInv'
    BY <2>2, TellKeeps
  <2>3. ASSUME NEW b \in RegionBatches, TellFails(b) PROVE RegionsInv'
    BY <2>3, TellFailsKeeps
  <2>4. ASSUME NEW r \in Regions, NEW row \in Row, RestartRegion(r, X(row)) PROVE RegionsInv'
    BY <2>4, RestartRegionKeeps
  <2>5. ASSUME NEW n \in 1..MaxArms, AskInit(n) PROVE RegionsInv'
    BY <2>5, AskInitKeeps
  <2>6. ASSUME NEW n \in 1..MaxArms, Ask(n) PROVE RegionsInv'
    BY <2>6, AskKeeps
  <2>7. CASE UNCHANGED regionsVars
    BY <2>7 DEF regionsVars, strategyVars, regionsGhosts, RegionsInv, RegionsTypeOK, SharedInv,
                PendingInv, EveryRegionActive, CreditIsOwn
  <2>. QED
    BY <2>1, <2>2, <2>3, <2>4, <2>5, <2>6, <2>7 DEF RegionsNext
<1>. QED
  BY <1>1, <1>2, PTL DEF RegionsSpec

\* Every variable holds a value of its type: a region's counters stay below
\* their tolerances, whatever a batch makes of it.
THEOREM RegionsTypeCorrect == RegionsSpec => []RegionsTypeOK
<1>1. RegionsInv => RegionsTypeOK
  BY DEF RegionsInv
<1>. QED
  BY <1>1, RegionsInvariance, PTL

\* A region is centered on a row that was observed to have its best value
\* ("Best observed scalar value per region").
THEOREM CentersAreRows == RegionsSpec => []CenterHasBest
<1>1. RegionsInv => CenterHasBest
  BY DEF RegionsInv, RegionStates, CenterHasBest
<1>. QED
  BY <1>1, RegionsInvariance, PTL

\* The strategy leaves no region behind that is too small
\* (tell_experimental restarts it).
THEOREM NoRegionLeftBehind == RegionsSpec => []EveryRegionActive
<1>1. RegionsInv => EveryRegionActive
  BY DEF RegionsInv
<1>. QED
  BY <1>1, RegionsInvariance, PTL

\* Each region is credited with the rows it made since its restart
\* ("Number of explored trials generated by each region").
THEOREM CreditsAreOwn == RegionsSpec => []CreditIsOwn
<1>1. RegionsInv => CreditIsOwn
  BY DEF RegionsInv
<1>. QED
  BY <1>1, RegionsInvariance, PTL

\* With several regions or one that leaves them alone, an optimizer behaves
\* as this model says: the theorems hold of every optimizer.
THEOREM OptimizerIsRegions == OptimizerSpec => RegionsSpec
<1>1. OptimizerInit => RegionsInit
  BY DEF OptimizerInit
<1>2. [OptimizerNext]_optimizerVars => [RegionsNext]_regionsVars
  BY DEF OptimizerNext, optimizerVars
<1>. QED
  BY <1>1, <1>2, PTL DEF OptimizerSpec, RegionsSpec

=============================================================================
