------------------------------ MODULE MorboTell ------------------------------
(***************************************************************************)
(* An optimizer with several objectives: ask and tell of the hybrid and    *)
(* the TuRBO strategy (ennx/src/strategy/mod.rs) over a MORBO trust region *)
(* (morbo_trust_region.rs, optimizer/tr_state.rs), which scores rows with  *)
(* random weights relative to the ranges of what was told.  Weights and    *)
(* ranges move under the incumbent, so a best value is only as good as     *)
(* the moment it was computed in.  A row stands for its two objectives;    *)
(* the tracker's counts and rebuilds, and a work directory that has rows   *)
(* already, are in AskTell.  Not noise aware, objectives finite.           *)
(***************************************************************************)
EXTENDS TurboLength, Sequences, FiniteSets

CONSTANTS
    Points,       \* a row: its objectives
    MorboBatches, \* bound: the batches that are told
    Weights,      \* Dirichlet weights, in a common unit
    AlphaInverse, \* 1 / alpha
    ScoreUnit,    \* a common multiple of all ranges, and even
    Tops,         \* m of the tracker: k of the surrogate, or KeepAll
    KeepAll,      \* no surrogate: every row is a candidate
    Arms,         \* bound: arms asked for
    MorboTells,   \* bound: tells that store rows
    MorboFaults   \* bound: failing fits

Metrics == 1..2

ASSUME MorboAssumption ==
    /\ Points \subseteq [Metrics -> Nat]
    /\ MorboBatches \subseteq Seq(Points) \ {<<>>}
    /\ Weights \subseteq [Metrics -> Nat \ {0}]
    /\ {AlphaInverse, ScoreUnit} \cup Tops \cup Arms \subseteq Nat \ {0}
    /\ ScoreUnit % 2 = 0
    /\ \A p, q \in Points, m \in Metrics : p[m] > q[m] => ScoreUnit % (p[m] - q[m]) = 0
    /\ {MorboTells, MorboFaults} \subseteq Nat

VARIABLES
    top,        \* m of the incumbent tracker
    onPropose,  \* rescalarize: on_propose, else on_restart
    rows,       \* the stored rows, one per observation counted
    designing,  \* in_init of the hybrid strategy
    designed,   \* completed
    region,     \* TurboTrustRegion inside MorboTrustRegion
    weights,
    ranges,     \* y_min and y_max of each metric; <<>> is None
    raw,        \* incumbent_y_raw; <<>> is None
    center,     \* incumbent_idx, counted from 1; 0 is None
    answer,     \* what the last call was and returned
    missed,     \* ghost: a row was stored by a tell that failed, and no
                \* restart has read all rows since
    failures    \* bound: failed fits so far

morboVars == <<top, onPropose, rows, designing, designed, region, weights, ranges, raw,
               center, answer, missed, failures>>

\* f64::NEG_INFINITY, below every score.
NoBest == -1

\* No tolerance has been computed before the first TuRBO call: 4.
FreshRegion == [length |-> LengthInit, succ |-> 0, fail |-> 0, best |-> NoBest,
                prev |-> 0, tolerance |-> 4]

MorboInit ==
    /\ top \in Tops \cup {KeepAll}
    /\ onPropose \in BOOLEAN
    /\ designing \in BOOLEAN
    /\ rows = <<>> /\ designed = 0
    /\ region = FreshRegion
    /\ weights \in Weights
    /\ ranges = <<>> /\ raw = <<>> /\ center = 0
    /\ answer = "none"
    /\ missed = FALSE /\ failures = 0

-----------------------------------------------------------------------------
(* Scores *)

\* update_ranges_incremental.
Widened(r, ys) ==
    [m \in Metrics |->
        LET seen == {ys[i][m] : i \in DOMAIN ys}
                      \cup (IF r = <<>> THEN {} ELSE {r[m].lo, r[m].hi})
        IN  [lo |-> Min(seen), hi |-> Max(seen)]]

\* An objective relative to its range, clipped to it.
Relative(v, r) ==
    IF r.hi = r.lo THEN ScoreUnit \div 2
    ELSE Min({ScoreUnit, Max({0, (ScoreUnit * (v - r.lo)) \div (r.hi - r.lo)})})

\* scalarize_with_ranges: the least weighted objective, plus alpha times the sum.
Score(y, r, w) ==
    LET t == [m \in Metrics |-> w[m] * Relative(y[m], r[m])]
    IN  AlphaInverse * Min({t[m] : m \in Metrics}) + t[1] + t[2]

\* The m rows that are greatest in a metric, older rows first among equals.
TopRows(ys, m) ==
    {i \in DOMAIN ys : Cardinality({j \in DOMAIN ys :
        ys[j][m] > ys[i][m] \/ (ys[j][m] = ys[i][m] /\ j < i)}) < top}

\* ask of the tracker.
Candidates(ys) == IF top = KeepAll THEN DOMAIN ys ELSE UNION {TopRows(ys, m) : m \in Metrics}

\* update_incumbent: argmax_random_tie of the scores.
Centers(ys, r, w) ==
    {i \in Candidates(ys) : \A j \in Candidates(ys) : Score(ys[j], r, w) <= Score(ys[i], r, w)}

-----------------------------------------------------------------------------
(* The region *)

\* update_scalar_incumbent: a call with no new rows changes nothing, and the
\* margin of 1e-9 is below every difference of two scores.
ScalarUpdated(r, n, score) ==
    LET improved == score > r.best
        succ     == IF improved THEN r.succ + 1 ELSE 0
        fail     == IF improved THEN 0 ELSE r.fail + 1
        expands  == succ >= SuccessTolerance
        shrinks  == ~expands /\ fail >= r.tolerance
    IN  IF n \in {0, r.prev} THEN r
        ELSE IF r.best = NoBest THEN [r EXCEPT !.best = score, !.prev = n]
        ELSE [r EXCEPT !.length = IF expands THEN Min({2 * @, LengthMax})
                                  ELSE IF shrinks THEN @ \div 2 ELSE @,
                       !.succ = IF expands THEN 0 ELSE succ,
                       !.fail = IF shrinks THEN 0 ELSE fail,
                       !.best = Max({@, score}),
                       !.prev = n]

\* Mutant: the best value keeps the score it had when it was set.
ComparedWithBest(y, r, w, n) ==
    [region |-> ScalarUpdated(region, n, Score(y, r, w)),
     raw    |-> IF raw = <<>> \/ Score(y, r, w) > Score(raw, r, w) THEN y ELSE raw]

\* update_incumbent_only: the row behind the best value and the incumbent are
\* both scored as of now.
IncumbentTold(y, r, w, n) ==
    IF raw = <<>>
    THEN [region |-> ScalarUpdated(region, n, Score(y, r, w)), raw |-> y]
    ELSE LET old == Score(raw, r, w)
             new == Score(y, r, w)
         IN  [region |-> ScalarUpdated([region EXCEPT !.best = old], n, new),
              raw    |-> IF new > old THEN y ELSE raw]

\* rescalarize_incumbent_under_weights.
Rescalarized(r, w) ==
    IF raw = <<>> \/ ranges = <<>> THEN r
    ELSE LET score == Score(raw, ranges, w)
         IN  ScalarUpdated([r EXCEPT !.best = score], Len(rows), score)

\* Mutant: the ranges stay cleared until the next rows come.
RangesCleared(ys) == <<>>

\* A restart clears the ranges and morbo_sync_ranges_from_obs reads all rows.
RangesSynced(ys) == Widened(<<>>, ys)

-----------------------------------------------------------------------------
(* Calls *)

\* ask_init changes nothing.
MorboAskInit ==
    /\ designing
    /\ answer' = "ask"
    /\ UNCHANGED <<top, onPropose, rows, designing, designed, region, weights, ranges, raw,
                   center, missed, failures>>

\* ask_turbo: resample_on_propose, set_num_arms, morbo_rescalarize_incumbent.
\* The candidates around the center and the choice among them are left out.
MorboAsk(arms) ==
    /\ ~designing
    /\ weights' \in IF onPropose THEN Weights ELSE {weights}
    /\ region' = Rescalarized([region EXCEPT !.tolerance = FailureTolerance(arms)], weights')
    /\ answer' = "ask"
    /\ UNCHANGED <<top, onPropose, rows, designing, designed, ranges, raw, center, missed,
                   failures>>

MorboStore(b) ==
    /\ Len(rows) < MorboTells
    /\ rows' = rows \o b

\* fit_append stores the rows and then fails: tell_common ends there.
MorboFitFails(b) ==
    /\ top # KeepAll
    /\ failures < MorboFaults
    /\ MorboStore(b)
    /\ failures' = failures + 1
    /\ answer' = "err"
    /\ missed' = TRUE
    /\ UNCHANGED <<top, onPropose, designing, designed, region, weights, ranges, raw, center>>

\* tell_common on ranges r: the incumbent at index i, what the region makes of it.
Scored(b, i) ==
    /\ i \in Centers(rows', Widened(ranges, b), weights)
    /\ center' = i
    /\ answer' = "tell"

\* tell_init: the region hears of it, unlike TuRBO's, but never restarts.
MorboTellInit(b) ==
    /\ designing
    /\ MorboStore(b)
    /\ ranges' = Widened(ranges, b)
    /\ \E i \in DOMAIN rows' :
         /\ Scored(b, i)
         /\ LET told == IncumbentTold(rows'[i], ranges', weights, Len(rows'))
            IN  region' = told.region /\ raw' = told.raw
    /\ designed' = designed + Len(b)
    /\ designing' = (designed' < NumInit)
    /\ UNCHANGED <<top, onPropose, weights, missed, failures>>

\* tell_turbo: the tolerance that counted was the last call's, the next is
\* that of this batch; a region that has become too small restarts.
MorboTellTurbo(b) ==
    /\ ~designing
    /\ MorboStore(b)
    /\ \E i \in DOMAIN rows' :
         /\ Scored(b, i)
         /\ LET told == IncumbentTold(rows'[i], Widened(ranges, b), weights, Len(rows'))
                next == [told.region EXCEPT !.tolerance = FailureTolerance(Len(b))]
            IN  IF next.length >= LengthMin
                THEN /\ region' = next
                     /\ raw' = told.raw
                     /\ ranges' = Widened(ranges, b)
                     /\ UNCHANGED <<weights, missed>>
                ELSE /\ region' = [FreshRegion EXCEPT !.prev = next.prev,
                                                      !.tolerance = next.tolerance]
                     /\ raw' = <<>>
                     /\ ranges' = RangesSynced(rows')
                     /\ weights' \in IF onPropose THEN {weights} ELSE Weights
                     /\ missed' = FALSE
    /\ UNCHANGED <<top, onPropose, designing, designed, failures>>

MorboNext ==
    \/ MorboAskInit
    \/ \E arms \in Arms : MorboAsk(arms)
    \/ \E b \in MorboBatches : MorboFitFails(b) \/ MorboTellInit(b) \/ MorboTellTurbo(b)

MorboSpec == MorboInit /\ [][MorboNext]_morboVars

-----------------------------------------------------------------------------
(* Properties *)

\* Scores are relative to everything that was told: the ranges, kept up to
\* date batch by batch and rebuilt by a restart, are those of all rows, unless
\* a tell failed with its rows stored and no restart has read them since
\* (update_ranges_incremental, morbo_sync_ranges_from_obs).
RangesCoverRows == ~missed /\ rows # <<>> => ranges = Widened(<<>>, rows)

\* After a tell the best value that the next improvement is measured from is
\* the score of the row the region is centered on, under the weights and the
\* ranges of that moment, however both have moved since the row was told
\* (update_incumbent_only, rescalarize_incumbent_under_weights).  A row that
\* the tracker has dropped can stay behind a best value that no candidate
\* reaches, and then the best value is above the center's score.
BestIsCentersScore ==
    answer = "tell" /\ raw # <<>> =>
        LET score == Score(rows[center], ranges, weights)
        IN  /\ region.best = Score(raw, ranges, weights)
            /\ region.best >= score
            /\ (\E i \in Candidates(rows) : rows[i] = raw) => region.best = score

=============================================================================
