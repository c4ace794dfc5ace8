------------------------------- MODULE AskTell -------------------------------
(***************************************************************************)
(* What a tell does to an optimizer with one TuRBO trust region:           *)
(* Optimizer::tell (ennx/src/optimizer/mod.rs), the hybrid and the TuRBO   *)
(* strategy (strategy/mod.rs), the surrogate (surrogate.rs), the incumbent *)
(* tracker (incumbent_tracker.rs) and the trust region (trust_region.rs).  *)
(*                                                                         *)
(* A tell stores its rows, refits, updates the tracker, the incumbent and  *)
(* then the trust region, and may return Err after any of these.  A row    *)
(* stands for its objective; x, yvar, and what the fit computes are left   *)
(* out, and so is ask: the arm count it leaves in the trust region is      *)
(* overwritten by the next tell before anything reads it.  One metric, not *)
(* noise aware.  Rows with x and without y are the business of DiskStore.  *)
(***************************************************************************)
EXTENDS TurboLength, SequencesExt

CONSTANTS
    Value,        \* finite objectives
    NaN,          \* an objective that is not a number
    Batches,      \* bound: the batches that are told
    Resumable,    \* bound: rows a work directory may hold at the start
    MaxTells,     \* bound: tells that store rows
    MaxFaults     \* bound: failing syncs, fits and flushes

ASSUME ValueAssumption == Value \subseteq Nat /\ NaN \notin Nat
ASSUME BatchAssumption ==
    /\ Batches \subseteq Seq(Value \cup {NaN}) \ {<<>>}
    /\ Resumable \subseteq Seq(Value \cup {NaN})
    /\ \A rows \in Resumable : rows # <<>> => rows[1] # NaN
ASSUME BoundAssumption == {MaxTells, MaxFaults} \subseteq Nat

VARIABLES
    surrogate,  \* an ENN surrogate; else the rows are kept in fallback_y
    onDisk,     \* rows of the work directory a model will be built on
    hasModel,   \* the surrogate has a model
    ys,         \* the objectives stored by the model, or fallback_y
    num,        \* obs_count: num_obs of the model, or the length of fallback_y
    tracker,    \* IncrementalIncumbentTracker
    incAt,      \* incumbent_idx, counted from 1; 0 is None
    inInit, completed,  \* state of the hybrid strategy
    tr,         \* TurboTrustRegion
    result,     \* what the last tell returned
    clean,      \* ghost: no store or fit has failed with the rows stored
    resumed,    \* ghost: the first tell found rows and dropped its own
    blind,      \* ghost: and as many as it brought
    tells, faults

ghostVars == <<clean, resumed, blind>>
vars == <<surrogate, onDisk, hasModel, ys, num, tracker, incAt, inInit,
          completed, tr, result, ghostVars, tells, faults>>

\* f64::NEG_INFINITY, below every value.
NegInf == -1

\* `>` of f64: false as soon as one side is NaN.
Greater(a, b) == NaN \notin {a, b} /\ a > b

\* f64::total_cmp puts NaN above everything.
TotalGreater(a, b) == b # NaN /\ (a = NaN \/ a > b)

IsFinite(rows) == NaN \notin Range(rows)

EmptyTracker == [count |-> 0, max |-> NegInf, at |-> {}]

NewRegion == [length |-> LengthInit, succ |-> 0, fail |-> 0, best |-> NegInf,
              prev |-> 0, hist |-> {}]

(***************************************************************************)
(* The hybrid strategy starts in its initial design, TuRBO alone does not. *)
(***************************************************************************)
Init ==
    /\ surrogate \in BOOLEAN
    /\ onDisk \in IF surrogate THEN Resumable ELSE {<<>>}
    /\ hasModel = FALSE
    /\ ys = <<>> /\ num = 0
    /\ tracker = EmptyTracker
    /\ incAt = 0
    /\ inInit \in BOOLEAN
    /\ completed = 0
    /\ tr = NewRegion
    /\ result = "none"
    /\ clean = TRUE /\ resumed = FALSE /\ blind = FALSE
    /\ tells = 0 /\ faults = 0

----------------------------------------------------------------------------
(* IncrementalIncumbentTracker                                             *)

\* A surrogate makes it keep the indices of the maximum, without one it keeps
\* every index.  `at` is empty iff max_initialized is false.
TrackerTell(t, i, y) ==
    [count |-> t.count + 1,
     max   |-> IF surrogate /\ (t.at = {} \/ Greater(y, t.max)) THEN y ELSE t.max,
     at    |-> IF ~surrogate THEN t.at \cup {i}
               ELSE IF t.at = {} \/ Greater(y, t.max) THEN {i}
               ELSE IF y = t.max /\ y # NaN THEN t.at \cup {i} ELSE t.at]

\* commit_observations: the batch, at the indices from n + 1 on, up to its row k.
TrackerUpTo(t, n, b) ==
    LET told[k \in 0..Len(b)] ==
          IF k = 0 THEN t ELSE TrackerTell(told[k - 1], n + k, b[k])
    IN  told

TrackerTold(t, n, b) == TrackerUpTo(t, n, b)[Len(b)]

Rebuilt(rows) == TrackerTold(EmptyTracker, 0, rows)

\* Mutant: it is only rebuilt when it has been told of too many rows.
RebuiltWhenAhead(b, rows) ==
    LET told == TrackerTold(tracker, num, b)
    IN  IF told.count <= Len(rows) THEN told ELSE Rebuilt(rows)

\* A tracker that has not been told of every row is rebuilt.
TrackerAfter(b, rows) ==
    LET told == TrackerTold(tracker, num, b)
    IN  IF told.count = Len(rows) THEN told ELSE Rebuilt(rows)

\* max_by returns the last of the greatest.
Incumbent(t, rows) ==
    Max({i \in t.at : \A j \in t.at : ~TotalGreater(rows[j], rows[i])})

----------------------------------------------------------------------------
(* TurboTrustRegion                                                        *)

\* hist_ymin and hist_ymax; min and max of f64 ignore NaN.
Extremes(S) == IF S = {} THEN {} ELSE {Min(S), Max(S)}
WithHist(r, b) == Extremes((r.hist \cup Range(b)) \ {NaN})

\* scale_from_hist; its floor of 1e-6 does not matter to integers.
Scale(r) == IF r.prev >= 2 /\ r.hist # {} THEN Max(r.hist) - Min(r.hist) ELSE 0

\* More than 1e-3 of the scale above the best value.
Improves(r, y) == NaN \notin {y, r.best} /\ 1000 * (y - r.best) > Scale(r)

\* Mutant: best_value follows only an improvement, as in `update`.
ReplacedWhenImproved(r, b, y) ==
    LET improved == Improves(r, y)
    IN  [r EXCEPT !.best = IF improved THEN y ELSE r.best,
                  !.hist = WithHist(r, b), !.prev = r.prev + Len(b)]

\* A batch with a finite best value behind it: count, then resize.
Adapted(r, b, y) ==
    LET improved == Improves(r, y)
        succ     == IF improved THEN r.succ + 1 ELSE 0
        fail     == IF improved THEN 0 ELSE r.fail + 1
        expands  == succ >= SuccessTolerance
        shrinks  == ~expands /\ fail >= FailureTolerance(Len(b))
    IN  [length |-> IF expands THEN Min({2 * r.length, LengthMax})
                    ELSE IF shrinks THEN r.length \div 2 ELSE r.length,
         succ   |-> IF expands THEN 0 ELSE succ,
         fail   |-> IF shrinks THEN 0 ELSE fail,
         best   |-> IF Greater(y, r.best) THEN y ELSE r.best,
         prev   |-> r.prev + Len(b),
         hist   |-> WithHist(r, b)]

\* update_with_incumbent_new_batch.
Updated(r, b, y) ==
    IF r.best \in {NegInf, NaN}
    THEN [r EXCEPT !.best = y, !.hist = WithHist(r, b), !.prev = r.prev + Len(b)]
    ELSE Adapted(r, b, y)

\* Mutant: never.
NotRestarted(r) == r

\* A region that is too small restarts and keeps its watermark.
RestartedIfSmall(r) ==
    IF r.length < LengthMin THEN [NewRegion EXCEPT !.prev = r.prev] ELSE r

\* Mutant: the watermark is left alone.
OldWatermark(b, n) == tr.prev

\* The first batch of the TuRBO phase moves the watermark past the initial
\* design (saturating_sub).
Watermark(b, n) == IF tr.prev = 0 THEN Max({0, n - Len(b)}) ELSE tr.prev

----------------------------------------------------------------------------
(* Tell                                                                    *)

\* A model that is built on a directory with rows in it drops those it is
\* given.
StoredRows(b) == IF surrogate /\ ~hasModel /\ onDisk # <<>> THEN onDisk ELSE ys \o b

\* The rows of b are in the model, and its num_obs counts them.
Store(b) ==
    /\ tells < MaxTells
    /\ tells' = tells + 1
    /\ ys' = StoredRows(b)
    /\ hasModel' = surrogate
    /\ resumed' = (resumed \/ StoredRows(b) # ys \o b)
    /\ UNCHANGED <<surrogate, onDisk>>

Fault == faults < MaxFaults /\ faults' = faults + 1

\* Err before anything is stored: a flush that failed, bad shapes, a batch
\* that a first fit or the backend refuses.
TellRefused ==
    /\ result' = "err"
    /\ UNCHANGED <<surrogate, onDisk, hasModel, ys, num, tracker, incAt, inInit,
                   completed, tr, ghostVars, tells, faults>>

\* The rows are in the files and the sync at the hard threshold fails:
\* num_obs is not brought up to date.
StoreFails(b) ==
    /\ hasModel
    /\ Fault
    /\ Store(b)
    /\ result' = "err"
    /\ clean' = FALSE
    /\ UNCHANGED <<num, tracker, incAt, inInit, completed, tr, blind>>

\* The model takes the rows, then the fitter refuses a NaN, or the sync or the
\* search for hyperparameters fails.
FitFails(b) ==
    /\ surrogate
    /\ \/ IsFinite(b) /\ Fault
       \/ ~IsFinite(b) /\ hasModel /\ UNCHANGED faults
    /\ Store(b)
    /\ num' = Len(ys')
    /\ result' = "err"
    /\ clean' = FALSE
    /\ UNCHANGED <<tracker, incAt, inInit, completed, tr, blind>>

\* tell_common.
Observe(b) ==
    /\ surrogate => IsFinite(b)
    /\ Store(b)
    /\ num' = Len(ys')
    /\ tracker' = TrackerAfter(b, ys')
    /\ incAt' = Incumbent(tracker', ys')
    /\ blind' = (blind \/ (resumed' /\ ~resumed /\ Len(onDisk) = Len(b)))

\* Everything is applied; scheduling the background flush may still fail.
Done ==
    \/ result' = "ok" /\ UNCHANGED faults
    \/ result' = "late" /\ surrogate /\ Fault

\* tell_init: the trust region hears nothing of it.
TellInit(b) ==
    /\ inInit
    /\ Observe(b)
    /\ completed' = completed + Len(b)
    /\ inInit' = (completed' < NumInit)
    /\ Done
    /\ UNCHANGED <<tr, clean>>

\* tell_turbo.
TellTurbo(b) ==
    /\ ~inInit
    /\ Observe(b)
    /\ Watermark(b, num') + Len(b) = num'
    /\ tr' = RestartedIfSmall(Updated([tr EXCEPT !.prev = Watermark(b, num')], b, ys'[incAt']))
    /\ Done
    /\ UNCHANGED <<inInit, completed, clean>>

\* tell_turbo: "num_obs must equal prev_num_obs + y_new.len()".
TellMismatch(b) ==
    /\ ~inInit
    /\ Observe(b)
    /\ Watermark(b, num') + Len(b) # num'
    /\ tr' = [tr EXCEPT !.prev = Watermark(b, num')]
    /\ result' = "refused"
    /\ UNCHANGED <<inInit, completed, clean, faults>>

Next ==
    \/ TellRefused
    \/ \E b \in Batches :
        StoreFails(b) \/ FitFails(b) \/ TellInit(b) \/ TellTurbo(b) \/ TellMismatch(b)

Spec == Init /\ [][Next]_vars

----------------------------------------------------------------------------
(* Properties                                                              *)

Rows == Seq(Value \cup {NaN})

\* Every variable holds a value of its type.
TypeOK ==
    /\ {surrogate, hasModel, inInit, clean, resumed, blind} \subseteq BOOLEAN
    /\ onDisk \in Rows /\ ys \in Rows
    /\ num \in 0..Len(ys)
    /\ tracker.count \in Nat /\ tracker.at \subseteq 1..Len(ys)
    /\ incAt \in 0..Len(ys)
    /\ completed \in Nat
    /\ tr \in [length : Nat, succ : 0..2, fail : Nat, best : Value \cup {NaN, NegInf},
               prev : 0..Len(ys), hist : SUBSET Value]
    /\ result \in {"none", "ok", "late", "err", "refused"}

Told == result \in {"ok", "late", "refused"}

\* After a tell the incumbent is the best row that is stored, those of tells
\* that returned Err included, although the tracker hears of a batch only when
\* its tell gets that far.  Two cases are out of its reach: rows found in a
\* work directory in the place of as many rows told, and a NaN without a
\* surrogate, which stays the incumbent for good.
IncumbentIsBest ==
    Told /\ ~blind /\ (surrogate \/ IsFinite(ys)) =>
        \A i \in DOMAIN ys : ~Greater(ys[i], ys[incAt]) /\ ys[incAt] # NaN

\* As long as no tell has failed with its rows stored and no rows were found
\* in a work directory, the watermark of the trust region follows the row
\* count through the initial design and restarts: no tell is refused.
NeverRefused == clean /\ ~resumed => result # "refused"

\* As long as no tell has failed with its rows stored, the best value of the
\* trust region is the incumbent's, or was reset by a restart: what counts as
\* an improvement is measured from the row the region is centered on.
BestIsIncumbent ==
    Told /\ clean /\ ~blind /\ ~inInit /\ (surrogate \/ IsFinite(ys)) =>
        tr.best \in {NegInf, ys[incAt]}

\* A tell never leaves the region smaller than length_min or wider than
\* length_max: the batch that makes it too small restarts it.
LengthInRange == LengthMin <= tr.length /\ tr.length <= LengthMax

=============================================================================
