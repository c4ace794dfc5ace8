--------------------------- MODULE MultiTrustRegion ---------------------------
(***************************************************************************)
(* Several trust regions side by side: MultiTrustRegionState               *)
(* (ennx/src/optimizer/multi_tr.rs), driven by the experimental strategy   *)
(* (strategy/mod.rs) or by a caller of its own.                            *)
(*                                                                         *)
(* The strategy remembers in pending_regions which region made each row of *)
(* the last ask, credits the rows of the next tell to them and restarts    *)
(* regions that have become too small.  A row is a point on a line and a   *)
(* finite objective.  Candidates and acquisition are left out: a caller    *)
(* may tell any rows.  Means and variances only rank the regions: the      *)
(* allocation is any that some ranking gives.  Lengths are halved exactly: *)
(* they are powers of two of a unit.                                       *)
(***************************************************************************)
EXTENDS TurboLength, FiniteSets, Sequences, Functions

CONSTANTS
    NumRegions,  \* num_regions
    Row,         \* rows <<x, y>> that may be observed
    RegionBatches,  \* bound: the batches that are told
    MaxArms,     \* bound: most arms of an ask
    RegionTells, \* bound: tells and restarts
    Middle,      \* the middle of the unit cube
    SuccTolerance, FailTolerance,
    NoRegions    \* Option::None for regions

ASSUME RegionRowAssumption ==
    /\ Row \subseteq Nat \X Nat
    /\ RegionBatches \subseteq Seq(Row) \ {<<>>}
    /\ Middle \in Nat
    /\ NoRegions \notin Seq(Nat)
ASSUME RegionAssumption ==
    /\ {NumRegions, SuccTolerance, FailTolerance} \subseteq Nat \ {0}
    /\ {MaxArms, RegionTells} \subseteq Nat

VARIABLES
    policy,     \* sharing_policy
    regions,    \* the MultiTrustRegionState
    strategy,   \* driven by the experimental strategy; else by its caller
    exploring,  \* in_init
    explored,   \* rows told, up to num_init
    pending,    \* pending_regions
    incumbent,  \* the best row stored, or <<>>; a tell looks it up
    outcome,    \* what the last tell returned
    issued,     \* ghost: the region that made each row of the last ask
    made,       \* ghost: rows told that each region made since its restart
    orderly,    \* ghost: as long as the last ask of regions was unanswered
                \* only its batch was told
    tellCount

strategyVars == <<exploring, explored, pending, incumbent>>
regionsGhosts == <<issued, made, orderly>>
regionsVars == <<policy, regions, strategy, strategyVars, outcome, regionsGhosts, tellCount>>

Regions == 1..NumRegions
Policies == {"shared", "nearest_center", "independent"}

X(row) == row[1]
Y(row) == row[2]

\* f64::NEG_INFINITY, below every objective.
NeverImproved == -1

StartedRegion(x) == [center |-> x, length |-> LengthInit, best |-> NeverImproved,
                     succ |-> 0, fail |-> 0, active |-> TRUE, trials |-> 0]

(***************************************************************************)
(* Centers are drawn at random.  The experimental strategy always shares.  *)
(***************************************************************************)
RegionsInit ==
    /\ policy \in Policies
    /\ strategy \in IF policy = "shared" THEN BOOLEAN ELSE {FALSE}
    /\ regions \in [Regions -> {StartedRegion(X(row)) : row \in Row}]
    /\ exploring = (strategy /\ NumInit > 0)
    /\ explored = 0
    /\ pending = NoRegions
    /\ incumbent = <<>>
    /\ outcome = "none"
    /\ issued = <<>>
    /\ made = [r \in Regions |-> 0]
    /\ orderly = TRUE
    /\ tellCount = 0

----------------------------------------------------------------------------
(* MultiTrustRegionState                                                   *)

Distance(x, z) == IF x < z THEN z - x ELSE x - z

\* compute_bounds_1d without lengthscales, and contains.
Inside(region, x) == 2 * Distance(region.center, x) <= region.length

\* accepts: does region r take row i of b?
Accepts(rs, r, b, i, ids) ==
    CASE policy = "shared" -> Inside(rs[r], X(b[i]))
      [] policy = "independent" -> ids # NoRegions /\ ids[i] = r
      [] policy = "nearest_center" ->
            \A other \in Regions \ {r} : rs[other].active =>
                Distance(rs[other].center, X(b[i])) >= Distance(rs[r].center, X(b[i]))

\* The rows that improve on the region's best value; the first of the best wins.
Improving(rs, r, b, ids) ==
    {i \in DOMAIN b : Accepts(rs, r, b, i, ids) /\ Y(b[i]) > rs[r].best}

FirstBest(b, S) ==
    CHOOSE i \in S : \A j \in S : Y(b[j]) < Y(b[i]) \/ (Y(b[j]) = Y(b[i]) /\ i <= j)

Succeeded(region) ==
    IF region.succ + 1 >= SuccTolerance
    THEN [region EXCEPT !.length = Min({2 * region.length, LengthMax}),
                        !.succ = 0, !.fail = 0]
    ELSE [region EXCEPT !.succ = region.succ + 1, !.fail = 0]

\* A region that has become too small is flagged for a restart.
Failed(region) ==
    IF region.fail + 1 >= FailTolerance
    THEN [region EXCEPT !.length = region.length \div 2, !.succ = 0, !.fail = 0,
                        !.active = (region.length \div 2 >= LengthMin)]
    ELSE [region EXCEPT !.succ = 0, !.fail = region.fail + 1]

\* The center and the best value follow the best improving row.
Moved(region, row) == [region EXCEPT !.center = X(row), !.best = Y(row)]

\* The rows that region r made.
MadeBy(ids, r) == Cardinality({i \in DOMAIN ids : ids[i] = r})

\* record: rows are credited to the region that made them.
Recorded(region, r, ids) ==
    IF ids = NoRegions THEN region
    ELSE [region EXCEPT !.trials = region.trials + MadeBy(ids, r)]

\* Region r after a batch; the others may have moved already.
AfterBatch(rs, r, b, ids) ==
    LET improving == Improving(rs, r, b, ids)
        region    == Recorded(rs[r], r, ids)
    IN  IF ~region.active THEN rs[r]
        ELSE IF improving = {} THEN Failed(region)
        ELSE Succeeded(Moved(region, b[FirstBest(b, improving)]))

\* tell: region after region; what the first k make of the batch.
ToldUpTo(b, ids) ==
    LET told[k \in 0..NumRegions] ==
          IF k = 0 THEN regions
          ELSE [told[k - 1] EXCEPT ![k] = AfterBatch(told[k - 1], k, b, ids)]
    IN  told

ToldRegions(b, ids) == ToldUpTo(b, ids)[NumRegions]

\* tell refuses regions that do not match the batch, and none if each region
\* keeps to its own rows.
Refuses(b, ids) ==
    IF ids = NoRegions THEN policy = "independent"
    ELSE Len(ids) # Len(b) \/ ~(Range(ids) \subseteq Regions)

----------------------------------------------------------------------------
(* A caller of its own                                                     *)

CountTell == tellCount < RegionTells /\ tellCount' = tellCount + 1

TellDirect(b, ids) ==
    /\ ~strategy
    /\ CountTell
    /\ IF Refuses(b, ids)
       THEN outcome' = "refused" /\ UNCHANGED regions
       ELSE outcome' = "ok" /\ regions' = ToldRegions(b, ids)
    /\ UNCHANGED <<policy, strategy, strategyVars, regionsGhosts>>

\* restart_region, which does not ask whether the region is inactive.
RestartRegion(r, x) ==
    /\ ~strategy
    /\ CountTell
    /\ regions' = [regions EXCEPT ![r] = StartedRegion(x)]
    /\ UNCHANGED <<policy, strategy, strategyVars, outcome, regionsGhosts>>

----------------------------------------------------------------------------
(* The experimental strategy                                               *)

RestartCenter(row) == IF row = <<>> THEN Middle ELSE X(row)

\* Mutant: the best value survives the restart.
BestKept(rs, row) ==
    [r \in Regions |-> IF rs[r].active THEN rs[r]
                       ELSE [StartedRegion(RestartCenter(row)) EXCEPT !.best = rs[r].best]]

\* Mutant: regions are restarted when none is active.
RestartedTogether(rs, row) ==
    IF \E r \in Regions : rs[r].active THEN rs
    ELSE [r \in Regions |-> StartedRegion(RestartCenter(row))]

\* Inactive regions restart at the incumbent, all of them if need be.
Restarted(rs, row) ==
    [r \in Regions |-> IF rs[r].active THEN rs[r] ELSE StartedRegion(RestartCenter(row))]

\* allocate: with fewer arms than regions one each for the first in rank, else
\* at least one for every region, in the order of the regions.
Allocations(rs, n) ==
    LET active == {r \in Regions : rs[r].active}
    IN  IF n < Cardinality(active)
        THEN {ids \in [1..n -> active] : IsInjective(ids)}
        ELSE {ids \in [1..n -> active] :
                 /\ Range(ids) = active
                 /\ \A i \in 2..n : ids[i - 1] <= ids[i]}

\* An ask of the initial design forgets what was pending.
AskInit(n) ==
    /\ strategy /\ exploring
    /\ pending' = NoRegions
    /\ issued' = [i \in 1..n |-> 0]
    /\ UNCHANGED <<policy, regions, strategy, exploring, explored, incumbent, outcome,
                   made, orderly, tellCount>>

\* ask_experimental: if no region is active, all restart first.  One that fails
\* leaves everything as it was.
Ask(n) ==
    /\ strategy /\ ~exploring
    /\ regions' = IF \E r \in Regions : regions[r].active THEN regions
                  ELSE Restarted(regions, incumbent)
    /\ \E ids \in Allocations(regions', n) : pending' = ids /\ issued' = ids
    /\ UNCHANGED <<policy, strategy, exploring, explored, incumbent, outcome,
                   made, orderly, tellCount>>

\* The last of the best: of rows with the same objective the newest counts.
NewIncumbent(b) ==
    LET rows == IF incumbent = <<>> THEN b ELSE <<incumbent>> \o b
    IN  rows[Max({i \in DOMAIN rows : \A j \in DOMAIN rows : Y(rows[j]) <= Y(rows[i])})]

\* tell_common fails, with the rows stored or not: the strategy is as it was.
TellFails(b) ==
    /\ strategy
    /\ CountTell
    /\ outcome' = "err"
    /\ incumbent' \in {incumbent, NewIncumbent(b)}
    /\ UNCHANGED <<policy, regions, strategy, exploring, explored, pending, regionsGhosts>>

\* Mutant: the regions stay pending for the next tell.
PendingKept == pending

\* pending_regions.take().
PendingTaken == NoRegions

\* Is b the batch of the last ask, as far as its size tells?
Answers(b) == issued # <<>> /\ Len(b) = Len(issued)

\* tell_experimental; `answer` says that the rows are those of the last ask.
\* A batch that does not fit the pending regions is refused after its rows are
\* stored, and the regions are gone.
Tell(b, answer) ==
    LET refused == Refuses(b, pending)
        told    == ToldRegions(b, pending)
    IN  /\ strategy
        /\ CountTell
        /\ answer => Answers(b)
        /\ incumbent' = NewIncumbent(b)
        /\ explored' = Min({explored + Len(b), NumInit})
        /\ exploring' = (exploring /\ explored' < NumInit)
        /\ pending' = PendingTaken
        /\ outcome' = IF refused THEN "refused" ELSE "ok"
        /\ regions' = IF refused THEN regions ELSE Restarted(told, incumbent')
        /\ issued' = IF answer THEN <<>> ELSE issued
        /\ orderly' = (orderly /\ (answer \/ Range(issued) \subseteq {0}))
        /\ made' = [r \in Regions |->
                      IF ~refused /\ ~told[r].active THEN 0
                      ELSE IF answer
                      THEN made[r] + MadeBy(issued, r)
                      ELSE made[r]]
        /\ UNCHANGED <<policy, strategy>>

RegionsNext ==
    \/ \E b \in RegionBatches :
        \/ \E ids \in {NoRegions} \cup [1..Len(b) -> Regions] : TellDirect(b, ids)
        \/ \E answer \in BOOLEAN : Tell(b, answer)
        \/ TellFails(b)
    \/ \E r \in Regions, row \in Row : RestartRegion(r, X(row))
    \/ \E n \in 1..MaxArms : AskInit(n) \/ Ask(n)

RegionsSpec == RegionsInit /\ [][RegionsNext]_regionsVars

----------------------------------------------------------------------------
(* Properties                                                              *)

\* Every variable holds a value of its type.
RegionsTypeOK ==
    /\ policy \in Policies
    /\ {strategy, exploring, orderly} \subseteq BOOLEAN
    /\ regions \in [Regions -> [center : {Middle} \cup {X(row) : row \in Row},
                                length : Nat, best : {NeverImproved} \cup {Y(row) : row \in Row},
                                succ : 0..(SuccTolerance - 1), fail : 0..(FailTolerance - 1),
                                active : BOOLEAN, trials : Nat]]
    /\ explored \in 0..NumInit
    /\ pending = NoRegions \/ (pending \in Seq(Regions) /\ pending # <<>>)
    /\ incumbent \in {<<>>} \cup Row
    /\ outcome \in {"none", "ok", "refused", "err"}
    /\ issued \in Seq({0} \cup Regions)
    /\ made \in [Regions -> Nat]

\* "Best observed scalar value per region": a region is centered on a row that
\* was observed to have its best value, however rows of a batch compete and
\* whatever other regions made of them.
CenterHasBest ==
    \A r \in Regions : regions[r].best # NeverImproved =>
        <<regions[r].center, regions[r].best>> \in Row

\* Between the calls of the strategy every region is in use: a tell restarts
\* what it has shrunk, and no refused or failed tell leaves a region behind.
EveryRegionActive == strategy => \A r \in Regions : regions[r].active

\* "Number of explored trials generated by each region": as long as an ask of
\* regions is answered before other rows are told, each region has the rows it
\* made since its restart, through failed tells, asks that were never answered
\* and rows that nobody asked for.
CreditIsOwn ==
    strategy /\ orderly => \A r \in Regions : regions[r].trials = made[r]

=============================================================================
