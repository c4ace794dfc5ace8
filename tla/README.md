# A TLA+ development of ennbo

ennbo is a Rust library for Bayesian optimisation with epistemic nearest
neighbours. `ennx` is the optimizer and the model, `bpann` the disk index it
keeps its observations in, `ennx-py` the Python binding. This directory holds
TLA+ models of the parts of it whose order of effects matters, the TLC
configurations that check them, and proofs, for every value of the constants,
for the parts that run threads, survive a death, keep the books of a tell, hold
the trials and answer a posterior.

## Inventory

| component | state | operations | hard behaviour | what makes it correct |
|---|---|---|---|---|
| flush controller (`ennx/src/backend/flush_controller.rs`, `backend/mod.rs`) | data behind an `RwLock`, one job slot, `last_error` | wait_for_flush, schedule_background_flush, ensure_index_sync, persist, add, drop | a worker thread builds a clone of the index under a read guard and publishes it under the write guard; callers share `&self` | no flush escapes the slot, none overlaps an append or a synchronous sync, counters agree, every call returns |
| disk work directory (`bpann/src/backend.rs`, `observation.rs`, `index/persist_atomic.rs`, `ennx/src/y_bounds.rs`) | row files, `num_obs.bin`, `metadata.json`, `indexed_rows.bin`, `index/{header.json,pages.bin}` | open, append, sync, persist, drop | five files, written one after the other; a death or an error between any two | acknowledged rows survive, the index covers each row once, the directory opens again |
| incremental index (`bpann/src/index/sync.rs`, `build.rs`) | fragments over contiguous rows, pending centroid, scale, small-n cache | append, sync, compaction, reset, persist, search | fragments are built four ways, merged, and searched together with a tail that is not indexed | fragments list the indexed rows once, a search that scans is exact, a pending row is never missed |
| page tree and search (`bpann/src/index/{page,kmeans,search,sync_forest}.rs`) | pages, child ids, skip edges | build, merge, beam search | renumbering, candidate cuts, clusters that do not split | each row in one leaf, every leaf reachable, a build returns |
| optimizer (`ennx/src/optimizer`, `strategy/mod.rs`) | strategy, trust region, tracker, row count | ask, tell | a tell runs through surrogate, tracker and trust region and may fail in each | they agree on how many rows there are and on the best |
| incumbent tracker (`ennx/src/incumbent_tracker.rs`) | count, best value, best indices, sampled y | tell, rebuild, reset | incremental, rebuilt when counts differ | the best observation |
| TuRBO trust region (`ennx/src/trust_region.rs`) | length, counters, watermark, history range | update, restart | counters and tolerance depend on the order of tells | length stays in its range, best follows the incumbent |
| surrogate (`ennx/src/surrogate.rs`) | model, fitter, params | fit, fit_append, flush | rows stored before the fit that may fail | after an Err nothing, or everything, is stored |
| multi trust region (`ennx/src/optimizer/multi_tr.rs`) | regions: center, length, counters, credit | allocate, select, tell, restart | which region accepts a row while centers move | arms add up, the documented acceptance policy |
| MORBO trust region (`ennx/src/morbo_trust_region.rs`) | weights, ranges, raw incumbent, length | ask (resample, rescale), tell | best values are scores under weights and ranges that move | ranges contain what was told, the best value is the center's score now |
| trials (`ennx/src/trials*`) | arena of rows by slot, history, center, one pending trial, device copy of the history | ask (eager, lazy, indexed), tell, replace, archive | slots are reused, rows are written late, the device copy is extended in place | every record names the row it was measured on |
| resident forward (`ennx/src/forward_metal.rs`, `forward_program.rs`, `kda_moe.metal`) | buffers of a decoder, bound row, recurrent state, one round | bind, prepare, reset, decode, ask, tell | buffers outlive candidates, weights are made up from a seed | an answer comes from the pending trial's row and its own tokens |
| in-memory model and posterior (`ennx/src/model.rs`, `backend/in_memory.rs`, `index.rs`, `knn`, `posterior/{neighbor,tie_break}.rs`) | rows, scale, engine, stale flag, synced count | add, posterior, conditional posterior | callers share `&self` while one rebuilds; ties at the cut | the nearest rows, as if what-if points had been added |
| engines of the index (`ennx/src/knn`) | rows on host and device, scratch buffers, a kernel chosen once, Auto's decisions | rebuild, add, search | rows added in place, buffers of earlier searches, tiles and merges, ties, a race whose result is kept | each search finds the nearest rows |
| candidates and choice of arms (`ennx/src/candidates.rs`, `acquisition.rs`, `util.rs`, `strategy/mod.rs`) | Sobol position, candidates, segments, scores | generate, predict, select | one pass over the candidates of all regions, ties, fronts that are cut, a surrogate that refuses or panics | arms are of their region, near its center, none worse than one left out |
| configuration (`ennx/src/config.rs`, `optimizer_factory.rs`, `ennx-py/src/py_optimizer.rs`) | | factories, overrides | overrides that have no effect | what an ask is made with is a configuration somebody can build |
| fitter, dense kernels | numeric buffers | | floating point, foreign libraries | out of TLC's reach |
| Python package, build files, benchmarks | | | | no protocol |

Components call each other in one direction. The Python binding calls the
optimizer; the optimizer calls its strategy, which calls the surrogate, then
the incumbent tracker, then the trust region; the surrogate calls the model,
the model its backend; the disk backend calls the flush controller, the only
part that starts a thread, and `bpann`. Shared state between threads exists
only behind the controller's locks.

`PROJECT.json` lists every component with its status, the hazards with the line
where each bites, the runs, the mutants that show that each property can fail,
and the map from definitions to source lines.

## Plan

The order is that of the damage a mistake does: first the part that runs
threads, then the part that has to survive a death, then the bookkeeping that
has to agree across components, then the numeric structure of the index.

| step | module | composes | abstract specification | runs | theorems | state |
|---|---|---|---|---|---|---|
| 1 | `FlushController` | locks, callers, workers, counters | `IndexedLog` | `flush_safety`, `flush_liveness` | invariance, the four safety properties, refinement | done, proved |
| 2 | `DiskStore` | row files, sidecars, index files, model metadata | | `disk_safety`, `bounds_reopen` | invariance, the four safety properties | checked, proved |
| 3 | `AskTell` over `TurboLength` | strategy, surrogate, tracker, trust region | | `ask_tell` | invariance, types, the four safety properties | checked, proved |
| 4 | `MorboTell` over `TurboLength`; `OptimizerTell` composes 3, 4 and 5 | weights, ranges, tracker, region | | `ask_tell` | invariance, `RangesCoverRows`, `BestIsCentersScore`; the composition implements each part | checked, proved |
| 5 | `MultiTrustRegion` over `TurboLength` | regions, allocation, acceptance, the experimental strategy | | `ask_tell` | invariance, types, the three safety properties | checked, proved |
| 6 | `KMeans`, `PageTree`, `IncrementalIndex` | partition, pages, fragments, search | a linear scan, as a definition | `incremental_index`, `kmeans_root` | invariance, types, `FragmentsWellFormed`, `PlacedByOwnRows`, `FragmentsBounded`, `TailNeverMissed`, `ExactWhenScanned` | checked, proved but for when k-means ends |
| 7 | `TrialSearch` | slots, history, device copy, caller's archive | `TrialLog` | `trial_search` | invariance, types, the three safety properties, the refinement | checked, proved |
| 8 | `ResidentDecoder` over `TrialSearch`, `Perturbation` | session, decoder buffers, search | the pending trial's row | `resident_decoder`, `seeded_forward` | invariance, `BoundForwardIsTheTrial`, the records under sessions | checked, proved |
| 9 | `EnnModel` | callers, backend, engine, posterior | neighbours of all rows, as a definition | `enn_model` | invariance, `AnswersAreNearest`, `ConditionalIsAsAdded` | checked, proved |
| 10 | `TrialKernels` over `Workgroup` | workgroups, dispatches, the engines' buffers | the pass on the CPU, as definitions | `trial_kernels` | none, sums and sorting are folds | checked |
| 11 | `WeightSelect` over `Workgroup`; `DeviceSelection` composes 10, 11, 12 and 14 | caller's cache of words, moves, routes | the choice by the models in full | `trial_kernels` | none, words are bits of `Bitwise`, which has no place in a proof | checked |
| 12 | `DecoderLayer` over `DecoderKernels`, `DecoderPrograms`, `ModelPackage` | package, dispatches, kernels, buffers | the layers on tensors, as definitions | `trial_kernels` | none, tensors are folds | checked |
| 13 | `AskArms` over `Candidates`, `Configuration`, `ArmChoice`; `SurrogateAsk` composes 9 and 13 | design, regions, surrogate, choice | the best that are near, as definitions | `enn_model` | none yet, Pareto fronts are folds | checked |
| 14 | `KnnScan` over `Workgroup` | the index's engines, rows, buffers, Auto's memory | the sorted rows, as definitions | `trial_kernels` | none, sorting networks are folds | checked |

`DiskStore` leaves the question when a sync is due to `FlushController`, which
leaves the files to `DiskStore`; `AskTell` uses a store that may fail, which is
what both promise.

What the proofs have in common: an invariant of a run is seldom inductive, so
each proof module defines the conjunction that is, and one lemma per action, or
per conjunct, shows that a step keeps it. What
a loop over a batch computes is a recursive function over `0..n` in the model
(`TrackerUpTo`, `ToldUpTo`), and the proofs follow it by induction in the form
of a least counterexample: `UpTo` and `Iterated` in `NumberFacts`, which
rest on the well-foundedness of the natural numbers. The last step puts the
facts together with temporal logic.

Left to TLC are: liveness, which needs ENABLED; when the k-means of
`IncrementalIndex` has an outcome (`SyncReturnsUnlessCrowded`), a statement
about what iterations reach; the modules that
hash or pack bits (`Perturbation`, `WeightSelect`); `TrialKernels`, `KnnScan`, `DecoderLayer` and `AskArms`,
whose properties compare two computations over rows, tensors, candidates and
fronts.

## FlushController

A caller is a thread that shares the backend; `pc` is the place in
`flush_controller.rs` it has reached, `op` the call it runs, `snap` and `held`
are its locals. A worker is a spawned flush. The counters `len`, `indexed`,
`pending` and `dirty` are those of the `BpannBackend` behind the `RwLock`;
`job` is the slot, `lastError` says whether there is a stored error.

- `wait_for_flush` is `TakeJob`, `Join`, `StoreError`, `DrainError`: the handle
  leaves the slot before the join, so a second waiter finds nothing to wait for.
- `schedule_background_flush` is `CheckError`, `Snapshot`, `SlotCheck`, `Spawn`,
  `StoreJob`, `JoinSpare`; at the hard threshold it waits and runs `HardSync`.
- A worker locks for reading, builds, locks for writing and publishes
  (`WorkerLock`, `WorkerBuild`, `WorkerPublish`).
- `ensure_index_sync`, `persist`, `add` and `drop` wait and then take the write
  guard (`EnsureIndexSync`, `PersistIndex`, `AppendRows`, `AppendRefused`).

A section under the write guard is one step: nobody sees the data in between.
Read guards held for a while are in `readers`. A writer that finds readers is
`queued` and keeps new readers out, as the futex lock of `std` does. `add` and
`drop` take `&mut self`: they begin only when no call runs and no call begins
beside them. Rows are counted, not stored. The ghost `clean` says that no write
section has failed or panicked part way; the counter is allowed to differ
after one.

`flush_safety` runs three callers and three workers with batches of up to two
rows and two rows in all. Two schedulers race for the slot while a third
caller waits, searches or adds; a third worker is needed for a spare handle
next to one in the slot and one being joined. Soft 1 and Hard 2 make both
paths reachable with two rows. `flush_liveness` runs two of each without
symmetry (it would be unsound for liveness). It assumes weak fairness of every
caller that is inside a call and of every worker: the operating system runs
runnable threads. Nothing makes a caller begin a call. A queued writer keeps
readers out, so strong fairness is not needed.

### Proofs: FlushController

`FlushControllerProofs` proves for any sets of callers and workers, any
thresholds with `Hard >= Soft > 0` and any bounds that the invariants of
`flush_safety`, its action property and the refinement of `IndexedLog` hold.
The safety properties are not inductive. `FlushInv` is the conjunction of

- `TypeOK`;
- `Control`: which call may be at which label, who holds a handle or a guard,
  that an exclusive call is alone, that a handle belongs to one place only;
- `Counts`: the counter agrees as long as `clean` holds, and a worker in
  flight was built from the rows that are still the rows;
- `PathsApart`: a worker is only spawned for a pending count below `Hard`, the
  count cannot grow while a worker lives, so a caller on the hard path and a
  worker never meet, nor do two workers and an empty slot outlast all calls.

`PathsApart` carries the argument: `wait_for_flush` alone does not ensure that
no worker runs, since another waiter may have taken the handle. One lemma per
conjunct shows that a step keeps it, with one case per action. The liveness
properties stay with TLC: the prover does not do ENABLED.

## DiskStore

One handle works on a directory. `step` is the file operation that comes next,
`op` the call it belongs to. The files are `xs`, `ys` (a slot that was never
written is `NoRow`), `numObs`, `meta`, `sidecar`, `header` and `pages`; the
handle keeps `xN`, `yN`, `frags`, `indexed`, `dirty`, `bounds`. `fs::write`
is a truncation and a write; the file is `Torn` in between. An append to a
mapping, `num_obs.bin` included, is one step. Every file operation has a
variant that fails, and `Crash` ends the process between any two. What was
written survives: the death of a process is modelled, a power failure is not,
and the code does not sync for one either.

A model that finds another number of rows than its caller brought is a
`reopen`: after the metadata is written and before the bounds are,
`new_with_options` syncs the index to all rows (`ReopenSyncs` in `MetaWrite`, and
the sidecar of the operation `resync`). Where that sidecar or the bounds cannot be
written the model is not handed out, and its backend persists as it is dropped.

- `acked` is what the last open or add that returned Ok promised.
- `mixed`: a failed add left an x without its y and a later count covers it.
- `interrupted`: a persist died or failed part way, or took in rows a failed
  add had left. `IndexCoversOnce` and `SkippedRewriteIsSafe` do not hold after
  one: pages renamed before the header make the next open index a row twice.
  That is left as a hazard without a property, and so is the mixed row.

`disk_safety` uses two contents, three slots, batches of up to two rows, one
failing operation and two deaths. Three slots are the least that give two
fragments with a merge and a row after them; two deaths let the second hit the
recovery from the first. The two contents are symmetric. `bounds_reopen` needs
one row content and two slots.

`bounds_reopen` finds that dropping a model rewrites `metadata.json` through a
path that knows nothing of the output bounds: the reopened model has identity
bounds. The test that asserts otherwise persists explicitly first.

A failed write of `header.json` leaves it truncated, the rollback restores
`pages.bin` only, and the index does not open again. `WholeFilesOpen` is about
whole files and leaves that case to the list of hazards.

### Proofs: DiskStore

`DiskStoreProofs` proves `DurableRows`, `IndexCoversOnce`,
`SkippedRewriteIsSafe` and `WholeFilesOpen` for any contents, capacity,
thresholds and number of failures and deaths. The assumptions are those of the
module: a batch fits the store, and the marks for torn and unwritten slots are
no contents. The properties speak of what the directory says between calls;
a step of a call sees the files one by one. `DiskInv` therefore says for each
place of a call what is written already:

- `OrderInv`, `ControlInv`: `train_y` and the index are never ahead of
  `train_x`, and which operations pass through a step.
- `RowsInv`: no count on disk exceeds the rows that have an x and their own y,
  so that a death loses no row that is counted; and what was acknowledged is
  counted in `num_obs.bin`, the only count left while `metadata.json` is torn.
- `IndexInv`: unless a rewrite was interrupted the fragments in memory cover the
  indexed rows once, and so do header and pages, or, between the two renames,
  the pages under a header that is not renamed yet and the saved pages a
  rollback puts back. No count of indexed rows is below the header's but for 0,
  with which the index is not opened: that is what makes a skipped rewrite safe.
- `PagesFirst`: a header never stands without pages.

## AskTell

One action is one `Optimizer::tell`: `TellInit` in the initial design,
`TellTurbo` and `TellMismatch` after it, `StoreFails` and `FitFails` for the
two places where the call returns Err with its rows stored, `TellRefused` for
an Err before that. `Observe` is `tell_common`: store, fit, tracker, incumbent.
A row is its objective. `ys` and `num` are the rows of the model and the count
it reports; `tracker` and `incAt` are the incremental tracker and
`incumbent_idx`; `tr` is the TuRBO region with `prev` as `prev_num_obs` and
`hist` as the range from `hist_ymin` to `hist_ymax`. A NaN compares as in the
code: `>` is false, `total_cmp` puts it on top. Lengths are integers in a unit
of which the configured values are multiples. The strategy is TuRBO alone or
hybrid, with or without a surrogate, and the first tell may find a work
directory that has rows in it, in which case the model drops the rows told.

Ghosts: `clean` until a tell fails with its rows stored; `resumed` when the
rows told were dropped; `blind` when there were as many rows in the directory
as were told, so that the tracker's count agrees and it is not rebuilt.
What the properties except is what goes wrong there: after a failed tell in the
TuRBO phase the watermark never catches up and every later tell is refused;
without a surrogate a NaN is the incumbent for good; a blind resume keeps
the wrong incumbent until a better row comes. An ask changes nothing a tell
reads except the arm count, which the tell overwrites first. The range that
scales the improvement margin leaves out the initial design and what came
before a restart; no property judges that.

`ask_tell` makes up to five storing tells with one fault. The objectives 5000
to 5003 improve on each other by more than the margin of 1e-3 of the range
until a 0 is told, after which they are within it. The failure tolerance is
four for one arm and one for four arms; three improvements expand the region,
one batch of four zeros halves it below `LengthMin`. Expansion, restart,
recovery of the incumbent after a failed tell, refusal after a resume and the
lasting refusal after a failure have all been seen to be reachable within
these bounds. The run also holds `MorboTell`, see there.

### Proofs: AskTell

`AskTellProofs` proves types, `LengthInRange`, `NeverRefused`,
`IncumbentIsBest` and `BestIsIncumbent` for any objectives, batches, lengths
(with `0 < LengthMin <= LengthInit <= LengthMax`), initial designs and bounds,
in three layers:

- `AskTellInv`: `NeverRefused` says nothing about the state a tell finds, so the
  invariant adds what it relies on: while nothing has failed, the row count is
  the number of rows and the watermark is at it, or 0 if no batch of the TuRBO
  phase has come yet; the initial design, which cannot be entered again, leaves
  it at 0. `LengthInRange` needs that a region which has just been updated is at
  most `LengthMax` long, so that the restart only has to repair the lower end.
- `ObservedInv`: the tracker has been told a prefix of the rows (`RightUpTo`):
  its indices are those of the greatest of them, and with a NaN in front they
  are all of them, which is why a surrogate is required to refuse one. A batch
  keeps that row by row. With it the incumbent, the first of the tied rows
  under `total_cmp`, is one no row is greater than.
- `BestInv`: the region's best is the incumbent's objective or was reset by a
  restart. It adds that the history range stays bounded and the best value never
  comes from a row of a failed tell.

`OptimizerIsTurbo` carries this over to `OptimizerSpec`, which `ask_tell` runs.

## MultiTrustRegion

`regions` is the structure of arrays of `multi_tr.rs`, one record per region.
Under the experimental strategy (`strategy`) the actions are `AskInit`, `Ask`,
`Tell` and `TellFails`; a caller of its own, such as the Python loop, has
`TellDirect` and `RestartRegion` and any sharing policy. `ToldRegions` folds
`AfterBatch` over the regions in order, since nearest-center acceptance looks
at centers that earlier regions may have moved. The strategy always shares. A
row is a point on a line with an objective; any rows may be told, whoever asked
for them. Means are left out, so `Allocations` gives every split that some
ranking of the regions can give: one arm each for some of the regions, or at
least one for each. The rows a failed `tell_common` has stored count for the
incumbent, which the next tell looks up.

Ghosts: `issued`, the region behind each row of the last ask; `made`, the rows
told that a region made since its restart; `orderly`, until rows other than
those of the last ask are told while it is unanswered. Two asks and one tell
end it: the second ask replaces `pending_regions`, and rows are then credited
to regions that did not make them.

The run (`ask_tell`) uses two regions, five rows on a line of five points, one
point with two objectives, batches of one and two rows, asks of one and two
arms (fewer arms than regions and as many) and five tells. Tolerances of two,
a length of 8 with a minimum of 5 and a maximum of 16 make expansion up to the
cap (four successes) and a shrink with a restart (two failures) happen in that
many tells. Refused batches, regions at the maximum, regions out of use and
regions with several credited rows have been seen to be reachable. The run
shows that `experimental_restart_all_regions` has nothing to do in an ask:
`EveryRegionActive` holds between all calls. What it does not claim: a region
that restarts at the incumbent has no best value and moves away with the first
row inside it; a region that made none of the rows counts a failure.

### Proofs: MultiTrustRegion

`TrustRegionProofs` proves types, `CenterHasBest`, `EveryRegionActive` and
`CreditIsOwn` for any regions, rows, lengths and tolerances and for both kinds
of callers. `RegionsInv` adds to them that counters stay
below their tolerances, that the strategy shares its regions (`SharedInv`),
and, while the calls are `orderly`, that the batch a tell credits is the one of
the last ask or of nobody (`PendingInv`): a failed tell leaves the pending
regions with the rows they made, and no refusal is possible. A tell goes through
the regions in order, and which region accepts a row depends on where those
before it have moved; `ToldUpTo` is the regions after the first n of them, and
the induction shows that the regions up to n have been told once and those
after n not at all. `CreditIsOwn` counts the rows of a region in a batch
(`MadeBy`) and needs that the ghost `made` and the credits are reset together.
`OptimizerIsRegions` carries this over to `OptimizerSpec`.

## MorboTell and OptimizerTell

An optimizer owns one trust region for life. With several objectives it is
`MorboTrustRegion`, which scores rows with Dirichlet weights relative to the
ranges of what was told and hands the scores to a TuRBO region. `MorboTell` has
`MorboAskInit`, `MorboAsk`, `MorboTellInit`, `MorboTellTurbo` and
`MorboFitFails`; `TurboLength` holds the tolerances both regions share.
`OptimizerTell` is the disjoint composition of these two and of
`MultiTrustRegion`: `kind` picks the machine, the others stay at an initial
state.

A row is a pair of integers. Scores are integers: `ScoreUnit` is a multiple of
every range, weights have a common unit, and `AlphaInverse` stands for alpha.
The tracker is a function of the rows (the union of the top m of each metric);
that its counts can lag is `AskTell`'s subject, and so is a work directory with
rows. What differs from TuRBO, as in the code: `tell_common` uses the tolerance
of the call before; the initial design moves the region and cannot restart it;
a restart clears the ranges and reads all rows again, also those of a tell that
failed (ghost `missed`).

`BestIsCentersScore` does not say that the best value is the score of the best
row: a tracker of one row per metric drops a balanced row that is behind the
best value, and the region then measures improvements from a value no candidate
reaches. That has been seen to be reachable, and so have a restart, an
expansion and a shrink below the minimum in the initial design. The bounds:
four points, one balanced and best in neither metric, two weights, four rows,
single rows and one pair, trackers of one row per metric and of all rows, asks
of one and four arms.

### Proofs: MorboTell

`TrustRegionProofs` proves `RangesCoverRows` and `BestIsCentersScore` for any
finite set of points with natural coordinates, any weights and lengths.
`MorboInv` adds that the watermark is never ahead of the rows, so that a tell
which gets to the region has rows that are new to it, and that there is no best
value without a row behind it (`RegionBehind`). The range of a batch is the
least and the greatest of a column; `WidenedAppend` shows that widening by one
batch after another gives the range of their concatenation. That the best value
is the center's score is kept by each action that moves weights or ranges, since
each scores the row again in the same step. `OptimizerIsMorbo` carries this over to
`OptimizerSpec`.

## IncrementalIndex, PageTree and KMeans

`KMeans` gives every partition that Lloyd's iterations may end in, for every
initial draw. `PageTree` builds an index from rows: one leaf, a k-means tree, a
forest with centroids and one without; it renumbers and merges indexes, makes
skip edges and searches: exhaustively, or by beam, skip edges and a cut.
`IncrementalIndex` is the handle: `AppendRows`, `EnsureIndexSync`,
`MarkIndexStale`, `Search` (which only fills the cache of the small path) and
`PersistAndReopen`. `Found` is the answer of a search, both legs merged.

A leaf remembers in `of` whose mean places it, so that a centroid of other
rows shows. Rows lie on a line at multiples that every mean divides. A scale
divides rows and query. The code draws again when a k-means split leaves one
group; where no draw can split there is no tree, and `Synced` is empty. That is
a call that never returns: `SyncReturnsUnlessCrowded` says it happens exactly
for a one-tree span with more equal rows than a leaf holds.

All limits are constants, scaled down so that five rows reach each of the four
builds, compaction, skip edges, the candidate cut and both search paths;
`kmeans_root` takes limits under which a merged tree is entered. Search results
are judged where the code scans (`ExactWhenScanned`), and the tail
always (`TailNeverMissed`). The cache survives a change of scale without an
append (`StaleCache`); the model above changes the scale with an append only.

`kmeans_root` finds that the root of a k-means tree is taken to be the page
that was numbered last, a leaf. A search of a tree too large to scan sees that
leaf and what its skip edges name.

### Proofs: IncrementalIndex

`IncrementalIndexProofs` proves types, `FragmentsWellFormed`, `PlacedByOwnRows`,
`FragmentsBounded`, `TailNeverMissed` and `ExactWhenScanned` for any rows and scales, any number of rows and any
limits that `IncrementalIndexAssumption`, `PageTreeAssumption` and
`KMeansAssumption` allow. `IndexInv` says that there are cut points from 0 to
`indexed_rows` such that the i-th fragment indexes the rows between two of
them (`Covers`), that the pending centroid sums up rows of the tail, and that
compaction has kept up. That a fragment is well-formed does not say where the
next one starts: the cuts do, and they turn out to be the sums of the row
counts that the fragments carry. The rows of the pending centroid have to lie
in the tail for a leaf that a later sync places by them to be placed by its own.

The long part is that every way to make an index gives one (`Indexes`): a
leaf, a forest cut every so many rows, a k-means tree and a merge. For the tree,
every outcome of k-means puts each row into one cluster (`SplitAt`), and by
induction over the levels all trees of a batch list its rows once
(`TreesIs`). `RenumberedIs` is what a node of a tree and a merge of fragments
have in common: pages of parts with rows of their own, numbered one after the
other, have ids of their own, and children stay with their part. Compaction is
followed round by round: each leaves fragments that follow each other and fewer
of them, and there are as many rounds as there were fragments (`CompactIs`).

What a search answers follows from the same invariant. Candidates are rows with
their distances, totally ordered, and `TopK` of distinct ones is the beginning
of their order (`TopKSorts`). A candidate's place only grows when there are more
of them (`PlaceGrows`), so the order of what the legs keep starts like the order
of everything they saw (`StartsAlike`): cutting each leg before the merge loses
nothing that the merged answer holds. For `TailNeverMissed` it is enough that a
search walks only pages of its own fragment and names indexed rows with their
distances, however few of them (`CollectIs`, `TruncateIs`, `FragmentSearchIs`,
`IndexedLegIs`); every row of the tail is then beaten by k others or in the
answer. For `ExactWhenScanned`, scanning the leaves of a fragment orders all of
its rows, because the leaves list them (`ScanIs`), each leg keeps all that can be
among the first k, and the fragments follow each other, so no row is seen twice
(`AllScannedIs`, `MergedIsNearest`). On the small path the premise that the cache
is of the current scale (`~StaleCache`) is what the code leaves to its caller.

## TrialSearch and TrialLog

`rows` is the arena with one row per slot, `base` the center's slot, `history`
the records, `pending` the trial, `resident` and `device` the engine's idea of
the records on the device and what is there. The actions are the public
operations of `Search` on the Metal engine: asks that write the row at once or
later, asks through the compact history, tells, replacement and growth of the
caller's archive. A row is a model value and the value of a record is the model
it was measured on, so a slot that holds another row than the one measured
shows as a mismatch. Which candidate wins is free: every seed may.

`TrialLog` knows no slots: a center, a bounded log of models and one offer.
`RefinesTrialLog` maps each record to its slot's row, the center to the base's
row and the offer to what the pending trial stands for, written or not. A
capacity of two, two rows, two seeds, an archive of two and three trials let the log turn over, a
slot be given away and a replacement step over the center. The CPU and OpenCL
engines differ in `ask_multi_tr`, which writes slot 0; see the hazards.

### Proofs: TrialSearch

`TrialSearchProofs` proves types, `HistoryRowsMatch`, `SlotAlwaysFree`,
`DeviceIsCurrent` and the refinement of `TrialLog` for any rows, seeds, capacity
and archive. The mark for no trial is assumed to be no trial. `SearchInv` adds that
the center has a row and that the pending trial has a slot which neither the
center nor a record names, where the row the caller evaluates is or will be
written (`PendingInv`). Records therefore keep their rows. At most one slot
per record and the center's are taken of `Capacity + 2`, so that the next trial
has one (`SlotAlwaysFree`, by counting). The refinement has one step per action: a pending trial maps to the row it
stands for whether it is written or not, so that writing it late is a stutter.

## ResidentDecoder and Perturbation

`ResidentDecoder` extends `TrialSearch` by the decoder: every buffer holds
which rows and tokens its content was computed from, and each kernel is an
entry with the buffers it reads and writes. The search is driven by its own
user or by a `ResidentBoState` session. `BoundForwardIsTheTrial` says that after
bind, prepare and reset the next token depends on the pending trial's row and
on the tokens since the reset, and on nothing else. Two layers are needed for a
model of which one layer is bound; two tokens for a memory.

`Perturbation` has the two hashes, word by word on bytes, since their products
exceed TLC's integers. The instance's tables are computed from them by an
assumption that TLC evaluates. `seeded_forward` finds that the forward kernels
hash a seed differently from the search: an evaluator that regenerates the
trial evaluates another row than the tell records. The test compares them on a
base of zeros.

### Proofs: ResidentDecoder

`TrialSearchProofs` also proves `BoundForwardIsTheTrial`, for any number of
layers, any search and any order of bindings and tokens. The property speaks of
the next token only; what makes it inductive is `DecoderInv`: the invariant of
the search (`SearchInv`), buffers that hold rows and tokens (`DecoderTypes`),
prepared vectors that are the pending trial's (`VectorsOfTrial`), and memories
(the state of the recurrence and the convolutions' tail) that hold
the tokens since the reset or nothing (`MemoryOfStream`). The proof follows a forward pass kernel by kernel, as `Encoded`
does: one lemma per stage says which buffers hold the trial's row and
which the stream, and an induction over the layers (`EachLayerIs`) hands the
hidden vector from one layer to the next. No lemma assumes anything of a buffer
that neither the reset nor an earlier kernel has written: a stale buffer that
the program read would stop the proof there. `RecordsAreRowsUnderSessions` says that
sessions cost the search nothing: its steps are steps of the search or leave it alone.

## TrialKernels

A call of the search is a sequence of dispatches: distances of tiles, scores,
the pick, and the row. Workgroups of a dispatch are actions that run in any
order (`DistanceGroup`, `ScoreGroup`, `PickRegion`, `WriteTile`), the next
dispatch begins when all have run, as in one encoder or one queue in order. A
workgroup is one step: barriers keep its threads together, and what they add up
is a sum over the elements each thread visits, by simd groups on Metal and by
strides on OpenCL. Buffers are variables. They grow, new ones hold `Garbage`,
and `resident` is what Metal believes is in them. `CpuAsk`, `CpuTree` and
`CpuRegions` are the loops of the CPU engine.

A call is first held against the checks of the search (`Admitted`): one that is
refused dispatches nothing. `WriteRow` is the host's write of a row. The engine is
what `EngineFor` makes of the backend and the build. `ask_multi_tr` is one
dispatch on Metal; on OpenCL it asks region by region, as the CPU does, each
writing slot 0 (`NextRegion`).

`PassIsTheCpus` compares index and score of every call with the CPU's, and the
rows: nothing but the trial's row changes, and it is the perturbed center, also
for a trial in the center's own slot. Five sequences of calls make buffers grow
under a tree that is asked again, a choice outlive a lazy row, draws follow
other draws, a recorded row be replaced, and refused calls come in between;
three candidates, three records in batches of two, a packed leaf of three codes
in two tiles and a plain one make the last pair, batch, byte and tile partial;
four threads in two simd groups of two.

What a code stands for is modelled twice, as it is written twice: `Decode` is
`decode_code` of trials.rs with its branches for what is no number, `DeviceDecode`
that of the kernels, which have none. Values are whole numbers of the smallest step
of the encoding (a half for FP4, a subnormal for FP8), so that distances stay
exact; the weight of a leaf takes the scale with it. An infinity counts as `NaN`:
the CPU inserts neither among the nearest. The five searches have leaves of
integers, FP4, e4m3 and e5m2, with codes at their ends, at a change of sign, below
and above the first exponent, and rows and seeds that hold or make a code that is no number.

**The two decoders disagree on FP8.** The CPU decodes 0x7F and 0xFF of e4m3 to NaN
and the last exponent of e5m2 to NaN or an infinity (trials.rs:65 and 78); the kernels
(trials/trials.metal:13-33, trials.cl likewise) take these codes for
finite numbers. `Leaf::new_with_encoding` admits such leaves and no row is
checked for such codes; a perturbation makes one of a neighbouring code. So
`PassIsTheCpus` has a premise, `cpu.numbers`: no distance of the call is NaN on the
CPU. Integers and FP4 always meet it. Without it TLC finds the property violated: a
candidate with such a code has no record near it on the CPU, so that UCB prefers it
for all that is not known of it, while the device scores it by its records. No
document or test says which is meant (the tests that compare a device with the CPU use integer
codes), so this is stated here and under the hazards, and not listed as a finding.

Scores are integers: sums in another order would differ by rounding, which the
tests of the code allow for too. Histories fit the arrays of the OpenCL kernels
(16 records, where the search takes 128). `write_centers` of OpenCL frees the
vectors its writes read when they do not block; `torn` marks the calls where
the device comes too late, of which nothing can be said.

## WeightSelect and DeviceSelection

`WeightSelect` is a caller's round of the sparse functions of `py_weights.rs`:
`Draw` (moves as a mask per touched word), `Fetch` (the words that some row
touches and the cache lacks), a selection on packed rows, and `Observe`, which
may accept the move into the model: then the cached words and every move are
changed along. A selection is `Select` on a named engine, or, under Auto on
Metal, `Calibrate` where the size of the work has no route yet and
`SelectRouted` where it has. A bit string is a set of bits. The engines differ
in how they add distances up; the scores are those of the CPU from there on.

`SparseChoiceIsDense` compares the pick with the one that reads every parameter
of every model from the layout. Words of four bits, codes of one and two bits,
a leaf that ends inside a word, draws that cancel and two rounds over the same
or other words make blocks join, rows grow and caches be partly filled. Three
of the five asks leave `neighbors` above what a device takes in the second
round. A call under Auto is then refused by the device the first time, although
the CPU has answered, and a size routed to the CPU answers.

Through Python codes are integers. The Rust API also takes codes with a scale;
the CPU decodes them and the device kernels multiply the plain code by the
scale. That is not modelled.

`Workgroup` has what the kernels and the CPU passes beside them share.
`DeviceSelection` is the disjoint composition of the four programs of the run
`trial_kernels`, which share no state: the trial search, this selection, the
forward path and the search for neighbors. A behaviour is one of them.

## KnnScan

`ENNIndex` calls the engine that `KnnBackend::new` picks for a driver and a
build (`KnnEngines`): `RebuildRows`, `AddRows`, and searches. A search on the
device starts with `MetalSearch` or `OpenClSearch` (buffers, and on the
device-native engine the choice of a distance kernel), then three dispatches
for each tile: `ScanGroup` (distances), `LocalGroup` (a sorting network over the
tile) and `MergeGroup` (another over the best so far and the best of the tile);
`ReadScan` reads the result. Workgroups run in any order. Metal keeps its
buffers and OpenCL makes new ones; Metal adds rows in place up to a power of
two. `AutoSearch` runs both the CPU and the device, keeps the faster if their
rows agree, and remembers it for work of that size until a rebuild. Which is
faster is open. `FaissSearch` answers with the nearest rows and either end of
those that tie; `USearchSearch` looks through a shortlist that may miss a row or
take the next one, unless it is long enough for all. A call with rows of another
length, or for more neighbors than a kernel sorts, is refused, the latter not
where Auto has settled on the CPU.

`NearestRowsFound` says what every answer has in common: different rows with
their distances, none left out that is nearer (with a shortlist: only if it
holds all rows), the earlier of two that tie on a device, and the columns beyond
the rows filled up with the last. Tiles of eight rows for four threads, nine
rows, three dimensions and up to four neighbors make a second tile with one
row, ties across tiles, a capacity that is reached and exceeded, searches that
are smaller than the buffers, and sums of lanes that leave a dimension over.

Distances are integers: f32 rounding, infinities and NaN are left out, and so
are the failures of Faiss and USearch, which are external, and `exclude_nearest`.

## DecoderKernels, DecoderPrograms, ModelPackage and DecoderLayer

`ResidentDecoder` says which buffers a forward pass depends on; these four say
what it computes. `DecoderKernels` has the kernels of `kda_moe.metal` thread by
thread on flat buffers: what a thread reads, what it writes and where.
`DecoderPrograms` has the buffers a layer allocates and the dispatches each
call encodes, with the slots they are bound to. `ModelPackage` has what
`PackedModel::open` and the validations of the requests accept; the writer of a
package is not part of the repository, so `Placed` and `Package` lay one out
from how it is read. `Supported` is what the kernels need beyond that: the
validations also accept keys and values of different widths, keys wider than
the 128 cells a thread keeps, more than 32 experts and experts of different
widths. `PackageAssumption` is evaluated by TLC.

`DecoderLayer` is the model or the executor from call to call. A call puts its
dispatches into `queue` and the next call waits for them; `Dispatch` runs one,
its threads in ascending or descending order or all on the same memory, so
that a thread that reads what another of its dispatch writes shows. `truth` is
what the calls have to have computed so far, on tensors, by layers that know
nothing of buffers. `ForwardIsTheLayers` compares the two whenever the queue is
empty: hidden rows, recurrent state, the history of the convolution, logits and
the token picked. Ties between tokens go to the lower lane first, so the
property asks for one of the likeliest.

Numbers are integers modulo a prime. Sums and products are exact, every other
real function is some fixed function of its argument (`Real`); two ways of
computing the same expression agree exactly then, and a wrong index, weight,
order or operand shows. Rounding does not. A batch is one sequence, which the
decoder requires and `kda` takes for granted; `kda` and `moe` of an executor
skip the convolution and the unit length of query and key, and `truth` does
too. The comment at the recurrence in `kda_moe.metal` writes the update with
the state before it decays; the code decays first, and so does `NextState`.

The instance has two layers, two heads with keys and values of width two,
four hidden features, three experts of which two are taken, a vocabulary of
five, packed rows of four and eight bits with a partial last byte and a partial
last group, and a prefill of three tokens. Two callers decode with a model,
across a bind, a reset, seeds other than the one prepared and layers without a
token; two drive an executor. A layer needs two heads and two experts for an
index to be wrong, two tokens for a state, four for the history to turn over.

## EnnModel

Two callers share the model; `holder` is the lock around a rebuild, and a
search reads the engine's size, the scale and the rows under a lock each. A
scale is identified with the number of rows it was computed from. An engine
may return any of the rows that tie at its cut, which is how FAISS is taken;
distances are exact integers, so the rounding of f32 engines, whose pool the
code refines in f64, is left out. The engines themselves are `KnnScan`. Within
`ensure_index_sync` the branch that adds pending rows to an engine of the same
size is never taken with rows to add.

`AnswersAreNearest` and `ConditionalIsAsAdded` compare each answer with a scan
of all rows, in distances: which of two tied rows is taken is open when the
pool does not show the tie. Three points on a line, four rows, two neighbours
and one failing rebuild give ties at the cut, a query on a row, fewer rows than
neighbours and a search between a failed rebuild and the next.

### Proofs: EnnModel

`EnnModelProofs` proves `AnswersAreNearest` and `ConditionalIsAsAdded` for any
callers, points, rows, numbers of neighbours and failures, from two halves.

The first is about callers (`SyncInv`): whoever is past `ensure_index_sync`
meets the engine, the count and the scales of these rows and nobody holds the
lock; one thread rebuilds, with `scale_x` only what an add has marked; without
it, an engine as long as the rows is theirs, since a failed rebuild either
keeps the old engine, which is shorter, or empties it. It follows that a
search never sees what another caller is rebuilding
(`SearchesAlwaysMeetTheRows`).

The second is about neighbours. `Closest(f, k, R)` says that f lists k pairs
of R by distance and leaves none out that is closer than one it lists. Any two
such lists have the same distances (`SameDistances`): otherwise i pairs of one
would have to be among the first i - 1 of the other, which counting forbids. A pool of
the engine, cut or resolved by a row scan, is `Closest` whatever ties it took
(`TopKIsClosest`); so is the merge of the closest rows with the what-if points,
because as many rows are searched as may be wanted (`MergedIsClosest`). That
sorting has a result at all is `SortedIs`: ranks under a strict total order are
different, hence all ranks occur.

`SurrogateImplementsModel` carries this over to `SurrogateSpec`, which
`enn_model` runs.

## Configuration, Candidates, ArmChoice and AskArms

An ask has two steps here, `Propose` and then `Predict` and `Choose`; the
caller holds the optimizer meanwhile. `Configuration` builds what an ask depends
on from a kind and overrides, a partial function; the setups of `MCEnnModel`
are such configurations together with what tells may have left: centers,
length, lengthscales, ranges and weights. With `trust_region = "turbo"` given,
the lengths given beside it have no effect (`config.rs:191`), and several
regions start with the default length whatever is given; `WithRegion` and
`Configured` say so. Values the frontend cannot read, and MORBO with one metric,
build nothing.

Points lie on a grid of four steps to an axis. A uniform number is any step of
its side, a shuffle any order, a permutation any a Fisher-Yates shuffle reaches
from its draws; the Sobol sequence is a constant that can be exhausted, shifted
by the scramble. A model of m metrics is a function of the point
(`Surfaces[m]`), so that equal candidates get equal predictions and ties
happen. `deterministic_choice` depends on a random seed and is any choice.
Only a surrogate of Python has lengthscales.

`ArmsAnswerTheAsk` compares the answer with definitions that do not follow the
code: as many different arms as asked for, each from the segment of the region
`pending_regions` credits and within half a length of its center; no candidate
left out has a greater upper bound or draw, or comes before one taken by the
longest chain of candidates that dominate it, the definition of a front; each
bin of a Latin hypercube has one row; seeds that a spread choice left out are
close to a better one that was taken, or worse than all. The first part holds
when a region has as many candidates as arms: with fewer, which `num_candidates_factor` allows, the answer is short
or repeats an arm while `pending_regions` keeps its length; the tell of a short
answer is then one of the tells `MultiTrustRegion` refuses.

A refusal, a surrogate that fails and an exhausted sequence end an ask without
arms. `ProposePanics` is `Uniform::new` on a side without width, which a
lengthscale too small for `f64` gives: the strategy that `Optimizer::ask` had
taken out is lost. No text promises otherwise, so it is a hazard without a
property.

The setups are some forty points of the product of configurations: each acquisition
with TuRBO and MORBO and one to three metrics (the three routes of a Pareto
choice), each source of candidates, each state of the surrogate, two regions
with one arm for both, one each and two for one. Four candidates for three
arms are the least in which a front is cut and a candidate is left out. A full
product multiplies the states and adds no route. `SurrogateAsk` puts the two
parts the answer of an ask rests on side by side: they share no state.

## What is not modelled

- Numeric code (Gram matrices, posterior means and variances, draws, fits,
  the digits of the Sobol sequence, hypervolume, dense device kernels): floating point,
  foreign libraries and random numbers, where a small instance says nothing.
- Pages as bytes; the bookkeeping of slots under the CPU and OpenCL engines of
  the trial search; entry points of the trust regions that the optimizer
  does not call.
- Growth of row files, the yvar file, `skip_edges.bin`: each follows the file
  next to it. Power failure. Two processes on one directory.
- Options of the index, the fit and the storage, `file_config.rs`, the Python
  wrappers without a step of their own, build files, benchmarks: no protocol.
