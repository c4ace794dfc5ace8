----------------------------- MODULE TrialSearch -----------------------------
(***************************************************************************)
(* The search over quantized model rows (ennx/src/trials.rs, with          *)
(* trials/tree.rs, metal.rs and bpann_history.rs): full rows live in a few *)
(* slots of an arena, the history and the center refer to slots, and a     *)
(* trial is scored and written before it is told.  A model stands for a    *)
(* row's bytes; the value of an observation is the model it was measured   *)
(* on, so that a slot that holds another row than the one measured shows.  *)
(* The caller is modelled with the search: it keeps an archive of rows     *)
(* under the ids of the compact history, and every trial it was given.     *)
(***************************************************************************)
EXTENDS Integers, Sequences, FiniteSets, SequencesExt

CONSTANTS Models,      \* the contents a row may have
          Seeds,       \* a perturbation: its seed and its length
          Perturbed,   \* materialize: the row a seed makes of a row
          Capacity,    \* most records of the history
          NoModel, NoTrial,
          MaxNeighbors,\* bound: neighbours asked for
          MaxTrials,   \* bound: trials of a run
          MaxArchive   \* bound: rows of the archive

Records == [slot : 0..(Capacity + 1), value : Models]

Pendings == [id : Nat, slot : 0..(Capacity + 1), seed : Seeds, materialized : BOOLEAN]

ASSUME TrialSearchAssumption ==
    /\ Capacity \in Nat \ {0}
    /\ MaxNeighbors \in Nat \ {0} /\ MaxTrials \in Nat /\ MaxArchive \in Nat
    /\ Perturbed \in [Models \X Seeds -> Models]
    /\ NoModel \notin Models /\ NoTrial \notin Pendings

VARIABLES rows,      \* the arena: a row per slot
          base,      \* the slot of the center
          history,   \* the records that score a candidate, oldest first
          pending,   \* the trial that waits for its tell
          resident,  \* the history the engine believes its device has
          device,    \* the records on the device
          archive,   \* the caller's rows; id i is archive[i + 1]
          trials     \* the caller's evaluations by trial id, next_id in all

vars == <<rows, base, history, pending, resident, device, archive, trials>>

NoRecord == [slot |-> 0, value |-> NoModel]

-----------------------------------------------------------------------------
\* Slots.

\* Mutant: one slot fewer.
SlotsTight == 0..Capacity

\* One slot for the center and one for the trial, besides the history's.
Slots == 0..(Capacity + 1)

FreeSlots(h) == {s \in Slots : /\ s # base
                               /\ \A i \in DOMAIN h : h[i].slot # s
                               /\ pending = NoTrial \/ pending.slot # s}

FreeSlot(h) == CHOOSE s \in FreeSlots(h) : \A t \in FreeSlots(h) : s <= t

\* Mutant: a replacement does not step over the center.
LoadSlotsFromZero(n) == [i \in 1..n |-> i - 1]

\* The first n slots that are not the center's.
LoadSlots(n) == [i \in 1..n |-> IF i - 1 < base THEN i - 1 ELSE i]

\* The arena and the history after a load of the given models.
Loaded(models) ==
    LET slots == LoadSlots(Len(models))
    IN  [s \in Slots |-> IF \E i \in DOMAIN slots : slots[i] = s
                         THEN models[CHOOSE i \in DOMAIN slots : slots[i] = s]
                         ELSE rows[s]]

LoadedRecords(models) ==
    [i \in 1..Len(models) |-> [slot |-> LoadSlots(Len(models))[i], value |-> models[i]]]

-----------------------------------------------------------------------------
\* The engine.

\* Mutant: what lies behind the resident records is appended, whatever the
\* records before it have become.
SyncHistoryAppends(h) ==
    [i \in 1..Capacity |-> IF i > Len(resident) /\ i <= Len(h) THEN h[i] ELSE device[i]]

\* The device's records once they are brought up to date: appended to when
\* the resident history is a prefix of the history, rewritten otherwise.
SyncHistory(h) ==
    LET start == IF IsPrefix(resident, h) THEN Len(resident) ELSE 0
    IN  [i \in 1..Capacity |-> IF i > start /\ i <= Len(h) THEN h[i] ELSE device[i]]

Score(h) == /\ \E neighbors \in 1..MaxNeighbors : neighbors <= Len(h)
            /\ device' = SyncHistory(h)
            /\ resident' = h

\* The arena with a perturbation of the center written to a slot.
Materialize(r, slot, seed) == [r EXCEPT ![slot] = Perturbed[r[base], seed]]

-----------------------------------------------------------------------------
\* The compact history.

\* What the searches of the candidates found, rank by rank, each row once,
\* as many as the history holds.
Shortlist(per_query) ==
    LET queries == Len(per_query)
        ranks == Len(per_query[1])
        by_rank == [i \in 1..(queries * ranks) |->
                        per_query[((i - 1) % queries) + 1][((i - 1) \div queries) + 1]]
        Take(ids, id) == IF Contains(ids, id) \/ Len(ids) = Capacity THEN ids
                         ELSE Append(ids, id)
    IN  FoldLeft(Take, <<>>, by_rank)

\* The shortlists of two candidates with one or two neighbours each; a
\* search may repeat a row.
Shortlists ==
    LET ids == 1..Len(archive)
    IN  {Shortlist(per_query) : per_query \in UNION {[1..2 -> [1..k -> ids]] : k \in 1..2}}

\* The resolver has the first n rows of a shortlist, and what they are.
Answers(ids, n) == \A i \in 1..n : ids[i] \in DOMAIN archive

Resolved(ids, n) == [i \in 1..n |-> archive[ids[i]]]

-----------------------------------------------------------------------------
Init ==
    /\ \E m \in Models : /\ rows = [s \in Slots |-> IF s = 0 THEN m ELSE NoModel]
                         /\ history = <<[slot |-> 0, value |-> m]>>
    /\ base = 0
    /\ pending = NoTrial
    /\ resident = <<>>
    /\ device = [i \in 1..Capacity |-> NoRecord]
    /\ archive = <<>>
    /\ trials = <<>>

\* ask and ask_lazy on an arena r and a history h: any seed may win.  The
\* caller evaluates the row, or what the seed makes of the center it knows.
Propose(r, h, materialized) ==
    /\ pending = NoTrial
    /\ Len(trials) < MaxTrials
    /\ FreeSlots(h) # {}
    /\ Score(h)
    /\ \E seed \in Seeds :
         /\ pending' = [id |-> Len(trials), slot |-> FreeSlot(h), seed |-> seed,
                        materialized |-> materialized]
         /\ rows' = IF materialized THEN Materialize(r, FreeSlot(h), seed) ELSE r
         /\ trials' = Append(trials, Perturbed[r[base], seed])
    /\ history' = h
    /\ UNCHANGED <<base, archive>>

Ask == Propose(rows, history, TRUE)

AskLazy == Propose(rows, history, FALSE)

\* Mutant: any trial will do.
PendingForAny(trial) == pending # NoTrial

PendingFor(trial) == pending # NoTrial /\ pending.id = trial

\* The arena with the pending row in it.
PendingRows == IF pending.materialized THEN rows
               ELSE Materialize(rows, pending.slot, pending.seed)

MaterializePending ==
    /\ \E trial \in 0..(Len(trials) - 1) : PendingFor(trial)
    /\ rows' = PendingRows
    /\ pending' = [pending EXCEPT !.materialized = TRUE]
    /\ UNCHANGED <<base, history, resident, device, archive, trials>>

\* What a tell keeps of the history.
Kept == IF Len(history) = Capacity THEN Tail(history) ELSE history

\* The caller tells what it measured for any trial it was ever given.
Tell(trial, accept) ==
    /\ PendingFor(trial)
    /\ rows' = PendingRows
    /\ history' = Append(Kept, [slot |-> pending.slot, value |-> trials[trial + 1]])
    /\ base' = IF accept THEN pending.slot ELSE base
    /\ pending' = NoTrial
    /\ UNCHANGED <<resident, device, archive, trials>>

Load(models) ==
    /\ pending = NoTrial
    /\ rows' = Loaded(models)
    /\ history' = LoadedRecords(models)
    /\ UNCHANGED <<base, pending, resident, device, archive, trials>>

\* replace_history: rows and values the caller brings.
ReplaceHistory == \E n \in 1..Capacity : \E models \in [1..n -> Models] : Load(models)

\* replace_indexed_history refuses an empty shortlist and one that does not
\* fit, clears the history and fills it as the resolver answers: a resolver
\* that fails leaves the n rows it got so far.
ReplaceIndexedHistory ==
    \E ids \in Shortlists :
        /\ Len(ids) \in 1..Capacity
        /\ \E n \in 0..Len(ids) : Answers(ids, n) /\ Load(Resolved(ids, n))

\* ask_indexed: the shortlist replaces the history and scores the trial.
AskIndexed ==
    \E ids \in Shortlists :
        /\ Len(ids) \in 1..Capacity
        /\ Answers(ids, Len(ids))
        /\ LET models == Resolved(ids, Len(ids))
           IN  Propose(Loaded(models), LoadedRecords(models), TRUE)

\* A center and its value join the compact history, the row the archive.
AppendRow ==
    /\ Len(archive) < MaxArchive
    /\ archive' = Append(archive, rows[base])
    /\ UNCHANGED <<rows, base, history, pending, resident, device, trials>>

\* ask_multi_tr on Metal and ask_multi_tr_tree score regions and write no row.
\* (On the other engines ask_multi_tr writes rows to slot 0: not modelled.)
AskRegions == /\ pending = NoTrial
              /\ Score(history)
              /\ UNCHANGED <<rows, base, history, pending, archive, trials>>

Next == \/ Ask \/ AskLazy \/ MaterializePending
        \/ \E trial \in 0..(Len(trials) - 1), accept \in BOOLEAN : Tell(trial, accept)
        \/ ReplaceHistory \/ ReplaceIndexedHistory \/ AskIndexed
        \/ AppendRow \/ AskRegions

Spec == Init /\ [][Next]_vars

-----------------------------------------------------------------------------
\* Types of the variables.
TypeOK ==
    /\ rows \in [Slots -> Models \cup {NoModel}]
    /\ base \in Slots
    /\ history \in Seq(Records) /\ Len(history) <= Capacity
    /\ pending \in Pendings \cup {NoTrial}
    /\ resident \in Seq(Records) /\ Len(resident) <= Capacity
    /\ device \in [1..Capacity -> Records \cup {NoRecord}]
    /\ archive \in Seq(Models)
    /\ trials \in Seq(Models)

\* Scores rest on pairs of a row and the value measured on that very row:
\* no reuse of a slot, late materialization, stale trial handle or half
\* resolved shortlist pairs a value with another row (free_slot, tell,
\* replace_history, replace_indexed_history).
HistoryRowsMatch == \A i \in DOMAIN history : rows[history[i].slot] = history[i].value

\* "no free model slot" never happens: capacity + 2 slots are enough for
\* any history, whether or not the center is one of its records.
SlotAlwaysFree == pending = NoTrial => FreeSlots(history) # {}

\* The records the device scored a trial with are those of the history,
\* although sync_history copies only what it believes has changed.
DeviceIsCurrent ==
    /\ \A i \in DOMAIN resident : device[i] = resident[i]
    /\ pending # NoTrial => resident = history

\* The rows the records refer to, and the row the caller evaluates.
Observed == [i \in DOMAIN history |-> rows[history[i].slot]]

Offered == IF pending = NoTrial THEN NoModel
           ELSE IF pending.materialized THEN rows[pending.slot]
           ELSE Perturbed[rows[base], pending.seed]

Log == INSTANCE TrialLog WITH center <- rows[base], observations <- Observed,
                              offer <- Offered, NoOffer <- NoModel

\* Whatever slots are reused, the caller sees a center that only an accepted
\* tell moves, an offer that stays what it was when asked, eager or lazy,
\* and a log that only tells and replacements change.
RefinesTrialLog == Log!LogSpec

=============================================================================
