--------------------------- MODULE FlushController ---------------------------
(***************************************************************************)
(* The background soft-sync controller of the disk backend:                *)
(* DiskBackendHandle (ennx/src/backend/flush_controller.rs), the calls     *)
(* EnnBackend makes on it (ennx/src/backend/mod.rs) and the counters of    *)
(* the BpannBackend behind its RwLock (bpann/src/backend.rs).              *)
(*                                                                         *)
(* Callers run the &self operations concurrently.  `add` and `drop` take   *)
(* &mut self, so the borrow rules of Rust keep every other call out while  *)
(* they run; they do not keep a flush worker out.  A critical section      *)
(* under the write guard is one step.  The read guards that are held for a *)
(* while (a search, the build of a worker) are in `readers`, and a write   *)
(* section waits for all of them.                                          *)
(*                                                                         *)
(* Rows are counted, not stored.  Results handed back to the caller are    *)
(* left out; where an Err changes the control flow the flow is modelled.   *)
(***************************************************************************)
EXTENDS Integers

CONSTANTS
    Callers,    \* threads that share the backend
    Workers,    \* identities of spawned flush threads, reused after a join
    NoWorker,   \* Option::None for a JoinHandle
    Soft,       \* pending_flush_threshold
    Hard,       \* pending_hard_flush_threshold
    MaxBatch,   \* bound: most rows one add appends
    MaxRows     \* bound: most rows ever stored

ASSUME ThresholdAssumption ==
    /\ Soft \in Nat \ {0}
    /\ Hard \in Nat
    /\ Hard >= Soft

ASSUME BoundAssumption ==
    /\ MaxBatch \in Nat
    /\ MaxRows \in Nat

ASSUME IdentityAssumption ==
    /\ NoWorker \notin Workers
    /\ Callers \cap Workers = {}

VARIABLES
    len,        \* train_x.nrows
    indexed,    \* index.indexed_rows of the published index
    pending,    \* pending_unindexed
    dirty,      \* index_dirty: the disk index is behind
    poisoned,   \* a thread panicked while it held the write guard
    clean,      \* ghost: no write section has failed part way so far
    readers,    \* threads that hold a read guard on data
    queued,     \* threads that wait for the write guard
    job,        \* the single job slot
    lastError,  \* last_error.is_some()
    pc,         \* where each caller is
    op,         \* the operation each caller runs
    snap,       \* the pending count a scheduling caller read
    held,       \* the JoinHandle a caller has on its stack
    wpc,        \* where each worker is
    built,      \* indexed_rows of the index a worker built
    failed,     \* the worker ended with Err or a panic
    closed      \* the backend has been dropped

dataVars == <<len, indexed, pending, dirty, poisoned, clean>>
lockVars == <<readers, queued>>
slotVars == <<job, lastError>>
callVars == <<pc, op, snap, held>>
workVars == <<wpc, built, failed>>
vars == <<dataVars, lockVars, slotVars, callVars, workVars, closed>>

SharedOps    == {"wait", "schedule", "ensure", "persist", "search"}
ExclusiveOps == {"add", "drop"}

CallerStates == {"idle", "read", "searching", "take", "join", "store_error",
                 "drain_error", "check_error", "snapshot", "slot_check",
                 "spawn", "store_job", "join_spare", "hard_sync", "ensure",
                 "persist", "append"}
WorkerStates == {"free", "start", "building", "publish", "exited"}

(***************************************************************************)
(* A handle as it is after opening a work directory: rows already there    *)
(* may or may not be indexed, nothing is in flight.                        *)
(***************************************************************************)
Init ==
    /\ len \in 0..MaxRows
    /\ indexed \in 0..len
    /\ pending = len - indexed
    /\ dirty = (indexed < len)
    /\ poisoned = FALSE
    /\ clean = TRUE
    /\ readers = {}
    /\ queued = {}
    /\ job = NoWorker
    /\ lastError = FALSE
    /\ pc = [c \in Callers |-> "idle"]
    /\ op = [c \in Callers |-> "none"]
    /\ snap = [c \in Callers |-> 0]
    /\ held = [c \in Callers |-> NoWorker]
    /\ wpc = [w \in Workers |-> "free"]
    /\ built = [w \in Workers |-> 0]
    /\ failed = [w \in Workers |-> FALSE]
    /\ closed = FALSE

Goto(c, label) == pc' = [pc EXCEPT ![c] = label] /\ UNCHANGED <<op, snap>>

\* The call is over and its locals are gone.
Return(c) ==
    /\ pc' = [pc EXCEPT ![c] = "idle"]
    /\ op' = [op EXCEPT ![c] = "none"]
    /\ snap' = [snap EXCEPT ![c] = 0]

GotoOrReturn(c, label) == IF label = "idle" THEN Return(c) ELSE Goto(c, label)

(***************************************************************************)
(* std::sync::RwLock: a writer is admitted once no read guard is out and   *)
(* queues until then; a reader is admitted unless a writer is queued.      *)
(***************************************************************************)
WriteLock(t) ==
    /\ readers = {}
    /\ queued' = queued \ {t}
    /\ UNCHANGED readers

Queue(t) ==
    /\ readers # {}
    /\ t \notin queued
    /\ queued' = queued \cup {t}
    /\ UNCHANGED readers

ReadLockFree == queued = {}

----------------------------------------------------------------------------
(* Calls begin                                                             *)

\* Mutant: add appends without wait_for_flush.
AddSkipsWait(o) ==
    CASE o = "search" -> "read"
      [] o = "schedule" -> "check_error"
      [] o = "add" -> "append"
      [] o \in {"wait", "ensure", "persist", "drop"} -> "take"

\* All but search and schedule start with wait_for_flush.
FirstLabel(o) ==
    CASE o = "search" -> "read"
      [] o = "schedule" -> "check_error"
      [] o \in {"wait", "ensure", "persist", "add", "drop"} -> "take"

Begin(c, o) ==
    /\ ~closed
    /\ pc[c] = "idle"
    /\ pc' = [pc EXCEPT ![c] = FirstLabel(o)]
    /\ op' = [op EXCEPT ![c] = o]
    /\ UNCHANGED <<dataVars, lockVars, slotVars, snap, held, workVars, closed>>

\* &self: any number at once, never while an &mut self call runs.
BeginShared(c) ==
    /\ \A d \in Callers : op[d] \notin ExclusiveOps
    /\ \E o \in SharedOps : Begin(c, o)

\* &mut self: alone among the callers.
BeginExclusive(c) ==
    /\ \A d \in Callers : pc[d] = "idle"
    /\ \E o \in ExclusiveOps : Begin(c, o)

----------------------------------------------------------------------------
(* search                                                                  *)

SearchLock(c) ==
    /\ pc[c] = "read"
    /\ ReadLockFree
    /\ \/ /\ poisoned
          /\ Return(c)
          /\ UNCHANGED readers
       \/ /\ ~poisoned
          /\ readers' = readers \cup {c}
          /\ Goto(c, "searching")
    /\ UNCHANGED <<dataVars, queued, slotVars, held, workVars, closed>>

SearchDone(c) ==
    /\ pc[c] = "searching"
    /\ readers' = readers \ {c}
    /\ Return(c)
    /\ UNCHANGED <<dataVars, queued, slotVars, held, workVars, closed>>

----------------------------------------------------------------------------
(* wait_for_flush                                                          *)

\* Where a caller goes after wait_for_flush returned Ok.
AfterWait(o) ==
    CASE o = "wait" -> "idle"
      [] o = "schedule" -> "hard_sync"
      [] o = "ensure" -> "ensure"
      [] o \in {"persist", "drop"} -> "persist"
      [] o = "add" -> "append"

\* The call ends here; a drop that ends has dropped, Ok or Err.
Leave(c) ==
    /\ Return(c)
    /\ closed' = (closed \/ op[c] = "drop")

TakeJob(c) ==
    /\ pc[c] = "take"
    /\ held' = [held EXCEPT ![c] = job]
    /\ job' = NoWorker
    /\ Goto(c, IF job = NoWorker THEN "drain_error" ELSE "join")
    /\ UNCHANGED <<dataVars, lockVars, lastError, workVars, closed>>

\* join() returns once the thread has ended and consumes its handle.
Reap(c) ==
    /\ wpc[held[c]] = "exited"
    /\ wpc' = [wpc EXCEPT ![held[c]] = "free"]
    /\ failed' = [failed EXCEPT ![held[c]] = FALSE]
    /\ held' = [held EXCEPT ![c] = NoWorker]
    /\ UNCHANGED built

Join(c) ==
    /\ pc[c] = "join"
    /\ Reap(c)
    /\ Goto(c, IF failed[held[c]] THEN "store_error" ELSE "drain_error")
    /\ UNCHANGED <<dataVars, lockVars, slotVars, closed>>

StoreError(c) ==
    /\ pc[c] = "store_error"
    /\ lastError' = TRUE
    /\ Leave(c)
    /\ UNCHANGED <<dataVars, lockVars, job, held, workVars>>

DrainError(c) ==
    /\ pc[c] = "drain_error"
    /\ \/ /\ lastError
          /\ lastError' = FALSE
          /\ Leave(c)
       \/ /\ ~lastError
          /\ GotoOrReturn(c, AfterWait(op[c]))
          /\ UNCHANGED <<lastError, closed>>
    /\ UNCHANGED <<dataVars, lockVars, job, held, workVars>>

----------------------------------------------------------------------------
(* schedule_background_flush                                               *)

\* An undrained error is returned and stays where it is.
CheckError(c) ==
    /\ pc[c] = "check_error"
    /\ GotoOrReturn(c, IF lastError THEN "idle" ELSE "snapshot")
    /\ UNCHANGED <<dataVars, lockVars, slotVars, held, workVars, closed>>

\* Mutant: the read guard of the snapshot lives on into the hard path.
SnapshotKeepsGuard(c) ==
    /\ pc[c] = "snapshot"
    /\ ReadLockFree
    /\ ~poisoned
    /\ readers' = readers \cup (IF pending >= Soft THEN {c} ELSE {})
    /\ snap' = [snap EXCEPT ![c] = pending]
    /\ pc' = [pc EXCEPT ![c] = IF pending >= Hard THEN "take" ELSE "slot_check"]
    /\ UNCHANGED <<op, queued>>
    /\ UNCHANGED <<dataVars, slotVars, held, workVars, closed>>

\* The pending count is read under a read guard that is dropped at once.
Snapshot(c) ==
    /\ pc[c] = "snapshot"
    /\ ReadLockFree
    /\ \/ /\ poisoned
          /\ Return(c)
       \/ /\ ~poisoned
          /\ snap' = [snap EXCEPT ![c] = pending]
          /\ pc' = [pc EXCEPT ![c] = IF pending >= Hard THEN "take" ELSE "slot_check"]
          /\ UNCHANGED op
    /\ UNCHANGED <<dataVars, lockVars, slotVars, held, workVars, closed>>

\* Mutant: the soft threshold is not looked at.
SlotCheckAlone(c) ==
    /\ pc[c] = "slot_check"
    /\ GotoOrReturn(c, IF job # NoWorker THEN "idle" ELSE "spawn")
    /\ UNCHANGED <<dataVars, lockVars, slotVars, held, workVars, closed>>

SlotCheck(c) ==
    /\ pc[c] = "slot_check"
    /\ GotoOrReturn(c, IF job # NoWorker \/ snap[c] < Soft THEN "idle" ELSE "spawn")
    /\ UNCHANGED <<dataVars, lockVars, slotVars, held, workVars, closed>>

Spawn(c) ==
    /\ pc[c] = "spawn"
    /\ \E w \in Workers :
        /\ wpc[w] = "free"
        /\ wpc' = [wpc EXCEPT ![w] = "start"]
        /\ held' = [held EXCEPT ![c] = w]
    /\ Goto(c, "store_job")
    /\ UNCHANGED <<dataVars, lockVars, slotVars, built, failed, closed>>

\* Mutant: a spare handle is dropped, which detaches its thread.
StoreJobDetaches(c) ==
    /\ pc[c] = "store_job"
    /\ job' = IF job = NoWorker THEN held[c] ELSE job
    /\ held' = [held EXCEPT ![c] = NoWorker]
    /\ Return(c)
    /\ UNCHANGED <<dataVars, lockVars, lastError, workVars, closed>>

StoreJob(c) ==
    /\ pc[c] = "store_job"
    /\ \/ /\ job # NoWorker
          /\ Goto(c, "join_spare")
          /\ UNCHANGED <<job, held>>
       \/ /\ job = NoWorker
          /\ job' = held[c]
          /\ held' = [held EXCEPT ![c] = NoWorker]
          /\ Return(c)
    /\ UNCHANGED <<dataVars, lockVars, lastError, workVars, closed>>

\* `let _ = handle.join()`: the result of a spare worker is dropped.
JoinSpare(c) ==
    /\ pc[c] = "join_spare"
    /\ Reap(c)
    /\ Return(c)
    /\ UNCHANGED <<dataVars, lockVars, slotVars, closed>>

\* The synchronous build runs on a clone: an Err leaves the index alone, a
\* panic poisons the lock.
HardSync(c) ==
    /\ pc[c] = "hard_sync"
    /\ WriteLock(c)
    /\ Return(c)
    /\ \/ /\ poisoned \/ pending < Hard \/ indexed >= len
          /\ UNCHANGED dataVars
       \/ /\ ~poisoned /\ pending >= Hard /\ indexed < len
          /\ \/ indexed' = len /\ pending' = 0 /\ UNCHANGED <<poisoned, clean>>
             \/ /\ poisoned' \in BOOLEAN
                /\ clean' = FALSE
                /\ UNCHANGED <<indexed, pending>>
          /\ UNCHANGED <<len, dirty>>
    /\ UNCHANGED <<slotVars, held, workVars, closed>>

----------------------------------------------------------------------------
(* The flush worker                                                        *)

Exit(w, err) ==
    /\ wpc' = [wpc EXCEPT ![w] = "exited"]
    /\ failed' = [failed EXCEPT ![w] = err]
    /\ built' = [built EXCEPT ![w] = 0]

WorkerLock(w) ==
    /\ wpc[w] = "start"
    /\ ReadLockFree
    /\ \/ /\ poisoned
          /\ Exit(w, TRUE)
          /\ UNCHANGED readers
       \/ /\ ~poisoned
          /\ readers' = readers \cup {w}
          /\ wpc' = [wpc EXCEPT ![w] = "building"]
          /\ UNCHANGED <<built, failed>>
    /\ UNCHANGED <<dataVars, queued, slotVars, callVars, closed>>

\* soft_sync_build: None when everything is indexed, an Err or a panic (a
\* read guard does not poison), or a clone that covers every stored row.
WorkerBuild(w) ==
    /\ wpc[w] = "building"
    /\ readers' = readers \ {w}
    /\ \/ indexed >= len /\ Exit(w, FALSE)
       \/ indexed < len /\ Exit(w, TRUE)
       \/ /\ indexed < len
          /\ built' = [built EXCEPT ![w] = len]
          /\ wpc' = [wpc EXCEPT ![w] = "publish"]
          /\ UNCHANGED failed
    /\ UNCHANGED <<dataVars, queued, slotVars, callVars, closed>>

\* Mutant: the published rows are subtracted from the pending counter.
PublishSubtracts(w) ==
    /\ wpc[w] = "publish"
    /\ WriteLock(w)
    /\ Exit(w, poisoned)
    /\ indexed' = IF poisoned THEN indexed ELSE built[w]
    /\ pending' = IF poisoned THEN pending ELSE pending - built[w]
    /\ UNCHANGED <<len, dirty, poisoned, clean>>
    /\ UNCHANGED <<slotVars, callVars, closed>>

\* soft_sync_publish: the clone replaces the index whatever it is by now.
WorkerPublish(w) ==
    /\ wpc[w] = "publish"
    /\ WriteLock(w)
    /\ Exit(w, poisoned)
    /\ indexed' = IF poisoned THEN indexed ELSE built[w]
    /\ pending' = IF poisoned THEN pending ELSE 0
    /\ UNCHANGED <<len, dirty, poisoned, clean>>
    /\ UNCHANGED <<slotVars, callVars, closed>>

----------------------------------------------------------------------------
(* The exclusive critical sections of the other operations                 *)

\* ensure_index_sync works on the live index.  l and p are the row count and
\* the pending count at that point.  A failure comes before the new fragment
\* is pushed or after it, when indexed_rows.bin cannot be written; a panic
\* poisons the lock.
InPlaceSync(l, p) ==
    \/ /\ indexed >= l
       /\ pending' = 0
       /\ UNCHANGED <<indexed, poisoned, clean>>
    \/ /\ indexed < l
       /\ \/ indexed' = l /\ pending' = 0 /\ UNCHANGED <<poisoned, clean>>
          \/ /\ indexed' \in {indexed, l}
             /\ pending' = p
             /\ poisoned' \in BOOLEAN
             /\ clean' = FALSE

EnsureIndexSync(c) ==
    /\ pc[c] = "ensure"
    /\ WriteLock(c)
    /\ Return(c)
    /\ \/ poisoned /\ UNCHANGED dataVars
       \/ /\ ~poisoned
          /\ InPlaceSync(len, pending)
          /\ UNCHANGED <<len, dirty>>
    /\ UNCHANGED <<slotVars, held, workVars, closed>>

\* persist_index_to_disk: needs_disk_rewrite holds whenever index_dirty does,
\* whenever the one fragment and the header on disk do not cover every row,
\* and possibly otherwise (the files on disk are not modelled here).  The
\* sync of the rewrite may fail as above, and so may writing the files.
PersistIndex(c) ==
    /\ pc[c] = "persist"
    /\ WriteLock(c)
    /\ Leave(c)
    /\ \/ poisoned /\ UNCHANGED dataVars
       \/ /\ ~poisoned /\ ~dirty /\ indexed >= len
          /\ pending' = 0
          /\ UNCHANGED <<len, indexed, dirty, poisoned, clean>>
       \/ /\ ~poisoned
          /\ indexed' = IF indexed < len THEN len ELSE indexed
          /\ pending' = 0
          /\ dirty' = FALSE
          /\ UNCHANGED <<len, poisoned, clean>>
       \/ /\ ~poisoned
          /\ indexed' \in {indexed, IF indexed < len THEN len ELSE indexed}
          /\ poisoned' \in BOOLEAN
          /\ clean' = FALSE
          /\ UNCHANGED <<len, pending, dirty>>
    /\ UNCHANGED <<slotVars, held, workVars>>

\* append_rows of n rows, from add: torn when x is stored and y or yvar is
\* not, else stored, and synced in place at the hard threshold.
AppendRows(c, n) ==
    /\ pc[c] = "append"
    /\ WriteLock(c)
    /\ ~poisoned
    /\ len + n <= MaxRows
    /\ Return(c)
    /\ len' = len + n
    /\ \/ /\ clean' = FALSE
          /\ UNCHANGED <<indexed, pending, dirty, poisoned>>
       \/ /\ dirty' = TRUE
          /\ \/ /\ pending + n < Hard
                /\ pending' = pending + n
                /\ UNCHANGED <<indexed, poisoned, clean>>
             \/ /\ pending + n >= Hard
                /\ InPlaceSync(len + n, pending + n)
    /\ UNCHANGED <<slotVars, held, workVars, closed>>

\* Nothing is written: a poisoned lock, a bad shape, a value the output
\* bounds reject, the row limit, no space for x.
AppendRefused(c) ==
    /\ pc[c] = "append"
    /\ WriteLock(c)
    /\ Return(c)
    /\ UNCHANGED <<dataVars, slotVars, held, workVars, closed>>

----------------------------------------------------------------------------

\* A caller or a worker at a write section finds readers inside.
CallerQueues(c) ==
    /\ pc[c] \in {"hard_sync", "ensure", "persist", "append"}
    /\ Queue(c)
    /\ UNCHANGED <<dataVars, slotVars, callVars, workVars, closed>>

WorkerQueues(w) ==
    /\ wpc[w] = "publish"
    /\ Queue(w)
    /\ UNCHANGED <<dataVars, slotVars, callVars, workVars, closed>>

\* After drop nothing is left to run.
Terminated == closed /\ UNCHANGED vars

CallerStep(c) ==
    \/ SearchLock(c) \/ SearchDone(c)
    \/ TakeJob(c) \/ Join(c) \/ StoreError(c) \/ DrainError(c)
    \/ CheckError(c) \/ Snapshot(c) \/ SlotCheck(c) \/ Spawn(c)
    \/ StoreJob(c) \/ JoinSpare(c)
    \/ CallerQueues(c) \/ HardSync(c) \/ EnsureIndexSync(c) \/ PersistIndex(c)
    \/ \E n \in 1..MaxBatch : AppendRows(c, n)
    \/ AppendRefused(c)

WorkerStep(w) ==
    WorkerLock(w) \/ WorkerBuild(w) \/ WorkerQueues(w) \/ WorkerPublish(w)

Next ==
    \/ \E c \in Callers : BeginShared(c) \/ BeginExclusive(c) \/ CallerStep(c)
    \/ \E w \in Workers : WorkerStep(w)
    \/ Terminated

Spec == Init /\ [][Next]_vars

(***************************************************************************)
(* Threads that can run do run.  Nothing makes a caller begin a call.  A   *)
(* queued writer keeps new readers out, so no writer is starved and weak   *)
(* fairness is enough.                                                     *)
(***************************************************************************)
Fairness ==
    /\ \A c \in Callers : WF_vars(CallerStep(c))
    /\ \A w \in Workers : WF_vars(WorkerStep(w))

FairSpec == Spec /\ Fairness

----------------------------------------------------------------------------
(* Properties                                                              *)

\* A worker that has been spawned and has not ended.
Live(w) == wpc[w] \in {"start", "building", "publish"}

\* Every variable holds a value of its type.
TypeOK ==
    /\ len \in Nat
    /\ indexed \in Nat
    /\ pending \in Nat
    /\ dirty \in BOOLEAN
    /\ poisoned \in BOOLEAN
    /\ clean \in BOOLEAN
    /\ readers \in SUBSET (Callers \cup Workers)
    /\ queued \in SUBSET (Callers \cup Workers)
    /\ job \in Workers \cup {NoWorker}
    /\ lastError \in BOOLEAN
    /\ pc \in [Callers -> CallerStates]
    /\ op \in [Callers -> SharedOps \cup ExclusiveOps \cup {"none"}]
    /\ snap \in [Callers -> Nat]
    /\ held \in [Callers -> Workers \cup {NoWorker}]
    /\ wpc \in [Workers -> WorkerStates]
    /\ built \in [Workers -> Nat]
    /\ failed \in [Workers -> BOOLEAN]
    /\ closed \in BOOLEAN

\* As long as no write section has failed part way, the pending counter is
\* the number of rows the published index does not cover, whatever the order
\* of appends, detached builds, publications and synchronous syncs
\* (soft_sync_publish stores 0 without looking at the row count).
CountersAgree == clean => pending = len - indexed

\* While no caller is inside a call, the only flush that can be running is
\* the one in the job slot, so the next wait_for_flush joins all there is,
\* even after two schedulers raced for the slot or two waiters for the handle.
QuiescentFlushInSlot ==
    (\A c \in Callers : pc[c] = "idle") => \A w \in Workers : Live(w) => job = w

\* "add waits before append, so pending cannot grow mid-flight": no append
\* runs between the build of a worker and its publication.
NoAppendMidFlight == [][len' # len => \A w \in Workers : ~Live(w)]_vars

\* "Hard cap: wait for any in-flight soft sync, then soft-sync
\* synchronously": no worker runs beside the synchronous soft sync, although
\* wait_for_flush returns at once when another thread has taken the handle.
HardPathAlone ==
    (\E c \in Callers : pc[c] = "hard_sync") => \A w \in Workers : ~Live(w)

\* The two counts follow the abstract log: whatever the interleaving and
\* whatever fails, the published prefix never shrinks and only ever jumps to
\* the end of the rows, although a publication overwrites the index blindly.
Log == INSTANCE IndexedLog WITH len <- len, indexed <- indexed
RefinesLog == Log!LogSpec

\* Every call returns: no caller waits for ever on a worker, on the slot or
\* on the data lock ("never join or spawn while holding the data lock").
EveryCallReturns == \A c \in Callers : (pc[c] # "idle") ~> (pc[c] = "idle")

\* Every spawned flush comes to its end, with readers and writers around it.
EveryFlushEnds == \A w \in Workers : (wpc[w] = "start") ~> (wpc[w] = "exited")

=============================================================================
