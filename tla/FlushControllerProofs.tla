------------------------ MODULE FlushControllerProofs ------------------------
(***************************************************************************)
(* Proofs about FlushController, for any number of callers and workers,    *)
(* any thresholds and any row bound.                                       *)
(***************************************************************************)
EXTENDS FlushController, TLAPS

WaitingOps == (SharedOps \cup ExclusiveOps) \ {"search"}

----------------------------------------------------------------------------
(* The inductive invariant                                                 *)

HoldingLabels == {"join", "store_job", "join_spare"}
WaitLabels    == {"take", "join", "store_error", "drain_error"}
AloneLabels   == WaitLabels \cup {"append", "persist"}

\* A caller is in a call exactly while its label says so, and the labels of
\* wait_for_flush and of append belong to the operations that reach them.
CallShape ==
    \A c \in Callers :
        /\ pc[c] = "idle" <=> op[c] = "none"
        /\ pc[c] \in WaitLabels \cup {"check_error", "snapshot"} => op[c] # "search"
        /\ op[c] \in ExclusiveOps => pc[c] \in AloneLabels
        /\ pc[c] = "append" => op[c] = "add"

\* &mut self: the other callers are idle.
Exclusion ==
    \A c \in Callers : op[c] \in ExclusiveOps =>
        \A d \in Callers \ {c} : pc[d] = "idle"

\* A handle is on a stack exactly between taking or making and giving it up.
HeldInCall ==
    \A c \in Callers : held[c] # NoWorker <=> pc[c] \in HoldingLabels

\* A thread that has not been joined has its handle somewhere.
Tracked ==
    \A w \in Workers : wpc[w] # "free" =>
        job = w \/ \E c \in Callers : held[c] = w

\* An exclusive call that has taken the handle leaves the slot empty.
SlotEmptied ==
    \A c \in Callers : op[c] \in ExclusiveOps /\ pc[c] # "take" => job = NoWorker

\* The rows a finished build covers are still all the rows.
BuiltIsCurrent == \A w \in Workers : wpc[w] = "publish" => built[w] = len

\* On the way to, or in, the synchronous soft sync of schedule.
OnHardPath(c) == op[c] = "schedule" /\ pc[c] \in WaitLabels \cup {"hard_sync"}

\* About to spawn, or just past it.
Spawning(c) ==
    \/ pc[c] \in {"spawn", "store_job"}
    \/ pc[c] = "slot_check" /\ snap[c] >= Soft

\* A soft sync in preparation or in progress.
SoftSyncing == (\E w \in Workers : Live(w)) \/ (\E c \in Callers : Spawning(c))

\* The soft and the hard path of schedule exclude each other: pending falls
\* to 0 or stays, until an append that finds neither.
PathsApart ==
    /\ SoftSyncing => pending < Hard
    /\ \A c \in Callers : OnHardPath(c) =>
          /\ pending = 0 \/ pending >= Hard
          /\ ~SoftSyncing
    /\ \A c \in Callers : pc[c] = "hard_sync" => op[c] = "schedule"

Control == CallShape /\ Exclusion /\ HeldInCall /\ Tracked /\ SlotEmptied
Counts  == indexed <= len /\ CountersAgree /\ BuiltIsCurrent

FlushInv == TypeOK /\ Control /\ Counts /\ PathsApart

----------------------------------------------------------------------------
(* The two dispatch tables                                                 *)

\* The label a call begins at is a label; only schedule_background_flush and
\* search do not begin with wait_for_flush.
LEMMA FirstLabelType ==
    ASSUME NEW o \in SharedOps \cup ExclusiveOps
    PROVE  /\ FirstLabel(o) \in {"read", "check_error", "take"}
           /\ FirstLabel(o) # "read" <=> o # "search"
           /\ FirstLabel(o) = "take" => o # "schedule"
           /\ o \in ExclusiveOps => FirstLabel(o) = "take"
BY DEF FirstLabel, SharedOps, ExclusiveOps

\* Where wait_for_flush hands over to is a label that fits the operation.
LEMMA AfterWaitType ==
    ASSUME NEW o \in WaitingOps
    PROVE  /\ AfterWait(o) \in {"idle", "hard_sync", "ensure", "persist", "append"}
           /\ AfterWait(o) = "append" => o = "add"
           /\ AfterWait(o) = "hard_sync" => o = "schedule"
           /\ o \in ExclusiveOps => AfterWait(o) \in {"persist", "append"}
<1>1. CASE o = "wait"      BY <1>1 DEF AfterWait, ExclusiveOps
<1>2. CASE o = "schedule"  BY <1>2 DEF AfterWait, ExclusiveOps
<1>3. CASE o = "ensure"    BY <1>3 DEF AfterWait, ExclusiveOps
<1>4. CASE o \in {"persist", "drop"}  BY <1>4 DEF AfterWait, ExclusiveOps
<1>5. CASE o = "add"       BY <1>5 DEF AfterWait, ExclusiveOps
<1> QED BY <1>1, <1>2, <1>3, <1>4, <1>5 DEF WaitingOps, SharedOps, ExclusiveOps

----------------------------------------------------------------------------
(* Facts of one state                                                      *)

\* Every operation that runs wait_for_flush has a continuation.
LEMMA WaitingOp ==
    ASSUME TypeOK, CallShape, NEW c \in Callers, pc[c] \in WaitLabels
    PROVE  op[c] \in WaitingOps
BY DEF TypeOK, CallShape, WaitLabels, WaitingOps

\* Where append runs, no thread is alive and no other call is in progress.
LEMMA AppendAlone ==
    ASSUME TypeOK, Control, NEW c \in Callers, pc[c] = "append"
    PROVE  /\ \A w \in Workers : wpc[w] = "free"
           /\ \A d \in Callers \ {c} : pc[d] = "idle"
           /\ op[c] = "add"
<1>1. op[c] = "add" /\ op[c] \in ExclusiveOps
  BY DEF Control, CallShape, ExclusiveOps
<1>2. job = NoWorker
  BY <1>1 DEF Control, SlotEmptied
<1>3. \A d \in Callers \ {c} : pc[d] = "idle"
  BY <1>1 DEF Control, Exclusion
<1>4. \A d \in Callers : held[d] = NoWorker
  BY <1>3 DEF Control, HeldInCall, HoldingLabels
<1>5. \A w \in Workers : wpc[w] = "free"
  BY <1>2, <1>4, IdentityAssumption DEF Control, Tracked
<1> QED BY <1>1, <1>3, <1>5

----------------------------------------------------------------------------
(* The initial states                                                      *)

\* A handle that DiskBackendHandle::new has just made satisfies the invariant.
LEMMA InitInv == Init => FlushInv
<1> SUFFICES ASSUME Init PROVE FlushInv
  OBVIOUS
<1>0. len \in Nat /\ indexed \in Nat /\ pending \in Nat /\ indexed <= len
  BY BoundAssumption DEF Init
<1>1. TypeOK
  <2>1. dirty \in BOOLEAN
    BY DEF Init
  <2> QED BY <1>0, <2>1 DEF Init, TypeOK, CallerStates, WorkerStates
<1>2. Control
  BY DEF Init, Control, CallShape, Exclusion, HeldInCall, Tracked, SlotEmptied,
         HoldingLabels, WaitLabels, AloneLabels, SharedOps, ExclusiveOps
<1>3. Counts
  BY <1>0 DEF Init, Counts, CountersAgree, BuiltIsCurrent
<1>4. PathsApart
  BY DEF Init, PathsApart, SoftSyncing, Spawning, Live, OnHardPath
<1> QED BY <1>1, <1>2, <1>3, <1>4 DEF FlushInv

----------------------------------------------------------------------------
(* Type correctness                                                        *)

\* No step of a caller or of a worker leaves the types; the counters stay in
\* Nat, which is where a usize subtraction could go wrong.
LEMMA TypeStep == FlushInv /\ [Next]_vars => TypeOK'
<1> SUFFICES ASSUME FlushInv, [Next]_vars PROVE TypeOK'
  OBVIOUS
<1>1. ASSUME NEW c \in Callers, BeginShared(c)
     PROVE  TypeOK'
  BY <1>1, FirstLabelType
  DEF FlushInv, TypeOK, CallerStates, WorkerStates, vars, dataVars,
      lockVars, slotVars, callVars, workVars, BeginShared, Begin
<1>2. ASSUME NEW c \in Callers, BeginExclusive(c)
     PROVE  TypeOK'
  BY <1>2, FirstLabelType
  DEF FlushInv, TypeOK, CallerStates, WorkerStates, vars, dataVars,
      lockVars, slotVars, callVars, workVars, BeginExclusive, Begin
<1>3. ASSUME NEW c \in Callers, SearchLock(c)
     PROVE  TypeOK'
  BY <1>3
  DEF FlushInv, TypeOK, CallerStates, WorkerStates, vars, dataVars,
      lockVars, slotVars, callVars, workVars, SearchLock, Return,
      Goto
<1>4. ASSUME NEW c \in Callers, SearchDone(c)
     PROVE  TypeOK'
  BY <1>4
  DEF FlushInv, TypeOK, CallerStates, WorkerStates, vars, dataVars,
      lockVars, slotVars, callVars, workVars, SearchDone, Return
<1>5. ASSUME NEW c \in Callers, TakeJob(c)
     PROVE  TypeOK'
  BY <1>5
  DEF FlushInv, TypeOK, CallerStates, WorkerStates, vars, dataVars,
      lockVars, slotVars, callVars, workVars, TakeJob, Goto
<1>6. ASSUME NEW c \in Callers, Join(c)
     PROVE  TypeOK'
  BY <1>6
  DEF FlushInv, TypeOK, CallerStates, WorkerStates, vars, dataVars,
      lockVars, slotVars, callVars, workVars, Join, Reap, Goto
<1>7. ASSUME NEW c \in Callers, StoreError(c)
     PROVE  TypeOK'
  BY <1>7
  DEF FlushInv, TypeOK, CallerStates, WorkerStates, vars, dataVars,
      lockVars, slotVars, callVars, workVars, StoreError, Leave,
      Return
<1>8. ASSUME NEW c \in Callers, DrainError(c)
     PROVE  TypeOK'
  <2>1. AfterWait(op[c]) \in {"idle", "hard_sync", "ensure", "persist", "append"}
    BY <1>8, WaitingOp, AfterWaitType
    DEF DrainError, FlushInv, Control, WaitLabels
  <2>2. closed' \in BOOLEAN /\ lastError' \in BOOLEAN
    BY <1>8
    DEF FlushInv, TypeOK, DrainError, Leave, Return, Goto,
        GotoOrReturn
  <2>3. /\ pc' \in [Callers -> CallerStates] /\ snap' \in [Callers -> Nat]
        /\ op' \in [Callers -> SharedOps \cup ExclusiveOps \cup {"none"}]
    BY <1>8, <2>1
    DEF FlushInv, TypeOK, CallerStates, DrainError, Leave, Return,
        Goto, GotoOrReturn
  <2> QED BY <1>8, <2>2, <2>3
          DEF FlushInv, TypeOK, DrainError, dataVars,
              lockVars, workVars
<1>9. ASSUME NEW c \in Callers, CheckError(c)
     PROVE  TypeOK'
  BY <1>9
  DEF FlushInv, TypeOK, CallerStates, WorkerStates, vars, dataVars,
      lockVars, slotVars, callVars, workVars, CheckError, Return,
      Goto, GotoOrReturn
<1>10. ASSUME NEW c \in Callers, Snapshot(c)
     PROVE  TypeOK'
  BY <1>10
  DEF FlushInv, TypeOK, CallerStates, WorkerStates, vars, dataVars,
      lockVars, slotVars, callVars, workVars, Snapshot, Return
<1>11. ASSUME NEW c \in Callers, SlotCheck(c)
     PROVE  TypeOK'
  BY <1>11
  DEF FlushInv, TypeOK, CallerStates, WorkerStates, vars, dataVars,
      lockVars, slotVars, callVars, workVars, SlotCheck, Return,
      Goto, GotoOrReturn
<1>12. ASSUME NEW c \in Callers, Spawn(c)
     PROVE  TypeOK'
  BY <1>12
  DEF FlushInv, TypeOK, CallerStates, WorkerStates, vars, dataVars,
      lockVars, slotVars, callVars, workVars, Spawn, Goto
<1>13. ASSUME NEW c \in Callers, StoreJob(c)
     PROVE  TypeOK'
  BY <1>13
  DEF FlushInv, TypeOK, CallerStates, WorkerStates, vars, dataVars,
      lockVars, slotVars, callVars, workVars, StoreJob, Return, Goto
<1>14. ASSUME NEW c \in Callers, JoinSpare(c)
     PROVE  TypeOK'
  BY <1>14
  DEF FlushInv, TypeOK, CallerStates, WorkerStates, vars, dataVars,
      lockVars, slotVars, callVars, workVars, JoinSpare, Reap, Return
<1>15. ASSUME NEW c \in Callers, CallerQueues(c)
     PROVE  TypeOK'
  BY <1>15
  DEF FlushInv, TypeOK, CallerStates, WorkerStates, vars, dataVars,
      lockVars, slotVars, callVars, workVars, CallerQueues, Queue
<1>16. ASSUME NEW c \in Callers, HardSync(c)
     PROVE  TypeOK'
  <2>1. len' \in Nat /\ indexed' \in Nat /\ pending' \in Nat
    BY <1>16 DEF FlushInv, TypeOK, dataVars, HardSync, WriteLock, Return
  <2>2. dirty' \in BOOLEAN /\ poisoned' \in BOOLEAN /\ clean' \in BOOLEAN
    BY <1>16 DEF FlushInv, TypeOK, dataVars, HardSync, WriteLock, Return
  <2>3. readers' \in SUBSET (Callers \cup Workers) /\ queued' \in SUBSET (Callers \cup Workers)
    BY <1>16 DEF FlushInv, TypeOK, HardSync, WriteLock, Return
  <2>4. /\ pc' \in [Callers -> CallerStates] /\ snap' \in [Callers -> Nat]
        /\ op' \in [Callers -> SharedOps \cup ExclusiveOps \cup {"none"}]
    BY <1>16 DEF FlushInv, TypeOK, CallerStates, HardSync, WriteLock, Return
  <2>5. /\ UNCHANGED <<slotVars, held, workVars>>
        /\ closed' \in BOOLEAN
    BY <1>16 DEF FlushInv, TypeOK, HardSync, WriteLock, Return
  <2> QED BY <2>1, <2>2, <2>3, <2>4, <2>5
          DEF FlushInv, TypeOK, slotVars, workVars
<1>17. ASSUME NEW c \in Callers, EnsureIndexSync(c)
     PROVE  TypeOK'
  <2>1. len' \in Nat /\ indexed' \in Nat /\ pending' \in Nat
    BY <1>17
    DEF FlushInv, TypeOK, dataVars, EnsureIndexSync, WriteLock,
        Return, InPlaceSync
  <2>2. dirty' \in BOOLEAN /\ poisoned' \in BOOLEAN /\ clean' \in BOOLEAN
    BY <1>17
    DEF FlushInv, TypeOK, dataVars, EnsureIndexSync, WriteLock,
        Return, InPlaceSync
  <2>3. readers' \in SUBSET (Callers \cup Workers) /\ queued' \in SUBSET (Callers \cup Workers)
    BY <1>17
    DEF FlushInv, TypeOK, EnsureIndexSync, WriteLock, Return,
        InPlaceSync
  <2>4. /\ pc' \in [Callers -> CallerStates] /\ snap' \in [Callers -> Nat]
        /\ op' \in [Callers -> SharedOps \cup ExclusiveOps \cup {"none"}]
    BY <1>17
    DEF FlushInv, TypeOK, CallerStates, EnsureIndexSync, WriteLock,
        Return, InPlaceSync
  <2>5. /\ UNCHANGED <<slotVars, held, workVars>>
        /\ closed' \in BOOLEAN
    BY <1>17
    DEF FlushInv, TypeOK, EnsureIndexSync, WriteLock, Return,
        InPlaceSync
  <2> QED BY <2>1, <2>2, <2>3, <2>4, <2>5
          DEF FlushInv, TypeOK, slotVars, workVars
<1>18. ASSUME NEW c \in Callers, PersistIndex(c)
     PROVE  TypeOK'
  <2>1. len' \in Nat /\ indexed' \in Nat /\ pending' \in Nat
    BY <1>18
    DEF FlushInv, TypeOK, dataVars, PersistIndex, WriteLock, Leave,
        Return
  <2>2. dirty' \in BOOLEAN /\ poisoned' \in BOOLEAN /\ clean' \in BOOLEAN
    BY <1>18
    DEF FlushInv, TypeOK, dataVars, PersistIndex, WriteLock, Leave,
        Return
  <2>3. readers' \in SUBSET (Callers \cup Workers) /\ queued' \in SUBSET (Callers \cup Workers)
    BY <1>18 DEF FlushInv, TypeOK, PersistIndex, WriteLock, Leave, Return
  <2>4. /\ pc' \in [Callers -> CallerStates] /\ snap' \in [Callers -> Nat]
        /\ op' \in [Callers -> SharedOps \cup ExclusiveOps \cup {"none"}]
    BY <1>18
    DEF FlushInv, TypeOK, CallerStates, PersistIndex, WriteLock,
        Leave, Return
  <2>5. /\ UNCHANGED <<slotVars, held, workVars>>
        /\ closed' \in BOOLEAN
    BY <1>18 DEF FlushInv, TypeOK, PersistIndex, WriteLock, Leave, Return
  <2> QED BY <2>1, <2>2, <2>3, <2>4, <2>5
          DEF FlushInv, TypeOK, slotVars, workVars
<1>19. ASSUME NEW c \in Callers, NEW n \in 1..MaxBatch, AppendRows(c, n)
     PROVE  TypeOK'
  <2>1. len' \in Nat /\ indexed' \in Nat /\ pending' \in Nat
    BY <1>19, BoundAssumption
    DEF FlushInv, TypeOK, dataVars, AppendRows, WriteLock, Return,
        InPlaceSync
  <2>2. dirty' \in BOOLEAN /\ poisoned' \in BOOLEAN /\ clean' \in BOOLEAN
    BY <1>19
    DEF FlushInv, TypeOK, dataVars, AppendRows, WriteLock, Return,
        InPlaceSync
  <2>3. readers' \in SUBSET (Callers \cup Workers) /\ queued' \in SUBSET (Callers \cup Workers)
    BY <1>19 DEF FlushInv, TypeOK, AppendRows, WriteLock, Return, InPlaceSync
  <2>4. /\ pc' \in [Callers -> CallerStates] /\ snap' \in [Callers -> Nat]
        /\ op' \in [Callers -> SharedOps \cup ExclusiveOps \cup {"none"}]
    BY <1>19
    DEF FlushInv, TypeOK, CallerStates, AppendRows, WriteLock,
        Return, InPlaceSync
  <2>5. /\ UNCHANGED <<slotVars, held, workVars>>
        /\ closed' \in BOOLEAN
    BY <1>19 DEF FlushInv, TypeOK, AppendRows, WriteLock, Return, InPlaceSync
  <2> QED BY <2>1, <2>2, <2>3, <2>4, <2>5
          DEF FlushInv, TypeOK, slotVars, workVars
<1>20. ASSUME NEW c \in Callers, AppendRefused(c)
     PROVE  TypeOK'
  BY <1>20
  DEF FlushInv, TypeOK, CallerStates, WorkerStates, vars, dataVars,
      lockVars, slotVars, callVars, workVars, AppendRefused,
      WriteLock, Return
<1>21. ASSUME NEW w \in Workers, WorkerLock(w)
     PROVE  TypeOK'
  <2>1. readers' \in SUBSET (Callers \cup Workers)
    BY <1>21 DEF FlushInv, TypeOK, WorkerLock
  <2>2. failed' \in [Workers -> BOOLEAN]
    BY <1>21 DEF FlushInv, TypeOK, WorkerLock, Exit
  <2>3. wpc' \in [Workers -> WorkerStates] /\ built' \in [Workers -> Nat]
    BY <1>21 DEF FlushInv, TypeOK, WorkerLock, Exit, WorkerStates
  <2> QED BY <1>21, <2>1, <2>2, <2>3
          DEF FlushInv, TypeOK, WorkerLock, dataVars,
              slotVars, callVars
<1>22. ASSUME NEW w \in Workers, WorkerBuild(w)
     PROVE  TypeOK'
  <2>1. readers' \in SUBSET (Callers \cup Workers)
    BY <1>22 DEF FlushInv, TypeOK, WorkerBuild
  <2>2. failed' \in [Workers -> BOOLEAN]
    BY <1>22 DEF FlushInv, TypeOK, WorkerBuild, Exit
  <2>3. wpc' \in [Workers -> WorkerStates] /\ built' \in [Workers -> Nat]
    BY <1>22 DEF FlushInv, TypeOK, WorkerBuild, Exit, WorkerStates
  <2> QED BY <1>22, <2>1, <2>2, <2>3
          DEF FlushInv, TypeOK, WorkerBuild, dataVars,
              slotVars, callVars
<1>23. ASSUME NEW w \in Workers, WorkerQueues(w)
     PROVE  TypeOK'
  BY <1>23
  DEF FlushInv, TypeOK, CallerStates, WorkerStates, vars, dataVars,
      lockVars, slotVars, callVars, workVars, WorkerQueues, Queue
<1>24. ASSUME NEW w \in Workers, WorkerPublish(w)
     PROVE  TypeOK'
  BY <1>24
  DEF FlushInv, TypeOK, CallerStates, WorkerStates, vars, dataVars,
      lockVars, slotVars, callVars, workVars, WorkerPublish,
      WriteLock, Exit
<1>25. CASE UNCHANGED vars
  BY <1>25
  DEF FlushInv, TypeOK, CallerStates, WorkerStates, vars, dataVars,
      lockVars, slotVars, callVars, workVars
<1> QED BY <1>1, <1>2, <1>3, <1>4, <1>5, <1>6, <1>7, <1>8, <1>9, <1>10,
           <1>11, <1>12, <1>13, <1>14, <1>15, <1>16, <1>17, <1>18, <1>19,
           <1>20, <1>21, <1>22, <1>23, <1>24, <1>25
        DEF Next, CallerStep, WorkerStep, Terminated

\* Every step keeps the facts about labels, exclusion and handles: no handle
\* of a thread that has not been joined is ever lost.
LEMMA ControlStep == FlushInv /\ [Next]_vars => Control'
<1> SUFFICES ASSUME FlushInv, [Next]_vars PROVE Control'
  OBVIOUS
<1>1. ASSUME NEW c \in Callers, BeginShared(c)
     PROVE  Control'
  BY <1>1, FirstLabelType, IdentityAssumption
  DEF FlushInv, TypeOK, Control, CallShape, Exclusion, HeldInCall,
      Tracked, SlotEmptied, HoldingLabels, WaitLabels, AloneLabels,
      SharedOps, ExclusiveOps, slotVars, callVars, workVars,
      BeginShared, Begin
<1>2. ASSUME NEW c \in Callers, BeginExclusive(c)
     PROVE  Control'
  BY <1>2, FirstLabelType, IdentityAssumption
  DEF FlushInv, TypeOK, Control, CallShape, Exclusion, HeldInCall,
      Tracked, SlotEmptied, HoldingLabels, WaitLabels, AloneLabels,
      SharedOps, ExclusiveOps, slotVars, callVars, workVars,
      BeginExclusive, Begin
<1>3. ASSUME NEW c \in Callers, SearchLock(c)
     PROVE  Control'
  BY <1>3, IdentityAssumption
  DEF FlushInv, TypeOK, Control, CallShape, Exclusion, HeldInCall,
      Tracked, SlotEmptied, HoldingLabels, WaitLabels, AloneLabels,
      SharedOps, ExclusiveOps, slotVars, callVars, workVars,
      SearchLock, Return, Goto
<1>4. ASSUME NEW c \in Callers, SearchDone(c)
     PROVE  Control'
  BY <1>4, IdentityAssumption
  DEF FlushInv, TypeOK, Control, CallShape, Exclusion, HeldInCall,
      Tracked, SlotEmptied, HoldingLabels, WaitLabels, AloneLabels,
      SharedOps, ExclusiveOps, slotVars, callVars, workVars,
      SearchDone, Return
<1>5. ASSUME NEW c \in Callers, TakeJob(c)
     PROVE  Control'
  BY <1>5, IdentityAssumption
  DEF FlushInv, TypeOK, Control, CallShape, Exclusion, HeldInCall,
      Tracked, SlotEmptied, HoldingLabels, WaitLabels, AloneLabels,
      SharedOps, ExclusiveOps, slotVars, callVars, workVars, TakeJob,
      Goto
<1>6. ASSUME NEW c \in Callers, Join(c)
     PROVE  Control'
  BY <1>6, IdentityAssumption
  DEF FlushInv, TypeOK, Control, CallShape, Exclusion, HeldInCall,
      Tracked, SlotEmptied, HoldingLabels, WaitLabels, AloneLabels,
      SharedOps, ExclusiveOps, slotVars, callVars, workVars, Join,
      Reap, Goto
<1>7. ASSUME NEW c \in Callers, StoreError(c)
     PROVE  Control'
  BY <1>7, IdentityAssumption
  DEF FlushInv, TypeOK, Control, CallShape, Exclusion, HeldInCall,
      Tracked, SlotEmptied, HoldingLabels, WaitLabels, AloneLabels,
      SharedOps, ExclusiveOps, slotVars, callVars, workVars,
      StoreError, Leave, Return
<1>8. ASSUME NEW c \in Callers, DrainError(c)
     PROVE  Control'
  <2>1. /\ AfterWait(op[c]) \in {"idle", "hard_sync", "ensure", "persist", "append"}
        /\ AfterWait(op[c]) = "append" => op[c] = "add"
        /\ op[c] \in ExclusiveOps => AfterWait(op[c]) \in {"persist", "append"}
    BY <1>8, WaitingOp, AfterWaitType
    DEF DrainError, FlushInv, Control, WaitLabels
  <2> QED BY <1>8, <2>1, IdentityAssumption
          DEF FlushInv, TypeOK, Control, CallShape,
              Exclusion, HeldInCall, Tracked, SlotEmptied,
              HoldingLabels, WaitLabels, AloneLabels,
              SharedOps, ExclusiveOps, slotVars, callVars,
              workVars, DrainError, Leave, Return, Goto,
              GotoOrReturn
<1>9. ASSUME NEW c \in Callers, CheckError(c)
     PROVE  Control'
  BY <1>9, IdentityAssumption
  DEF FlushInv, TypeOK, Control, CallShape, Exclusion, HeldInCall,
      Tracked, SlotEmptied, HoldingLabels, WaitLabels, AloneLabels,
      SharedOps, ExclusiveOps, slotVars, callVars, workVars,
      CheckError, Return, Goto, GotoOrReturn
<1>10. ASSUME NEW c \in Callers, Snapshot(c)
     PROVE  Control'
  BY <1>10, IdentityAssumption
  DEF FlushInv, TypeOK, Control, CallShape, Exclusion, HeldInCall,
      Tracked, SlotEmptied, HoldingLabels, WaitLabels, AloneLabels,
      SharedOps, ExclusiveOps, slotVars, callVars, workVars,
      Snapshot, Return
<1>11. ASSUME NEW c \in Callers, SlotCheck(c)
     PROVE  Control'
  BY <1>11, IdentityAssumption
  DEF FlushInv, TypeOK, Control, CallShape, Exclusion, HeldInCall,
      Tracked, SlotEmptied, HoldingLabels, WaitLabels, AloneLabels,
      SharedOps, ExclusiveOps, slotVars, callVars, workVars,
      SlotCheck, Return, Goto, GotoOrReturn
<1>12. ASSUME NEW c \in Callers, Spawn(c)
     PROVE  Control'
  BY <1>12, IdentityAssumption
  DEF FlushInv, TypeOK, Control, CallShape, Exclusion, HeldInCall,
      Tracked, SlotEmptied, HoldingLabels, WaitLabels, AloneLabels,
      SharedOps, ExclusiveOps, slotVars, callVars, workVars, Spawn,
      Goto
<1>13. ASSUME NEW c \in Callers, StoreJob(c)
     PROVE  Control'
  BY <1>13, IdentityAssumption
  DEF FlushInv, TypeOK, Control, CallShape, Exclusion, HeldInCall,
      Tracked, SlotEmptied, HoldingLabels, WaitLabels, AloneLabels,
      SharedOps, ExclusiveOps, slotVars, callVars, workVars,
      StoreJob, Return, Goto
<1>14. ASSUME NEW c \in Callers, JoinSpare(c)
     PROVE  Control'
  BY <1>14, IdentityAssumption
  DEF FlushInv, TypeOK, Control, CallShape, Exclusion, HeldInCall,
      Tracked, SlotEmptied, HoldingLabels, WaitLabels, AloneLabels,
      SharedOps, ExclusiveOps, slotVars, callVars, workVars,
      JoinSpare, Reap, Return
<1>15. ASSUME NEW c \in Callers, CallerQueues(c)
     PROVE  Control'
  BY <1>15, IdentityAssumption
  DEF FlushInv, TypeOK, Control, CallShape, Exclusion, HeldInCall,
      Tracked, SlotEmptied, HoldingLabels, WaitLabels, AloneLabels,
      SharedOps, ExclusiveOps, slotVars, callVars, workVars,
      CallerQueues
<1>16. ASSUME NEW c \in Callers, HardSync(c)
     PROVE  Control'
  BY <1>16, IdentityAssumption
  DEF FlushInv, TypeOK, Control, CallShape, Exclusion, HeldInCall,
      Tracked, SlotEmptied, HoldingLabels, WaitLabels, AloneLabels,
      SharedOps, ExclusiveOps, slotVars, callVars, workVars,
      HardSync, Return
<1>17. ASSUME NEW c \in Callers, EnsureIndexSync(c)
     PROVE  Control'
  BY <1>17, IdentityAssumption
  DEF FlushInv, TypeOK, Control, CallShape, Exclusion, HeldInCall,
      Tracked, SlotEmptied, HoldingLabels, WaitLabels, AloneLabels,
      SharedOps, ExclusiveOps, slotVars, callVars, workVars,
      EnsureIndexSync, Return
<1>18. ASSUME NEW c \in Callers, PersistIndex(c)
     PROVE  Control'
  BY <1>18, IdentityAssumption
  DEF FlushInv, TypeOK, Control, CallShape, Exclusion, HeldInCall,
      Tracked, SlotEmptied, HoldingLabels, WaitLabels, AloneLabels,
      SharedOps, ExclusiveOps, slotVars, callVars, workVars,
      PersistIndex, Leave, Return
<1>19. ASSUME NEW c \in Callers, NEW n \in 1..MaxBatch, AppendRows(c, n)
     PROVE  Control'
  BY <1>19, IdentityAssumption
  DEF FlushInv, TypeOK, Control, CallShape, Exclusion, HeldInCall,
      Tracked, SlotEmptied, HoldingLabels, WaitLabels, AloneLabels,
      SharedOps, ExclusiveOps, slotVars, callVars, workVars,
      AppendRows, Return
<1>20. ASSUME NEW c \in Callers, AppendRefused(c)
     PROVE  Control'
  BY <1>20, IdentityAssumption
  DEF FlushInv, TypeOK, Control, CallShape, Exclusion, HeldInCall,
      Tracked, SlotEmptied, HoldingLabels, WaitLabels, AloneLabels,
      SharedOps, ExclusiveOps, slotVars, callVars, workVars,
      AppendRefused, Return
<1>21. ASSUME NEW w \in Workers, WorkerLock(w)
     PROVE  Control'
  BY <1>21, IdentityAssumption
  DEF FlushInv, TypeOK, Control, CallShape, Exclusion, HeldInCall,
      Tracked, SlotEmptied, HoldingLabels, WaitLabels, AloneLabels,
      SharedOps, ExclusiveOps, slotVars, callVars, workVars,
      WorkerLock, Exit
<1>22. ASSUME NEW w \in Workers, WorkerBuild(w)
     PROVE  Control'
  BY <1>22, IdentityAssumption
  DEF FlushInv, TypeOK, Control, CallShape, Exclusion, HeldInCall,
      Tracked, SlotEmptied, HoldingLabels, WaitLabels, AloneLabels,
      SharedOps, ExclusiveOps, slotVars, callVars, workVars,
      WorkerBuild, Exit
<1>23. ASSUME NEW w \in Workers, WorkerQueues(w)
     PROVE  Control'
  BY <1>23, IdentityAssumption
  DEF FlushInv, TypeOK, Control, CallShape, Exclusion, HeldInCall,
      Tracked, SlotEmptied, HoldingLabels, WaitLabels, AloneLabels,
      SharedOps, ExclusiveOps, slotVars, callVars, workVars,
      WorkerQueues
<1>24. ASSUME NEW w \in Workers, WorkerPublish(w)
     PROVE  Control'
  BY <1>24, IdentityAssumption
  DEF FlushInv, TypeOK, Control, CallShape, Exclusion, HeldInCall,
      Tracked, SlotEmptied, HoldingLabels, WaitLabels, AloneLabels,
      SharedOps, ExclusiveOps, slotVars, callVars, workVars,
      WorkerPublish, Exit
<1>25. CASE UNCHANGED vars
  BY <1>25
  DEF vars, FlushInv, TypeOK, Control, CallShape, Exclusion,
      HeldInCall, Tracked, SlotEmptied, HoldingLabels, WaitLabels,
      AloneLabels, SharedOps, ExclusiveOps, slotVars, callVars,
      workVars
<1> QED BY <1>1, <1>2, <1>3, <1>4, <1>5, <1>6, <1>7, <1>8, <1>9, <1>10,
           <1>11, <1>12, <1>13, <1>14, <1>15, <1>16, <1>17, <1>18, <1>19,
           <1>20, <1>21, <1>22, <1>23, <1>24, <1>25
        DEF Next, CallerStep, WorkerStep, Terminated

\* Every step keeps the facts about the counters: what a worker has built
\* still covers every row when it is published.
LEMMA CountsStep == FlushInv /\ [Next]_vars => Counts'
<1> SUFFICES ASSUME FlushInv, [Next]_vars PROVE Counts'
  OBVIOUS
<1>1. ASSUME NEW c \in Callers, BeginShared(c)
     PROVE  Counts'
  BY <1>1
  DEF FlushInv, TypeOK, Counts, CountersAgree, BuiltIsCurrent,
      dataVars, workVars, BeginShared, Begin
<1>2. ASSUME NEW c \in Callers, BeginExclusive(c)
     PROVE  Counts'
  BY <1>2
  DEF FlushInv, TypeOK, Counts, CountersAgree, BuiltIsCurrent,
      dataVars, workVars, BeginExclusive, Begin
<1>3. ASSUME NEW c \in Callers, SearchLock(c)
     PROVE  Counts'
  BY <1>3
  DEF FlushInv, TypeOK, Counts, CountersAgree, BuiltIsCurrent,
      dataVars, workVars, SearchLock
<1>4. ASSUME NEW c \in Callers, SearchDone(c)
     PROVE  Counts'
  BY <1>4
  DEF FlushInv, TypeOK, Counts, CountersAgree, BuiltIsCurrent,
      dataVars, workVars, SearchDone
<1>5. ASSUME NEW c \in Callers, TakeJob(c)
     PROVE  Counts'
  BY <1>5
  DEF FlushInv, TypeOK, Counts, CountersAgree, BuiltIsCurrent,
      dataVars, workVars, TakeJob
<1>6. ASSUME NEW c \in Callers, Join(c)
     PROVE  Counts'
  BY <1>6
  DEF FlushInv, TypeOK, Counts, CountersAgree, BuiltIsCurrent,
      dataVars, workVars, Join, Reap
<1>7. ASSUME NEW c \in Callers, StoreError(c)
     PROVE  Counts'
  BY <1>7
  DEF FlushInv, TypeOK, Counts, CountersAgree, BuiltIsCurrent,
      dataVars, workVars, StoreError
<1>8. ASSUME NEW c \in Callers, DrainError(c)
     PROVE  Counts'
  BY <1>8
  DEF FlushInv, TypeOK, Counts, CountersAgree, BuiltIsCurrent,
      dataVars, workVars, DrainError
<1>9. ASSUME NEW c \in Callers, CheckError(c)
     PROVE  Counts'
  BY <1>9
  DEF FlushInv, TypeOK, Counts, CountersAgree, BuiltIsCurrent,
      dataVars, workVars, CheckError
<1>10. ASSUME NEW c \in Callers, Snapshot(c)
     PROVE  Counts'
  BY <1>10
  DEF FlushInv, TypeOK, Counts, CountersAgree, BuiltIsCurrent,
      dataVars, workVars, Snapshot
<1>11. ASSUME NEW c \in Callers, SlotCheck(c)
     PROVE  Counts'
  BY <1>11
  DEF FlushInv, TypeOK, Counts, CountersAgree, BuiltIsCurrent,
      dataVars, workVars, SlotCheck
<1>12. ASSUME NEW c \in Callers, Spawn(c)
     PROVE  Counts'
  BY <1>12
  DEF FlushInv, TypeOK, Counts, CountersAgree, BuiltIsCurrent,
      dataVars, workVars, Spawn
<1>13. ASSUME NEW c \in Callers, StoreJob(c)
     PROVE  Counts'
  BY <1>13
  DEF FlushInv, TypeOK, Counts, CountersAgree, BuiltIsCurrent,
      dataVars, workVars, StoreJob
<1>14. ASSUME NEW c \in Callers, JoinSpare(c)
     PROVE  Counts'
  BY <1>14
  DEF FlushInv, TypeOK, Counts, CountersAgree, BuiltIsCurrent,
      dataVars, workVars, JoinSpare, Reap
<1>15. ASSUME NEW c \in Callers, CallerQueues(c)
     PROVE  Counts'
  BY <1>15
  DEF FlushInv, TypeOK, Counts, CountersAgree, BuiltIsCurrent,
      dataVars, workVars, CallerQueues
<1>16. ASSUME NEW c \in Callers, HardSync(c)
     PROVE  Counts'
  BY <1>16
  DEF FlushInv, TypeOK, Counts, CountersAgree, BuiltIsCurrent,
      dataVars, workVars, HardSync, WriteLock
<1>17. ASSUME NEW c \in Callers, EnsureIndexSync(c)
     PROVE  Counts'
  BY <1>17
  DEF FlushInv, TypeOK, Counts, CountersAgree, BuiltIsCurrent,
      dataVars, workVars, EnsureIndexSync, WriteLock, InPlaceSync
<1>18. ASSUME NEW c \in Callers, PersistIndex(c)
     PROVE  Counts'
  BY <1>18
  DEF FlushInv, TypeOK, Counts, CountersAgree, BuiltIsCurrent,
      dataVars, workVars, PersistIndex, WriteLock
<1>19. ASSUME NEW c \in Callers, NEW n \in 1..MaxBatch, AppendRows(c, n)
     PROVE  Counts'
  <2>1. \A w \in Workers : wpc[w] = "free"
    BY <1>19, AppendAlone DEF AppendRows, FlushInv
  <2>2. n \in Nat /\ len' = len + n
    BY <1>19, BoundAssumption DEF AppendRows
  <2>3. BuiltIsCurrent'
    BY <1>19, <2>1 DEF BuiltIsCurrent, AppendRows, workVars
  <2>4. indexed' <= len' /\ CountersAgree'
    BY <1>19, <2>2
    DEF FlushInv, TypeOK, Counts, CountersAgree, AppendRows,
        InPlaceSync
  <2> QED BY <2>3, <2>4 DEF Counts
<1>20. ASSUME NEW c \in Callers, AppendRefused(c)
     PROVE  Counts'
  BY <1>20
  DEF FlushInv, TypeOK, Counts, CountersAgree, BuiltIsCurrent,
      dataVars, workVars, AppendRefused, WriteLock
<1>21. ASSUME NEW w \in Workers, WorkerLock(w)
     PROVE  Counts'
  BY <1>21
  DEF FlushInv, TypeOK, Counts, CountersAgree, BuiltIsCurrent,
      dataVars, workVars, WorkerLock, Exit
<1>22. ASSUME NEW w \in Workers, WorkerBuild(w)
     PROVE  Counts'
  BY <1>22
  DEF FlushInv, TypeOK, Counts, CountersAgree, BuiltIsCurrent,
      dataVars, workVars, WorkerBuild, Exit
<1>23. ASSUME NEW w \in Workers, WorkerQueues(w)
     PROVE  Counts'
  BY <1>23
  DEF FlushInv, TypeOK, Counts, CountersAgree, BuiltIsCurrent,
      dataVars, workVars, WorkerQueues
<1>24. ASSUME NEW w \in Workers, WorkerPublish(w)
     PROVE  Counts'
  BY <1>24
  DEF FlushInv, TypeOK, Counts, CountersAgree, BuiltIsCurrent,
      dataVars, workVars, WorkerPublish, WriteLock, Exit
<1>25. CASE UNCHANGED vars
  BY <1>25
  DEF vars, FlushInv, TypeOK, Counts, CountersAgree, BuiltIsCurrent,
      dataVars, workVars
<1> QED BY <1>1, <1>2, <1>3, <1>4, <1>5, <1>6, <1>7, <1>8, <1>9, <1>10,
           <1>11, <1>12, <1>13, <1>14, <1>15, <1>16, <1>17, <1>18, <1>19,
           <1>20, <1>21, <1>22, <1>23, <1>24, <1>25
        DEF Next, CallerStep, WorkerStep, Terminated

\* Every step keeps the soft and the hard path of schedule_background_flush
\* apart.
LEMMA PathsStep == FlushInv /\ [Next]_vars => PathsApart'
<1> SUFFICES ASSUME FlushInv, [Next]_vars PROVE PathsApart'
  OBVIOUS
<1>1. ASSUME NEW c \in Callers, BeginShared(c)
     PROVE  PathsApart'
  BY <1>1, FirstLabelType, ThresholdAssumption
  DEF FlushInv, TypeOK, PathsApart, SoftSyncing, Spawning, Live,
      OnHardPath, WaitLabels, dataVars, callVars, workVars,
      BeginShared, Begin
<1>2. ASSUME NEW c \in Callers, BeginExclusive(c)
     PROVE  PathsApart'
  BY <1>2, FirstLabelType, ThresholdAssumption
  DEF FlushInv, TypeOK, PathsApart, SoftSyncing, Spawning, Live,
      OnHardPath, WaitLabels, dataVars, callVars, workVars,
      BeginExclusive, Begin
<1>3. ASSUME NEW c \in Callers, SearchLock(c)
     PROVE  PathsApart'
  BY <1>3, ThresholdAssumption
  DEF FlushInv, TypeOK, PathsApart, SoftSyncing, Spawning, Live,
      OnHardPath, WaitLabels, dataVars, callVars, workVars,
      SearchLock, Return, Goto
<1>4. ASSUME NEW c \in Callers, SearchDone(c)
     PROVE  PathsApart'
  BY <1>4, ThresholdAssumption
  DEF FlushInv, TypeOK, PathsApart, SoftSyncing, Spawning, Live,
      OnHardPath, WaitLabels, dataVars, callVars, workVars,
      SearchDone, Return
<1>5. ASSUME NEW c \in Callers, TakeJob(c)
     PROVE  PathsApart'
  BY <1>5, ThresholdAssumption
  DEF FlushInv, TypeOK, PathsApart, SoftSyncing, Spawning, Live,
      OnHardPath, WaitLabels, dataVars, callVars, workVars, TakeJob,
      Goto
<1>6. ASSUME NEW c \in Callers, Join(c)
     PROVE  PathsApart'
  BY <1>6, ThresholdAssumption
  DEF FlushInv, TypeOK, PathsApart, SoftSyncing, Spawning, Live,
      OnHardPath, WaitLabels, dataVars, callVars, workVars, Join,
      Reap, Goto
<1>7. ASSUME NEW c \in Callers, StoreError(c)
     PROVE  PathsApart'
  BY <1>7, ThresholdAssumption
  DEF FlushInv, TypeOK, PathsApart, SoftSyncing, Spawning, Live,
      OnHardPath, WaitLabels, dataVars, callVars, workVars,
      StoreError, Leave, Return
<1>8. ASSUME NEW c \in Callers, DrainError(c)
     PROVE  PathsApart'
  <2>1. /\ AfterWait(op[c]) \in {"idle", "hard_sync", "ensure", "persist", "append"}
        /\ AfterWait(op[c]) = "hard_sync" => op[c] = "schedule"
    BY <1>8, WaitingOp, AfterWaitType
    DEF DrainError, FlushInv, Control, WaitLabels
  <2> QED BY <1>8, <2>1, ThresholdAssumption
          DEF FlushInv, TypeOK, PathsApart, SoftSyncing,
              Spawning, Live, OnHardPath, WaitLabels,
              dataVars, callVars, workVars, DrainError,
              Leave, Return, Goto, GotoOrReturn
<1>9. ASSUME NEW c \in Callers, CheckError(c)
     PROVE  PathsApart'
  BY <1>9, ThresholdAssumption
  DEF FlushInv, TypeOK, PathsApart, SoftSyncing, Spawning, Live,
      OnHardPath, WaitLabels, dataVars, callVars, workVars,
      CheckError, Return, Goto, GotoOrReturn
<1>10. ASSUME NEW c \in Callers, Snapshot(c)
     PROVE  PathsApart'
  BY <1>10, ThresholdAssumption
  DEF FlushInv, TypeOK, PathsApart, SoftSyncing, Spawning, Live,
      OnHardPath, WaitLabels, dataVars, callVars, workVars, Snapshot,
      Return
<1>11. ASSUME NEW c \in Callers, SlotCheck(c)
     PROVE  PathsApart'
  BY <1>11, ThresholdAssumption
  DEF FlushInv, TypeOK, PathsApart, SoftSyncing, Spawning, Live,
      OnHardPath, WaitLabels, dataVars, callVars, workVars,
      SlotCheck, Return, Goto, GotoOrReturn
<1>12. ASSUME NEW c \in Callers, Spawn(c)
     PROVE  PathsApart'
  BY <1>12, ThresholdAssumption
  DEF FlushInv, TypeOK, PathsApart, SoftSyncing, Spawning, Live,
      OnHardPath, WaitLabels, dataVars, callVars, workVars, Spawn,
      Goto
<1>13. ASSUME NEW c \in Callers, StoreJob(c)
     PROVE  PathsApart'
  BY <1>13, ThresholdAssumption
  DEF FlushInv, TypeOK, PathsApart, SoftSyncing, Spawning, Live,
      OnHardPath, WaitLabels, dataVars, callVars, workVars, StoreJob,
      Return, Goto
<1>14. ASSUME NEW c \in Callers, JoinSpare(c)
     PROVE  PathsApart'
  BY <1>14, ThresholdAssumption
  DEF FlushInv, TypeOK, PathsApart, SoftSyncing, Spawning, Live,
      OnHardPath, WaitLabels, dataVars, callVars, workVars,
      JoinSpare, Reap, Return
<1>15. ASSUME NEW c \in Callers, CallerQueues(c)
     PROVE  PathsApart'
  BY <1>15, ThresholdAssumption
  DEF FlushInv, TypeOK, PathsApart, SoftSyncing, Spawning, Live,
      OnHardPath, WaitLabels, dataVars, callVars, workVars,
      CallerQueues
<1>16. ASSUME NEW c \in Callers, HardSync(c)
     PROVE  PathsApart'
  BY <1>16, ThresholdAssumption
  DEF FlushInv, TypeOK, PathsApart, SoftSyncing, Spawning, Live,
      OnHardPath, WaitLabels, dataVars, callVars, workVars, HardSync,
      Return
<1>17. ASSUME NEW c \in Callers, EnsureIndexSync(c)
     PROVE  PathsApart'
  BY <1>17, ThresholdAssumption
  DEF FlushInv, TypeOK, PathsApart, SoftSyncing, Spawning, Live,
      OnHardPath, WaitLabels, dataVars, callVars, workVars,
      EnsureIndexSync, Return, InPlaceSync
<1>18. ASSUME NEW c \in Callers, PersistIndex(c)
     PROVE  PathsApart'
  BY <1>18, ThresholdAssumption
  DEF FlushInv, TypeOK, PathsApart, SoftSyncing, Spawning, Live,
      OnHardPath, WaitLabels, dataVars, callVars, workVars,
      PersistIndex, Leave, Return
<1>19. ASSUME NEW c \in Callers, NEW n \in 1..MaxBatch, AppendRows(c, n)
     PROVE  PathsApart'
  <2>1. /\ \A w \in Workers : wpc[w] = "free"
        /\ \A d \in Callers \ {c} : pc[d] = "idle"
    BY <1>19, AppendAlone DEF AppendRows, FlushInv
  <2>2. \A d \in Callers : pc'[d] = "idle"
    BY <1>19, <2>1 DEF AppendRows, Return, FlushInv, TypeOK
  <2>3. ~SoftSyncing'
    BY <1>19, <2>1, <2>2 DEF SoftSyncing, Live, Spawning, AppendRows, workVars
  <2> QED BY <2>2, <2>3 DEF PathsApart, OnHardPath, WaitLabels
<1>20. ASSUME NEW c \in Callers, AppendRefused(c)
     PROVE  PathsApart'
  BY <1>20, ThresholdAssumption
  DEF FlushInv, TypeOK, PathsApart, SoftSyncing, Spawning, Live,
      OnHardPath, WaitLabels, dataVars, callVars, workVars,
      AppendRefused, Return
<1>21. ASSUME NEW w \in Workers, WorkerLock(w)
     PROVE  PathsApart'
  BY <1>21, ThresholdAssumption
  DEF FlushInv, TypeOK, PathsApart, SoftSyncing, Spawning, Live,
      OnHardPath, WaitLabels, dataVars, callVars, workVars,
      WorkerLock, Exit
<1>22. ASSUME NEW w \in Workers, WorkerBuild(w)
     PROVE  PathsApart'
  BY <1>22, ThresholdAssumption
  DEF FlushInv, TypeOK, PathsApart, SoftSyncing, Spawning, Live,
      OnHardPath, WaitLabels, dataVars, callVars, workVars,
      WorkerBuild, Exit
<1>23. ASSUME NEW w \in Workers, WorkerQueues(w)
     PROVE  PathsApart'
  BY <1>23, ThresholdAssumption
  DEF FlushInv, TypeOK, PathsApart, SoftSyncing, Spawning, Live,
      OnHardPath, WaitLabels, dataVars, callVars, workVars,
      WorkerQueues
<1>24. ASSUME NEW w \in Workers, WorkerPublish(w)
     PROVE  PathsApart'
  BY <1>24, ThresholdAssumption
  DEF FlushInv, TypeOK, PathsApart, SoftSyncing, Spawning, Live,
      OnHardPath, WaitLabels, dataVars, callVars, workVars,
      WorkerPublish, Exit
<1>25. CASE UNCHANGED vars
  BY <1>25
  DEF vars, FlushInv, TypeOK, PathsApart, SoftSyncing, Spawning,
      Live, OnHardPath, WaitLabels, dataVars, callVars, workVars
<1> QED BY <1>1, <1>2, <1>3, <1>4, <1>5, <1>6, <1>7, <1>8, <1>9, <1>10,
           <1>11, <1>12, <1>13, <1>14, <1>15, <1>16, <1>17, <1>18, <1>19,
           <1>20, <1>21, <1>22, <1>23, <1>24, <1>25
        DEF Next, CallerStep, WorkerStep, Terminated

----------------------------------------------------------------------------
(* The theorems                                                            *)

\* The invariant is inductive: it holds whatever the callers and the workers
\* of flush_controller.rs have done so far.
THEOREM Invariance == Spec => []FlushInv
<1>1. FlushInv /\ [Next]_vars => FlushInv'
  BY TypeStep, ControlStep, CountsStep, PathsStep DEF FlushInv
<1> QED BY InitInv, <1>1, PTL DEF Spec

\* Every variable keeps its type in every run of the controller; the pending
\* counter in particular never goes below 0 (it is a usize in the code).
THEOREM TypeCorrect == Spec => []TypeOK
<1>1. FlushInv => TypeOK
  BY DEF FlushInv
<1> QED BY Invariance, <1>1, PTL

\* The pending counter counts the rows the published index does not cover,
\* for any number of threads (soft_sync_publish and ensure_index_sync_with_scale
\* store 0, append_rows adds).
THEOREM CountersAlwaysAgree == Spec => []CountersAgree
<1>1. FlushInv => CountersAgree
  BY DEF FlushInv, Counts
<1> QED BY Invariance, <1>1, PTL

\* No flush is left behind by a race for the slot or for the handle: at rest
\* the only thread that can run is the one wait_for_flush would join.
THEOREM FlushNeverLost == Spec => []QuiescentFlushInSlot
<1>1. FlushInv => QuiescentFlushInSlot
  <2> SUFFICES ASSUME FlushInv, \A c \in Callers : pc[c] = "idle",
                      NEW w \in Workers, Live(w)
               PROVE  job = w
    BY DEF QuiescentFlushInSlot
  <2>1. \A c \in Callers : held[c] # w
    BY IdentityAssumption DEF FlushInv, Control, HeldInCall, HoldingLabels
  <2>2. wpc[w] # "free"
    BY DEF Live
  <2> QED BY <2>1, <2>2 DEF FlushInv, Control, Tracked
<1> QED BY Invariance, <1>1, PTL

\* The hard path of schedule_background_flush never overlaps a soft sync,
\* although it may pass wait_for_flush without having joined anything.
THEOREM HardPathAlwaysAlone == Spec => []HardPathAlone
<1>1. FlushInv => HardPathAlone
  BY DEF FlushInv, PathsApart, HardPathAlone, OnHardPath, SoftSyncing
<1> QED BY Invariance, <1>1, PTL

\* "pending cannot grow mid-flight": while rows are appended no worker is
\* between its spawn and its end.
THEOREM AppendNeverMidFlight == Spec => NoAppendMidFlight
<1>1. FlushInv /\ [Next]_vars =>
          [len' # len => \A w \in Workers : ~Live(w)]_vars
  <2> SUFFICES ASSUME FlushInv, Next, len' # len
               PROVE  \A w \in Workers : ~Live(w)
    OBVIOUS
  <2>1. PICK c \in Callers : \E n \in 1..MaxBatch : AppendRows(c, n)
    BY DEF Next, BeginShared, BeginExclusive, Begin, CallerStep, WorkerStep,
           Terminated, SearchLock, SearchDone, TakeJob, Join, StoreError,
           DrainError, CheckError, Snapshot, SlotCheck, Spawn, StoreJob,
           JoinSpare, CallerQueues, HardSync, EnsureIndexSync, PersistIndex,
           AppendRefused, WorkerLock, WorkerBuild, WorkerQueues, WorkerPublish,
           vars, dataVars
  <2>2. pc[c] = "append"
    BY <2>1 DEF AppendRows
  <2> QED BY <2>2, AppendAlone DEF FlushInv, Live
<1> QED BY Invariance, <1>1, PTL DEF Spec, NoAppendMidFlight

\* The two counts implement the abstract log: the indexed prefix never
\* shrinks and only jumps to the end, blind publication notwithstanding.
THEOREM RefinesIndexedLog == Spec => RefinesLog
<1>1. Init => Log!LogInit
  BY BoundAssumption DEF Init, Log!LogInit
<1>2. FlushInv /\ [Next]_vars => [Log!LogNext]_(Log!logVars)
  <2> SUFFICES ASSUME FlushInv, Next, ~UNCHANGED <<len, indexed>>
               PROVE  Log!Add \/ Log!Sync
    BY DEF Log!LogNext, Log!logVars, vars, dataVars
  <2>1. CASE \E c \in Callers : HardSync(c) \/ EnsureIndexSync(c) \/ PersistIndex(c)
    BY <2>1 DEF FlushInv, TypeOK, Counts, Log!Sync, HardSync, EnsureIndexSync,
                PersistIndex, InPlaceSync, dataVars
  <2>2. ASSUME NEW c \in Callers, NEW n \in 1..MaxBatch, AppendRows(c, n)
        PROVE  Log!Add
    BY <2>2, BoundAssumption DEF FlushInv, TypeOK, Log!Add, AppendRows, InPlaceSync
  <2>3. CASE \E w \in Workers : WorkerPublish(w)
    BY <2>3 DEF FlushInv, Counts, BuiltIsCurrent, Log!Sync, WorkerPublish
  <2>4. \/ \E c \in Callers : HardSync(c) \/ EnsureIndexSync(c) \/ PersistIndex(c)
        \/ \E c \in Callers : \E n \in 1..MaxBatch : AppendRows(c, n)
        \/ \E w \in Workers : WorkerPublish(w)
    BY DEF Next, BeginShared, BeginExclusive, Begin, CallerStep, WorkerStep,
           Terminated, SearchLock, SearchDone, TakeJob, Join, StoreError,
           DrainError, CheckError, Snapshot, SlotCheck, Spawn, StoreJob,
           JoinSpare, CallerQueues, AppendRefused, WorkerLock, WorkerBuild,
           WorkerQueues, vars, dataVars
  <2> QED BY <2>1, <2>2, <2>3, <2>4
<1> QED BY Invariance, <1>1, <1>2, PTL DEF Spec, RefinesLog, Log!LogSpec

=============================================================================
