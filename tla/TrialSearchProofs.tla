-------------------------- MODULE TrialSearchProofs --------------------------
(***************************************************************************)
(* What the trial search keeps for any rows, seeds and capacity: a record  *)
(* of the history is the row it was measured on, a slot is free for every  *)
(* trial, the device scores with the history, and the slots implement the  *)
(* log the caller believes in.  And what a resident decoder of any number  *)
(* of layers keeps on top of it, kernel by kernel: bound to the pending    *)
(* trial, prepared and reset, it answers from that trial alone.            *)
(***************************************************************************)
EXTENDS ResidentDecoder, NumberFacts, FiniteSetTheorems

\* The center always has a row.
BaseIsModel == rows[base] \in Models

\* The pending trial has the last id given out, a slot that neither the center
\* nor the history refers to, and what will be written there, or was, is the
\* row the caller evaluates.
PendingInv ==
    pending # NoTrial =>
        /\ pending.id \in 0..(Len(trials) - 1)
        /\ pending.slot # base
        /\ \A i \in DOMAIN history : history[i].slot # pending.slot
        /\ trials[pending.id + 1] = IF pending.materialized THEN rows[pending.slot]
                                    ELSE Perturbed[rows[base], pending.seed]

\* All that is proved by induction.
SearchInv == /\ TypeOK
             /\ BaseIsModel
             /\ PendingInv
             /\ HistoryRowsMatch
             /\ DeviceIsCurrent

----------------------------------------------------------------------------
(* Operators                                                               *)

LEMMA RecordsHaveSlots ==
    ASSUME NEW h \in Seq(Records)
    PROVE  \A i \in DOMAIN h : h[i] \in Records /\ h[i].slot \in Slots
<1>1. \A i \in DOMAIN h : h[i] \in Records
  OBVIOUS
<1>. QED
  BY <1>1 DEF Records, Slots

\* The lowest of some natural numbers is one of them.
LEMMA LowestIsMember ==
    ASSUME NEW T \in SUBSET Nat, T # {}
    PROVE  (CHOOSE s \in T : \A t \in T : s <= t) \in T
<1>1. PICK x \in T : \A y \in T : ~ (<<y, x>> \in OpToRel(<, Nat))
  <2>1. T \subseteq Nat
    OBVIOUS
  <2>. QED
    BY <2>1, NatLessThanWellFounded, WFMin, Zenon
<1>2. \A y \in T : ~ (y < x)
  <2>1. \A y \in Nat : y < x => <<y, x>> \in OpToRel(<, Nat)
    BY Zenon DEF OpToRel
  <2>. QED
    BY <1>1, <2>1, Zenon
<1>3. \E s \in T : \A t \in T : s <= t
  BY <1>2
<1>. QED
  BY <1>3, Zenon

\* find: the slot it gives is free.
LEMMA FreeSlotIsFree ==
    ASSUME NEW h, Capacity \in Nat, FreeSlots(h) # {}
    PROVE  FreeSlot(h) \in FreeSlots(h)
<1>1. FreeSlots(h) \in SUBSET Nat
  BY DEF FreeSlots, Slots
<1>. QED
  BY <1>1, LowestIsMember, Zenon DEF FreeSlot

\* A history and a center refer to fewer slots than there are.
LEMMA EnoughSlots ==
    ASSUME NEW h \in Seq(Records), Len(h) <= Capacity, base \in Slots,
           pending = NoTrial
    PROVE  FreeSlots(h) # {}
<1> SUFFICES ASSUME FreeSlots(h) = {} PROVE FALSE
  OBVIOUS
<1> DEFINE f == [s \in Slots |-> IF s = base THEN 0
                                 ELSE CHOOSE i \in DOMAIN h : h[i].slot = s]
           T == 0..Capacity
<1>1. Capacity \in Nat /\ Len(h) \in Nat /\ DOMAIN h = 1..Len(h)
  BY TrialSearchAssumption
<1>2. \A s \in Slots : s # base => \E i \in DOMAIN h : h[i].slot = s
  BY DEF FreeSlots
<1>3. \A s \in Slots : s # base => f[s] \in DOMAIN h /\ h[f[s]].slot = s
  BY <1>2, Zenon
<1>4. f \in [Slots -> T]
  <2>1. \A s \in Slots : f[s] \in T
    <3>1. f[base] = 0
      OBVIOUS
    <3> HIDE DEF f
    <3>. QED
      BY <1>1, <1>3, <3>1
  <2>. QED
    BY <2>1, Zenon
<1>5. /\ IsFiniteSet(Slots) /\ IsFiniteSet(T)
      /\ Cardinality(T) < Cardinality(Slots)
  BY <1>1, FS_Interval DEF Slots
<1>6. PICK x, y \in Slots : x # y /\ f[x] = f[y]
  <2> HIDE DEF f, T
  <2>. QED
    BY <1>4, <1>5, FS_PigeonHole
<1>7. f[base] = 0
  OBVIOUS
<1> HIDE DEF f, T
<1>. QED
  BY <1>1, <1>3, <1>6, <1>7

\* take: the slots of a load are those of its models, each its own, and none
\* is the center's.
LEMMA LoadSlotsApart ==
    ASSUME NEW n \in 0..Capacity, base \in Slots
    PROVE  /\ DOMAIN LoadSlots(n) = 1..n
           /\ \A i \in 1..n : LoadSlots(n)[i] \in Slots \ {base}
           /\ \A i, j \in 1..n : LoadSlots(n)[i] = LoadSlots(n)[j] => i = j
  BY TrialSearchAssumption DEF LoadSlots, Slots

\* A load leaves the center's row, and every record it makes has its row.
LEMMA LoadIsWhole ==
    ASSUME SearchInv, NEW n \in 0..Capacity, NEW models \in [1..n -> Models]
    PROVE  /\ Loaded(models) \in [Slots -> Models \cup {NoModel}]
           /\ Loaded(models)[base] = rows[base]
           /\ LoadedRecords(models) \in Seq(Records)
           /\ Len(LoadedRecords(models)) = n
           /\ \A i \in DOMAIN LoadedRecords(models) :
                Loaded(models)[LoadedRecords(models)[i].slot] = LoadedRecords(models)[i].value
           /\ \A i \in DOMAIN LoadedRecords(models) : LoadedRecords(models)[i].slot # base
           /\ \A i \in DOMAIN LoadedRecords(models) : LoadedRecords(models)[i].value = models[i]
<1> DEFINE ls == LoadSlots(n)
           rs == LoadedRecords(models)
           r == Loaded(models)
<1>1. Len(models) = n /\ n \in Nat
  <2>1. n \in Nat
    BY TrialSearchAssumption
  <2>2. models \in Seq(Models)
    BY <2>1
  <2>. QED
    BY <2>1, <2>2
<1>2. base \in Slots /\ rows \in [Slots -> Models \cup {NoModel}]
  BY DEF SearchInv, TypeOK
<1>3. /\ DOMAIN ls = 1..n
      /\ \A i \in 1..n : ls[i] \in Slots \ {base}
      /\ \A i, j \in 1..n : ls[i] = ls[j] => i = j
  BY <1>2, LoadSlotsApart
<1>4. r = [s \in Slots |-> IF \E i \in DOMAIN ls : ls[i] = s
                           THEN models[CHOOSE i \in DOMAIN ls : ls[i] = s]
                           ELSE rows[s]]
  BY <1>1, Zenon DEF Loaded
<1>5. rs = [i \in 1..n |-> [slot |-> ls[i], value |-> models[i]]]
  BY <1>1, Zenon DEF LoadedRecords
<1> HIDE DEF ls, rs, r
<1>6. \A i \in 1..n : (CHOOSE j \in DOMAIN ls : ls[j] = ls[i]) = i
  BY <1>3, Zenon
<1>7. \A i \in 1..n : r[ls[i]] = models[i]
  BY <1>3, <1>4, <1>6, Zenon
<1>8. r[base] = rows[base]
  BY <1>2, <1>3, <1>4, Zenon
<1>9. r \in [Slots -> Models \cup {NoModel}]
  <2>1. \A s \in Slots : r[s] \in Models \cup {NoModel}
    <3> SUFFICES ASSUME NEW s \in Slots PROVE r[s] \in Models \cup {NoModel}
      OBVIOUS
    <3>1. CASE \E i \in DOMAIN ls : ls[i] = s
      <4>1. PICK i \in 1..n : ls[i] = s
        BY <1>3, <3>1
      <4>. QED
        BY <1>7, <4>1, Zenon
    <3>2. CASE ~ \E i \in DOMAIN ls : ls[i] = s
      BY <1>2, <1>4, <3>2, Zenon
    <3>. QED
      BY <3>1, <3>2
  <2>. QED
    BY <1>4, <2>1, Zenon
<1>10. /\ rs \in [1..n -> Records]
       /\ DOMAIN rs = 1..n
       /\ \A i \in 1..n : rs[i].slot = ls[i] /\ rs[i].value = models[i]
  BY <1>3, <1>5 DEF Records, Slots
<1>11. rs \in Seq(Records) /\ Len(rs) = n
  BY <1>1, <1>10
<1>12. \A i \in DOMAIN rs : /\ r[rs[i].slot] = rs[i].value
                           /\ rs[i].slot # base
                           /\ rs[i].value = models[i]
  <2> SUFFICES ASSUME NEW i \in 1..n
               PROVE  /\ r[rs[i].slot] = rs[i].value
                      /\ rs[i].slot # base
                      /\ rs[i].value = models[i]
    BY <1>10
  <2>. QED
    BY <1>3, <1>7, <1>10
<1>. QED
  BY <1>8, <1>9, <1>11, <1>12, Zenon DEF rs, r

\* sync_history: whether it appends or rewrites, the device then has h.
LEMMA SyncIsWhole ==
    ASSUME SearchInv, NEW h \in Seq(Records), Len(h) <= Capacity
    PROVE  /\ SyncHistory(h) \in [1..Capacity -> Records \cup {NoRecord}]
           /\ \A i \in DOMAIN h : SyncHistory(h)[i] = h[i]
<1> DEFINE start == IF IsPrefix(resident, h) THEN Len(resident) ELSE 0
<1>1. /\ resident \in Seq(Records) /\ Len(resident) <= Capacity
      /\ device \in [1..Capacity -> Records \cup {NoRecord}]
      /\ \A i \in DOMAIN resident : device[i] = resident[i]
  BY DEF SearchInv, TypeOK, DeviceIsCurrent
<1>2. Capacity \in Nat /\ Len(h) \in Nat /\ DOMAIN h = 1..Len(h)
  BY TrialSearchAssumption
<1>3. start \in Nat
  BY <1>1
<1>4. \A i \in 1..start : i <= Len(h) => device[i] = h[i]
  <2>1. CASE IsPrefix(resident, h)
    <3>1. /\ Len(resident) <= Len(h)
          /\ SubSeq(resident, 1, Len(resident)) = SubSeq(h, 1, Len(resident))
      BY <2>1 DEF IsPrefix
    <3>2. \A i \in 1..Len(resident) :
              /\ SubSeq(resident, 1, Len(resident))[i] = resident[i]
              /\ SubSeq(h, 1, Len(resident))[i] = h[i]
      BY <1>1, <1>2, <3>1
    <3>. QED
      BY <1>1, <2>1, <3>1, <3>2
  <2>2. CASE ~IsPrefix(resident, h)
    BY <2>2
  <2>. QED
    BY <2>1, <2>2
<1>5. SyncHistory(h) =
        [i \in 1..Capacity |-> IF i > start /\ i <= Len(h) THEN h[i] ELSE device[i]]
  BY Zenon DEF SyncHistory
<1> HIDE DEF start
<1>. QED
  BY <1>1, <1>2, <1>3, <1>4, <1>5

\* materialize_pending: what ends up in the slot of the trial is the row the
\* caller evaluates, and no other slot is written.
LEMMA PendingRowIsTheTrials ==
    ASSUME SearchInv, pending # NoTrial
    PROVE  /\ pending \in Pendings /\ pending.slot \in Slots \ {base}
           /\ trials[pending.id + 1] \in Models
           /\ PendingRows \in [Slots -> Models \cup {NoModel}]
           /\ PendingRows[pending.slot] = trials[pending.id + 1]
           /\ \A s \in Slots : s # pending.slot => PendingRows[s] = rows[s]
<1>1. /\ rows \in [Slots -> Models \cup {NoModel}]
      /\ trials \in Seq(Models) /\ base \in Slots
      /\ pending \in Pendings
  BY DEF SearchInv, TypeOK
<1>2. pending.slot \in Slots /\ pending.id \in Nat
  BY <1>1 DEF Pendings, Slots
<1>3. /\ pending.id \in 0..(Len(trials) - 1)
      /\ pending.slot # base
      /\ trials[pending.id + 1] = IF pending.materialized THEN rows[pending.slot]
                                  ELSE Perturbed[rows[base], pending.seed]
  BY DEF SearchInv, PendingInv
<1>4. trials[pending.id + 1] \in Models
  <2>1. pending.id \in 0..(Len(trials) - 1)
    BY <1>3
  <2>2. Len(trials) \in Nat
    BY <1>1
  <2>3. pending.id + 1 \in 1..Len(trials)
    BY <2>1, <2>2
  <2>. QED
    BY <1>1, <2>3
<1>5. /\ PendingRows \in [Slots -> Models \cup {NoModel}]
      /\ PendingRows[pending.slot] = trials[pending.id + 1]
      /\ \A s \in Slots : s # pending.slot => PendingRows[s] = rows[s]
  <2>1. CASE pending.materialized
    BY <1>1, <1>2, <1>3, <2>1 DEF PendingRows
  <2>2. CASE ~pending.materialized
    <3>1. PendingRows = [rows EXCEPT ![pending.slot] = trials[pending.id + 1]]
      BY <1>3, <2>2 DEF PendingRows, Materialize
    <3>. QED
      BY <1>1, <1>2, <1>4, <3>1
  <2>. QED
    BY <2>1, <2>2
<1>. QED
  BY <1>1, <1>2, <1>3, <1>4, <1>5

----------------------------------------------------------------------------
(* Steps                                                                   *)

\* A trial of the center on the arena r and the history h: its slot is
\* neither the center's nor one of the history's.
LEMMA ProposeStep ==
    ASSUME SearchInv, NEW materialized \in BOOLEAN,
           NEW r \in [Slots -> Models \cup {NoModel}], r[base] = rows[base],
           NEW h \in Seq(Records), Len(h) <= Capacity,
           \A i \in DOMAIN h : r[h[i].slot] = h[i].value,
           Propose(r, h, materialized)
    PROVE  SearchInv'
<1> DEFINE slot == FreeSlot(h)
<1>1. PICK seed \in Seeds :
        /\ pending' = [id |-> Len(trials), slot |-> slot, seed |-> seed,
                       materialized |-> materialized]
        /\ rows' = IF materialized THEN Materialize(r, slot, seed) ELSE r
        /\ trials' = Append(trials, Perturbed[r[base], seed])
  BY DEF Propose
<1>2. /\ pending = NoTrial /\ FreeSlots(h) # {} /\ Score(h)
      /\ history' = h /\ base' = base /\ archive' = archive
  BY DEF Propose
<1>3. /\ base \in Slots /\ rows[base] \in Models
      /\ trials \in Seq(Models) /\ Len(trials) \in Nat
      /\ archive \in Seq(Models) /\ Capacity \in Nat
  BY TrialSearchAssumption DEF SearchInv, TypeOK, BaseIsModel
<1>4. slot \in Slots /\ slot # base /\ \A i \in DOMAIN h : h[i].slot # slot
  <2>1. slot \in FreeSlots(h)
    BY <1>2, <1>3, FreeSlotIsFree
  <2>. QED
    BY <2>1 DEF FreeSlots
<1> HIDE DEF slot
<1>5. Perturbed[r[base], seed] \in Models
  BY <1>3, TrialSearchAssumption
<1>6. /\ rows' \in [Slots -> Models \cup {NoModel}]
      /\ \A s \in Slots : s # slot => rows'[s] = r[s]
      /\ materialized => rows'[slot] = Perturbed[r[base], seed]
  BY <1>1, <1>4, <1>5 DEF Materialize
<1>7. /\ pending'.id = Len(trials) /\ pending'.slot = slot
      /\ pending'.seed = seed /\ pending'.materialized = materialized
      /\ pending' \in Pendings /\ pending' # NoTrial
  <2>1. slot \in 0..(Capacity + 1) /\ NoTrial \notin Pendings
    BY <1>4, TrialSearchAssumption DEF Slots
  <2>2. pending' = [id |-> Len(trials), slot |-> slot, seed |-> seed,
                    materialized |-> materialized]
    BY <1>1
  <2>3. pending' \in Pendings
    BY <1>3, <2>1, <2>2, Zenon DEF Pendings
  <2>4. /\ pending'.id = Len(trials) /\ pending'.slot = slot
        /\ pending'.seed = seed /\ pending'.materialized = materialized
    BY <2>2, Zenon
  <2>. QED
    BY <2>1, <2>3, <2>4
<1>8. /\ trials' \in Seq(Models) /\ Len(trials') = Len(trials) + 1
      /\ trials'[Len(trials) + 1] = Perturbed[r[base], seed]
  <2> DEFINE m == Perturbed[r[base], seed]
  <2> HIDE DEF m
  <2>1. trials' = Append(trials, m) /\ m \in Models
    BY <1>1, <1>5 DEF m
  <2>2. trials' \in Seq(Models) /\ Len(trials') = Len(trials) + 1 /\ trials'[Len(trials) + 1] = m
    BY <1>3, <2>1
  <2>. QED
    BY <2>2 DEF m
<1>9. /\ resident' = h
      /\ device' \in [1..Capacity -> Records \cup {NoRecord}]
      /\ \A i \in DOMAIN h : device'[i] = h[i]
  BY <1>2, SyncIsWhole DEF Score
<1>10. TypeOK'
  BY <1>2, <1>3, <1>6, <1>7, <1>8, <1>9 DEF TypeOK, Slots
<1>11. BaseIsModel'
  BY <1>2, <1>3, <1>4, <1>6 DEF BaseIsModel
<1>12. PendingInv'
  <2>1. pending'.id \in 0..(Len(trials') - 1)
    <3>1. Len(trials') = Len(trials) + 1
      BY <1>8
    <3>. QED
      BY <1>3, <1>7, <3>1
  <2>2. trials'[pending'.id + 1] = IF pending'.materialized THEN rows'[pending'.slot]
                                   ELSE Perturbed[rows'[base'], pending'.seed]
    <3>1. CASE materialized
      BY <1>6, <1>7, <1>8, <3>1
    <3>2. CASE ~materialized
      <4>1. rows'[base'] = r[base] /\ ~pending'.materialized
        BY <1>2, <1>3, <1>4, <1>6, <1>7, <3>2
      <4>2. trials'[pending'.id + 1] = Perturbed[r[base], seed]
        BY <1>7, <1>8
      <4>. QED
        BY <1>7, <4>1, <4>2, Zenon
    <3>. QED
      BY <3>1, <3>2
  <2>. QED
    BY <1>2, <1>4, <1>7, <2>1, <2>2, Zenon DEF PendingInv
<1>13. HistoryRowsMatch'
  <2>1. \A i \in DOMAIN h : h[i].slot \in Slots
    BY RecordsHaveSlots
  <2>. QED
    BY <1>2, <1>4, <1>6, <2>1 DEF HistoryRowsMatch
<1>14. DeviceIsCurrent'
  BY <1>2, <1>9 DEF DeviceIsCurrent
<1>. QED
  BY <1>10, <1>11, <1>12, <1>13, <1>14 DEF SearchInv

LEMMA MaterializeStep ==
    ASSUME SearchInv, MaterializePending
    PROVE  SearchInv'
<1>1. /\ pending # NoTrial
      /\ rows' = PendingRows
      /\ pending' = [pending EXCEPT !.materialized = TRUE]
      /\ base' = base /\ history' = history /\ resident' = resident
      /\ device' = device /\ archive' = archive /\ trials' = trials
  BY DEF MaterializePending, PendingFor
<1>2. /\ pending \in Pendings /\ pending.slot \in Slots \ {base}
      /\ PendingRows \in [Slots -> Models \cup {NoModel}]
      /\ PendingRows[pending.slot] = trials[pending.id + 1]
      /\ \A s \in Slots : s # pending.slot => PendingRows[s] = rows[s]
  BY <1>1, PendingRowIsTheTrials
<1>3. /\ pending' \in Pendings /\ pending'.id = pending.id
      /\ pending'.slot = pending.slot /\ pending'.materialized
  BY <1>1, <1>2 DEF Pendings
<1>4. \A i \in DOMAIN history :
          history[i].slot \in Slots /\ history[i].slot # pending.slot
  BY <1>1, RecordsHaveSlots DEF SearchInv, TypeOK, PendingInv
<1>5. TypeOK'
  BY <1>1, <1>2, <1>3 DEF SearchInv, TypeOK, Slots
<1>6. BaseIsModel' /\ HistoryRowsMatch'
  BY <1>1, <1>2, <1>4 DEF SearchInv, TypeOK, BaseIsModel, HistoryRowsMatch
<1>7. PendingInv'
  BY <1>1, <1>2, <1>3 DEF SearchInv, PendingInv
<1>8. DeviceIsCurrent'
  BY <1>1 DEF SearchInv, DeviceIsCurrent
<1>. QED
  BY <1>5, <1>6, <1>7, <1>8 DEF SearchInv

\* What a tell keeps of the history leaves room for one record, and each of
\* its records was in the history.
LEMMA KeptIsTail ==
    ASSUME history \in Seq(Records), Len(history) <= Capacity
    PROVE  /\ Kept \in Seq(Records) /\ Len(Kept) < Capacity
           /\ \A i \in DOMAIN Kept : \E j \in DOMAIN history : Kept[i] = history[j]
<1>1. Capacity \in Nat \ {0} /\ Len(history) \in Nat
  BY TrialSearchAssumption
<1>2. CASE Len(history) = Capacity
  <2>1. Kept = Tail(history) /\ history # <<>>
    BY <1>1, <1>2 DEF Kept
  <2>2. /\ Kept \in Seq(Records) /\ Len(Kept) = Len(history) - 1
        /\ \A i \in 1..Len(Kept) : Kept[i] = history[i + 1]
    BY <2>1
  <2>3. \A i \in 1..Len(Kept) : i + 1 \in 1..Len(history)
    BY <1>1, <2>2
  <2>. QED
    BY <1>1, <1>2, <2>2, <2>3
<1>3. CASE Len(history) # Capacity
  BY <1>1, <1>3 DEF Kept
<1>. QED
  BY <1>2, <1>3

\* The record a tell adds has its row in the slot of the trial, which no other
\* record refers to.
LEMMA TellStep ==
    ASSUME SearchInv, NEW trial, NEW accept \in BOOLEAN, Tell(trial, accept)
    PROVE  SearchInv'
<1> DEFINE rec == [slot |-> pending.slot, value |-> trials[trial + 1]]
<1>1. /\ pending # NoTrial /\ pending.id = trial
      /\ rows' = PendingRows
      /\ history' = Append(Kept, rec)
      /\ base' = IF accept THEN pending.slot ELSE base
      /\ pending' = NoTrial
      /\ resident' = resident /\ device' = device
      /\ archive' = archive /\ trials' = trials
  BY DEF Tell, PendingFor
<1>2. /\ pending \in Pendings /\ pending.slot \in Slots \ {base}
      /\ trials[trial + 1] \in Models
      /\ PendingRows \in [Slots -> Models \cup {NoModel}]
      /\ PendingRows[pending.slot] = trials[trial + 1]
      /\ \A s \in Slots : s # pending.slot => PendingRows[s] = rows[s]
  BY <1>1, PendingRowIsTheTrials
<1>3. history \in Seq(Records) /\ Len(history) <= Capacity /\ base \in Slots
  BY DEF SearchInv, TypeOK
<1>4. \A i \in DOMAIN history :
          history[i].slot \in Slots /\ history[i].slot # pending.slot
  BY <1>1, <1>3, RecordsHaveSlots DEF SearchInv, PendingInv
<1>5. /\ Kept \in Seq(Records) /\ Len(Kept) < Capacity
      /\ \A i \in DOMAIN Kept : \E j \in DOMAIN history : Kept[i] = history[j]
  BY <1>3, KeptIsTail
<1>6. /\ rec \in Records /\ rec.slot = pending.slot
      /\ rec.value = trials[trial + 1]
  BY <1>2 DEF Records, Slots
<1> HIDE DEF rec
<1>7. /\ history' \in Seq(Records) /\ Len(history') = Len(Kept) + 1
      /\ \A i \in 1..Len(Kept) : history'[i] = Kept[i]
      /\ history'[Len(Kept) + 1] = rec
  BY <1>1, <1>5, <1>6
<1>8. Len(Kept) \in Nat /\ Capacity \in Nat
  BY <1>5, TrialSearchAssumption
<1>9. TypeOK'
  <2>1. Len(history') <= Capacity
    BY <1>5, <1>7, <1>8
  <2>2. base' \in Slots
    BY <1>1, <1>2, <1>3
  <2>3. rows' \in [Slots -> Models \cup {NoModel}]
    BY <1>1, <1>2
  <2>. QED
    BY <1>1, <1>7, <2>1, <2>2, <2>3 DEF SearchInv, TypeOK, Slots
<1>10. BaseIsModel'
  BY <1>1, <1>2, <1>3 DEF SearchInv, BaseIsModel
<1>11. HistoryRowsMatch'
  <2> SUFFICES ASSUME NEW i \in 1..(Len(Kept) + 1)
               PROVE  rows'[history'[i].slot] = history'[i].value
    BY <1>7 DEF HistoryRowsMatch
  <2>1. CASE i = Len(Kept) + 1
    BY <1>1, <1>2, <1>6, <1>7, <2>1
  <2>2. CASE i \in 1..Len(Kept)
    <3>1. PICK j \in DOMAIN history : history'[i] = history[j]
      BY <1>5, <1>7, <2>2
    <3>2. rows[history[j].slot] = history[j].value
      BY DEF SearchInv, HistoryRowsMatch
    <3>. QED
      BY <1>1, <1>2, <1>4, <3>1, <3>2
  <2>. QED
    BY <1>8, <2>1, <2>2
<1>12. PendingInv' /\ DeviceIsCurrent'
  BY <1>1 DEF SearchInv, PendingInv, DeviceIsCurrent
<1>. QED
  BY <1>9, <1>10, <1>11, <1>12 DEF SearchInv

\* A replacement of the history, whole or in part.
LEMMA LoadStep ==
    ASSUME SearchInv, NEW n \in 0..Capacity, NEW models \in [1..n -> Models],
           Load(models)
    PROVE  SearchInv'
<1>1. /\ pending = NoTrial /\ pending' = pending
      /\ rows' = Loaded(models) /\ history' = LoadedRecords(models)
      /\ base' = base /\ resident' = resident /\ device' = device
      /\ archive' = archive /\ trials' = trials
  BY DEF Load
<1>2. /\ rows' \in [Slots -> Models \cup {NoModel}]
      /\ rows'[base] = rows[base]
      /\ history' \in Seq(Records) /\ Len(history') = n
      /\ \A i \in DOMAIN history' : rows'[history'[i].slot] = history'[i].value
  BY <1>1, LoadIsWhole
<1>3. n <= Capacity
  BY TrialSearchAssumption
<1>4. TypeOK'
  BY <1>1, <1>2, <1>3 DEF SearchInv, TypeOK, Slots
<1>. QED
  BY <1>1, <1>2, <1>4 DEF SearchInv, BaseIsModel, PendingInv, HistoryRowsMatch, DeviceIsCurrent

\* The rows a resolver answers with are models.
LEMMA ResolvedAreModels ==
    ASSUME archive \in Seq(Models), NEW ids, NEW n \in Nat, Answers(ids, n)
    PROVE  Resolved(ids, n) \in [1..n -> Models]
<1>1. \A i \in DOMAIN archive : archive[i] \in Models
  OBVIOUS
<1>. QED
  BY <1>1 DEF Answers, Resolved

LEMMA AskIndexedStep ==
    ASSUME SearchInv, AskIndexed
    PROVE  SearchInv'
<1>1. PICK ids \in Shortlists :
        /\ Len(ids) \in 1..Capacity
        /\ Answers(ids, Len(ids))
        /\ Propose(Loaded(Resolved(ids, Len(ids))),
                   LoadedRecords(Resolved(ids, Len(ids))), TRUE)
  BY Zenon DEF AskIndexed
<1> DEFINE n == Len(ids)
           models == Resolved(ids, n)
           r == Loaded(models)
           h == LoadedRecords(models)
<1> HIDE DEF n
<1>2. n \in 0..Capacity /\ n \in Nat /\ n <= Capacity
  BY <1>1, TrialSearchAssumption DEF n
<1>3. models \in [1..n -> Models]
  <2>1. archive \in Seq(Models)
    BY DEF SearchInv, TypeOK
  <2>. QED
    BY <1>1, <1>2, <2>1, ResolvedAreModels DEF n
<1> HIDE DEF models
<1>4. /\ r \in [Slots -> Models \cup {NoModel}] /\ r[base] = rows[base]
      /\ h \in Seq(Records) /\ Len(h) = n
      /\ \A i \in DOMAIN h : r[h[i].slot] = h[i].value
  BY <1>2, <1>3, LoadIsWhole
<1>5. Propose(r, h, TRUE)
  BY <1>1 DEF models, n
<1> HIDE DEF r, h
<1>. QED
  BY <1>2, <1>4, <1>5, ProposeStep

LEMMA InitInv == Init => SearchInv
<1> SUFFICES ASSUME Init PROVE SearchInv
  OBVIOUS
<1>1. PICK m \in Models : /\ rows = [s \in Slots |-> IF s = 0 THEN m ELSE NoModel]
                          /\ history = <<[slot |-> 0, value |-> m]>>
  BY DEF Init
<1>2. /\ base = 0 /\ pending = NoTrial /\ resident = <<>> /\ archive = <<>>
      /\ trials = <<>> /\ device = [i \in 1..Capacity |-> NoRecord]
  BY DEF Init
<1>3. Capacity \in Nat \ {0} /\ 0 \in Slots
  BY TrialSearchAssumption DEF Slots
<1>4. [slot |-> 0, value |-> m] \in Records
  BY <1>3 DEF Records
<1>5. history \in Seq(Records) /\ Len(history) = 1 /\ history[1] = [slot |-> 0, value |-> m]
  BY <1>1, <1>4
<1>6. rows \in [Slots -> Models \cup {NoModel}] /\ rows[0] = m
  BY <1>1, <1>3
<1>7. TypeOK
  BY <1>2, <1>3, <1>5, <1>6 DEF TypeOK
<1>8. HistoryRowsMatch
  BY <1>5, <1>6 DEF HistoryRowsMatch
<1>. QED
  BY <1>2, <1>6, <1>7, <1>8 DEF SearchInv, BaseIsModel, PendingInv, DeviceIsCurrent

LEMMA NextInv == SearchInv /\ [Next]_vars => SearchInv'
<1> SUFFICES ASSUME SearchInv, [Next]_vars PROVE SearchInv'
  OBVIOUS
<1>1. /\ rows \in [Slots -> Models \cup {NoModel}]
      /\ history \in Seq(Records) /\ Len(history) <= Capacity
      /\ \A i \in DOMAIN history : rows[history[i].slot] = history[i].value
      /\ archive \in Seq(Models) /\ Capacity \in Nat
  BY TrialSearchAssumption DEF SearchInv, TypeOK, HistoryRowsMatch
<1>2. ASSUME NEW materialized \in BOOLEAN, Propose(rows, history, materialized)
      PROVE  SearchInv'
  BY <1>1, <1>2, ProposeStep
<1>3. CASE Ask
  BY <1>2, <1>3 DEF Ask
<1>4. CASE AskLazy
  BY <1>2, <1>4 DEF AskLazy
<1>5. CASE MaterializePending
  BY <1>5, MaterializeStep
<1>6. ASSUME NEW trial \in 0..(Len(trials) - 1), NEW accept \in BOOLEAN,
             Tell(trial, accept)
      PROVE  SearchInv'
  BY <1>6, TellStep
<1>7. CASE ReplaceHistory
  <2>1. PICK n \in 1..Capacity : \E models \in [1..n -> Models] : Load(models)
    BY <1>7 DEF ReplaceHistory
  <2>2. n \in 0..Capacity
    BY <1>1
  <2>. QED
    BY <2>1, <2>2, LoadStep
<1>8. CASE ReplaceIndexedHistory
  <2>1. PICK ids \in Shortlists :
          /\ Len(ids) \in 1..Capacity
          /\ \E n \in 0..Len(ids) : Answers(ids, n) /\ Load(Resolved(ids, n))
    BY <1>8 DEF ReplaceIndexedHistory
  <2>2. PICK n \in 0..Len(ids) : Answers(ids, n) /\ Load(Resolved(ids, n))
    BY <2>1
  <2>3. n \in 0..Capacity /\ n \in Nat
    BY <1>1, <2>1
  <2>4. Resolved(ids, n) \in [1..n -> Models]
    BY <1>1, <2>2, <2>3, ResolvedAreModels
  <2>. QED
    BY <2>2, <2>3, <2>4, LoadStep
<1>9. CASE AskIndexed
  BY <1>9, AskIndexedStep
<1>10. CASE AppendRow
  <2>1. /\ archive' = Append(archive, rows[base])
        /\ rows' = rows /\ base' = base /\ history' = history /\ pending' = pending
        /\ resident' = resident /\ device' = device /\ trials' = trials
    BY <1>10 DEF AppendRow
  <2>2. archive' \in Seq(Models)
    BY <1>1, <2>1 DEF SearchInv, BaseIsModel
  <2>3. TypeOK'
    BY <2>1, <2>2 DEF SearchInv, TypeOK, Slots
  <2>. QED
    BY <2>1, <2>3 DEF SearchInv, BaseIsModel, PendingInv, HistoryRowsMatch, DeviceIsCurrent
<1>11. CASE AskRegions
  <2>1. /\ pending = NoTrial /\ Score(history)
        /\ rows' = rows /\ base' = base /\ history' = history /\ pending' = pending
        /\ archive' = archive /\ trials' = trials
    BY <1>11 DEF AskRegions
  <2>2. /\ resident' = history
        /\ device' \in [1..Capacity -> Records \cup {NoRecord}]
        /\ \A i \in DOMAIN history : device'[i] = history[i]
    BY <1>1, <2>1, SyncIsWhole DEF Score
  <2>3. TypeOK'
    BY <1>1, <2>1, <2>2 DEF SearchInv, TypeOK, Slots
  <2>. QED
    BY <2>1, <2>2, <2>3 DEF SearchInv, BaseIsModel, PendingInv, HistoryRowsMatch, DeviceIsCurrent
<1>12. CASE UNCHANGED vars
  BY <1>12 DEF vars, SearchInv, TypeOK, BaseIsModel, PendingInv, HistoryRowsMatch,
     DeviceIsCurrent, Slots
<1>. QED
  BY <1>3, <1>4, <1>5, <1>6, <1>7, <1>8, <1>9, <1>10, <1>11, <1>12 DEF Next

----------------------------------------------------------------------------
(* Theorems                                                                *)

\* The inductive invariant holds in every reachable state.
THEOREM Invariance == Spec => []SearchInv
<1>. QED
  BY InitInv, NextInv, PTL DEF Spec

\* The variables have their types: no history is longer than its capacity and
\* no record refers to a slot outside the arena.
THEOREM TypeCorrect == Spec => []TypeOK
<1>1. SearchInv => TypeOK
  BY DEF SearchInv
<1>. QED
  BY <1>1, Invariance, PTL

\* Every record of the history is the row its value was measured on, however
\* slots are reused, rows are written late and replacements fail half way.
THEOREM RecordsAreRows == Spec => []HistoryRowsMatch
<1>1. SearchInv => HistoryRowsMatch
  BY DEF SearchInv
<1>. QED
  BY <1>1, Invariance, PTL

\* "no free model slot" is an error no ask of a search can return.
THEOREM FreeSlotExists == Spec => []SlotAlwaysFree
<1>1. SearchInv => SlotAlwaysFree
  BY EnoughSlots DEF SearchInv, TypeOK, SlotAlwaysFree
<1>. QED
  BY <1>1, Invariance, PTL

\* A trial is scored with the records of the history, although only what is
\* believed to have changed is copied to the device.
THEOREM ScoresTheHistory == Spec => []DeviceIsCurrent
<1>1. SearchInv => DeviceIsCurrent
  BY DEF SearchInv
<1>. QED
  BY <1>1, Invariance, PTL

----------------------------------------------------------------------------
(* Refinement                                                              *)

\* The log is the values of the records, models all of them.
LEMMA RowsAreValues ==
    ASSUME NEW h \in Seq(Records), NEW r,
           \A i \in DOMAIN h : r[h[i].slot] = h[i].value
    PROVE  /\ [i \in DOMAIN h |-> r[h[i].slot]] \in Seq(Models)
           /\ Len([i \in DOMAIN h |-> r[h[i].slot]]) = Len(h)
           /\ \A i \in 1..Len(h) : [j \in DOMAIN h |-> r[h[j].slot]][i] = h[i].value
<1> DEFINE o == [i \in DOMAIN h |-> r[h[i].slot]]
<1>1. Len(h) \in Nat /\ DOMAIN h = 1..Len(h) /\ \A i \in DOMAIN h : h[i] \in Records
  OBVIOUS
<1>2. \A i \in DOMAIN h : h[i].value \in Models
  BY <1>1 DEF Records
<1>3. o \in [1..Len(h) -> Models] /\ \A i \in 1..Len(h) : o[i] = h[i].value
  BY <1>1, <1>2
<1> HIDE DEF o
<1>4. o \in Seq(Models) /\ Len(o) = Len(h)
  BY <1>1, <1>3
<1>. QED
  BY <1>3, <1>4 DEF o

LEMMA ObservedAreValues ==
    ASSUME SearchInv
    PROVE  /\ Observed \in Seq(Models) /\ Len(Observed) = Len(history)
           /\ \A i \in 1..Len(history) : Observed[i] = history[i].value
<1>1. /\ history \in Seq(Records)
      /\ \A i \in DOMAIN history : rows[history[i].slot] = history[i].value
  BY DEF SearchInv, TypeOK, HistoryRowsMatch
<1>. QED
  BY <1>1, RowsAreValues DEF Observed

LEMMA ObservedAreValuesNext ==
    ASSUME SearchInv'
    PROVE  /\ Observed' \in Seq(Models) /\ Len(Observed') = Len(history')
           /\ \A i \in 1..Len(history') : Observed'[i] = history'[i].value
           /\ Len(Observed') <= Capacity
<1>1. /\ history' \in Seq(Records) /\ Len(history') <= Capacity
      /\ \A i \in DOMAIN history' : rows'[history'[i].slot] = history'[i].value
  BY DEF SearchInv, TypeOK, HistoryRowsMatch
<1>. QED
  BY <1>1, RowsAreValues DEF Observed

\* While a trial is pending the offer is the row the caller evaluates.
LEMMA OfferedIsTheTrials ==
    ASSUME SearchInv, pending # NoTrial
    PROVE  Offered = trials[pending.id + 1] /\ Offered \in Models
  BY PendingRowIsTheTrials DEF SearchInv, PendingInv, Offered

LEMMA ProposeOffers ==
    ASSUME SearchInv, SearchInv', NEW materialized \in BOOLEAN,
           NEW r \in [Slots -> Models \cup {NoModel}], r[base] = rows[base],
           NEW h, Capacity \in Nat,
           Propose(r, h, materialized)
    PROVE  Log!Offer
<1> DEFINE slot == FreeSlot(h)
<1>1. PICK seed \in Seeds :
        /\ pending' = [id |-> Len(trials), slot |-> slot, seed |-> seed,
                       materialized |-> materialized]
        /\ rows' = IF materialized THEN Materialize(r, slot, seed) ELSE r
  BY DEF Propose
<1>2. pending = NoTrial /\ FreeSlots(h) # {} /\ base' = base /\ base \in Slots
  BY DEF Propose, SearchInv, TypeOK
<1>3. slot \in Slots /\ slot # base
  <2>1. slot \in FreeSlots(h)
    BY <1>2, FreeSlotIsFree
  <2>. QED
    BY <2>1 DEF FreeSlots
<1> HIDE DEF slot
<1>4. rows'[base'] = rows[base]
  BY <1>1, <1>2, <1>3 DEF Materialize
<1>5. pending' # NoTrial
  <2>1. slot \in 0..(Capacity + 1) /\ NoTrial \notin Pendings /\ Len(trials) \in Nat
    BY <1>3, TrialSearchAssumption DEF Slots, SearchInv, TypeOK
  <2>2. pending' \in Pendings
    BY <1>1, <2>1, Zenon DEF Pendings
  <2>. QED
    BY <2>1, <2>2
<1>6. /\ pending'.slot = slot /\ pending'.seed = seed
      /\ pending'.materialized = materialized
  <2>1. pending' = [id |-> Len(trials), slot |-> slot, seed |-> seed,
                    materialized |-> materialized]
    BY <1>1
  <2>. QED
    BY <2>1, Zenon
<1>7. Offered' = Perturbed[rows[base], seed]
  <2>1. CASE materialized
    <3>1. rows'[slot] = Perturbed[rows[base], seed]
      BY <1>1, <1>3, <2>1 DEF Materialize
    <3>. QED
      BY <1>5, <1>6, <2>1, <3>1 DEF Offered
  <2>2. CASE ~materialized
    <3>1. pending'.materialized = FALSE
      BY <1>6, <2>2
    <3>. QED
      BY <1>4, <1>5, <1>6, <3>1, Zenon DEF Offered
  <2>. QED
    BY <2>1, <2>2
<1>8. Observed' \in Seq(Models) /\ Len(Observed') <= Capacity
  BY ObservedAreValuesNext
<1>9. Offered = NoModel
  BY <1>2 DEF Offered
<1>. QED
  BY <1>4, <1>7, <1>8, <1>9 DEF Log!Offer, Log!LogKeptOrReplaced

LEMMA LoadReplaces ==
    ASSUME SearchInv, SearchInv', NEW n \in 0..Capacity,
           NEW models \in [1..n -> Models], Load(models)
    PROVE  Log!Replace
<1>1. /\ pending = NoTrial /\ pending' = NoTrial
      /\ rows' = Loaded(models) /\ base' = base
  BY DEF Load
<1>2. rows'[base'] = rows[base]
  BY <1>1, LoadIsWhole
<1>3. Observed' \in Seq(Models) /\ Len(Observed') <= Capacity
  BY ObservedAreValuesNext
<1>4. Offered = NoModel /\ Offered' = NoModel
  BY <1>1 DEF Offered
<1>. QED
  BY <1>2, <1>3, <1>4 DEF Log!Replace, Log!LogKeptOrReplaced

\* The record of a tell is the offer, the records before it are what is kept.
LEMMA TellAnswers ==
    ASSUME SearchInv, SearchInv', NEW trial, NEW accept \in BOOLEAN,
           Tell(trial, accept)
    PROVE  Log!Answer
<1> DEFINE rec == [slot |-> pending.slot, value |-> trials[trial + 1]]
           kept == IF Len(Observed) = Capacity THEN Tail(Observed) ELSE Observed
<1>1. /\ pending # NoTrial /\ pending.id = trial
      /\ rows' = PendingRows
      /\ history' = Append(Kept, rec)
      /\ base' = IF accept THEN pending.slot ELSE base
      /\ pending' = NoTrial
  BY DEF Tell, PendingFor
<1>2. /\ pending.slot \in Slots \ {base}
      /\ PendingRows[pending.slot] = trials[trial + 1]
      /\ \A s \in Slots : s # pending.slot => PendingRows[s] = rows[s]
      /\ base \in Slots
  BY <1>1, PendingRowIsTheTrials DEF SearchInv, TypeOK
<1>3. Offered = trials[trial + 1] /\ Offered \in Models
  BY <1>1, OfferedIsTheTrials
<1>4. Offered' = NoModel /\ Offered # NoModel
  BY <1>1, <1>3, TrialSearchAssumption DEF Offered
<1>5. rows'[base'] \in {rows[base], Offered}
  BY <1>1, <1>2, <1>3
<1>6. history \in Seq(Records) /\ Len(history) <= Capacity /\ Len(history) \in Nat
  BY DEF SearchInv, TypeOK
<1>7. Capacity \in Nat \ {0}
  BY TrialSearchAssumption
<1>8. /\ Observed \in Seq(Models) /\ Len(Observed) = Len(history)
      /\ \A i \in 1..Len(history) : Observed[i] = history[i].value
  BY ObservedAreValues
<1>9. /\ kept \in Seq(Models) /\ Len(kept) = Len(Kept) /\ Len(Kept) \in Nat
      /\ Kept \in Seq(Records)
      /\ \A i \in 1..Len(Kept) : kept[i] = Kept[i].value
  <2>1. CASE Len(history) = Capacity
    <3>1. Kept = Tail(history) /\ kept = Tail(Observed)
      BY <1>8, <2>1 DEF Kept
    <3>2. /\ Tail(history) \in Seq(Records) /\ Len(Tail(history)) = Len(history) - 1
          /\ \A i \in 1..(Len(history) - 1) : Tail(history)[i] = history[i + 1]
      BY <1>6, <1>7, <2>1
    <3>3. /\ Tail(Observed) \in Seq(Models) /\ Len(Tail(Observed)) = Len(history) - 1
          /\ \A i \in 1..(Len(history) - 1) : Tail(Observed)[i] = Observed[i + 1]
      BY <1>6, <1>7, <1>8, <2>1
    <3>4. \A i \in 1..(Len(history) - 1) : i + 1 \in 1..Len(history)
      BY <1>6
    <3> HIDE DEF kept
    <3>. QED
      BY <1>6, <1>7, <1>8, <2>1, <3>1, <3>2, <3>3, <3>4
  <2>2. CASE Len(history) # Capacity
    BY <1>6, <1>8, <2>2 DEF Kept
  <2>. QED
    BY <2>1, <2>2
<1> HIDE DEF kept
<1>10. rec \in Records /\ rec.value = Offered
  BY <1>2, <1>3 DEF Records, Slots
<1> HIDE DEF rec
<1>11. /\ history' \in Seq(Records) /\ Len(history') = Len(Kept) + 1
       /\ \A i \in 1..Len(Kept) : history'[i] = Kept[i]
       /\ history'[Len(Kept) + 1] = rec
  BY <1>1, <1>9, <1>10
<1>12. /\ Append(kept, Offered) \in Seq(Models)
       /\ Len(Append(kept, Offered)) = Len(Kept) + 1
       /\ \A i \in 1..Len(Kept) : Append(kept, Offered)[i] = kept[i]
       /\ Append(kept, Offered)[Len(Kept) + 1] = Offered
  BY <1>3, <1>9
<1>13. /\ Observed' \in Seq(Models) /\ Len(Observed') = Len(history')
       /\ \A i \in 1..Len(history') : Observed'[i] = history'[i].value
  BY ObservedAreValuesNext
<1>14. \A i \in 1..(Len(Kept) + 1) : Observed'[i] = Append(kept, Offered)[i]
  <2> SUFFICES ASSUME NEW i \in 1..(Len(Kept) + 1)
               PROVE  Observed'[i] = Append(kept, Offered)[i]
    OBVIOUS
  <2>1. Observed'[i] = history'[i].value
    BY <1>11, <1>13
  <2>2. CASE i = Len(Kept) + 1
    BY <1>10, <1>11, <1>12, <2>1, <2>2
  <2>3. CASE i \in 1..Len(Kept)
    BY <1>9, <1>11, <1>12, <2>1, <2>3
  <2>. QED
    BY <1>9, <2>2, <2>3
<1>15. Observed' = Append(kept, Offered)
  <2> DEFINE t == Append(kept, Offered)
             u == Observed'
  <2> HIDE DEF t, u
  <2>1. /\ t \in Seq(Models) /\ u \in Seq(Models) /\ Len(t) = Len(u)
        /\ \A i \in 1..Len(t) : u[i] = t[i]
    BY <1>11, <1>12, <1>13, <1>14 DEF t, u
  <2>2. t = u
    BY <2>1
  <2>. QED
    BY <2>2 DEF t, u
<1>. QED
  BY <1>4, <1>5, <1>15 DEF Log!Answer, kept

\* Writing the pending row changes nothing the log shows.
LEMMA MaterializeStutters ==
    ASSUME SearchInv, MaterializePending
    PROVE  UNCHANGED Log!logVars
<1>1. /\ pending # NoTrial
      /\ rows' = PendingRows
      /\ pending' = [pending EXCEPT !.materialized = TRUE]
      /\ base' = base /\ history' = history
  BY DEF MaterializePending, PendingFor
<1>2. /\ pending \in Pendings /\ pending.slot \in Slots \ {base}
      /\ PendingRows[pending.slot] = trials[pending.id + 1]
      /\ \A s \in Slots : s # pending.slot => PendingRows[s] = rows[s]
      /\ base \in Slots
  BY <1>1, PendingRowIsTheTrials DEF SearchInv, TypeOK
<1>3. pending' \in Pendings /\ pending'.slot = pending.slot /\ pending'.materialized
  BY <1>1, <1>2 DEF Pendings
<1>4. pending' # NoTrial
  BY <1>3, TrialSearchAssumption
<1>5. Offered' = Offered
  BY <1>1, <1>2, <1>3, <1>4, OfferedIsTheTrials DEF Offered
<1>6. rows'[base'] = rows[base]
  BY <1>1, <1>2
<1>7. Observed' = Observed
  <2>1. \A i \in DOMAIN history : rows'[history[i].slot] = rows[history[i].slot]
    BY <1>1, <1>2, RecordsHaveSlots DEF SearchInv, TypeOK, PendingInv
  <2>. QED
    BY <1>1, <2>1 DEF Observed
<1>. QED
  BY <1>5, <1>6, <1>7 DEF Log!logVars

LEMMA StartsAsLog == Init => Log!LogInit
<1> SUFFICES ASSUME Init PROVE Log!LogInit
  OBVIOUS
<1>1. PICK m \in Models : /\ rows = [s \in Slots |-> IF s = 0 THEN m ELSE NoModel]
                          /\ history = <<[slot |-> 0, value |-> m]>>
  BY DEF Init
<1>2. base = 0 /\ pending = NoTrial
  BY DEF Init
<1>3. rows[0] = m
  BY <1>1, TrialSearchAssumption DEF Slots
<1>4. /\ Observed \in Seq(Models) /\ Len(Observed) = 1 /\ Observed[1] = m
  <2>1. Len(history) = 1 /\ history[1].value = m
    BY <1>1
  <2>. QED
    BY <2>1, InitInv, ObservedAreValues
<1>5. Observed = <<m>>
  BY <1>4
<1>. QED
  BY <1>2, <1>3, <1>5 DEF Log!LogInit, Offered

LEMMA NextAsLog == SearchInv /\ SearchInv' /\ [Next]_vars => [Log!LogNext]_(Log!logVars)
<1> SUFFICES ASSUME SearchInv, SearchInv', [Next]_vars
             PROVE  Log!LogNext \/ UNCHANGED Log!logVars
  OBVIOUS
<1>1. /\ rows \in [Slots -> Models \cup {NoModel}] /\ Capacity \in Nat
      /\ archive \in Seq(Models)
  BY TrialSearchAssumption DEF SearchInv, TypeOK
<1>2. CASE Ask
  BY <1>1, <1>2, ProposeOffers DEF Ask, Log!LogNext
<1>3. CASE AskLazy
  BY <1>1, <1>3, ProposeOffers DEF AskLazy, Log!LogNext
<1>4. CASE MaterializePending
  BY <1>4, MaterializeStutters
<1>5. ASSUME NEW trial \in 0..(Len(trials) - 1), NEW accept \in BOOLEAN,
             Tell(trial, accept)
      PROVE  Log!LogNext
  BY <1>5, TellAnswers DEF Log!LogNext
<1>6. CASE ReplaceHistory
  <2>1. PICK n \in 1..Capacity : \E models \in [1..n -> Models] : Load(models)
    BY <1>6 DEF ReplaceHistory
  <2>2. n \in 0..Capacity
    BY <1>1
  <2>. QED
    BY <2>1, <2>2, LoadReplaces DEF Log!LogNext
<1>7. CASE ReplaceIndexedHistory
  <2>1. PICK ids \in Shortlists :
          /\ Len(ids) \in 1..Capacity
          /\ \E n \in 0..Len(ids) : Answers(ids, n) /\ Load(Resolved(ids, n))
    BY <1>7 DEF ReplaceIndexedHistory
  <2>2. PICK n \in 0..Len(ids) : Answers(ids, n) /\ Load(Resolved(ids, n))
    BY <2>1
  <2>3. n \in 0..Capacity /\ n \in Nat
    BY <1>1, <2>1
  <2>4. Resolved(ids, n) \in [1..n -> Models]
    BY <1>1, <2>2, <2>3, ResolvedAreModels
  <2>. QED
    BY <2>2, <2>3, <2>4, LoadReplaces DEF Log!LogNext
<1>8. CASE AskIndexed
  <2>1. PICK ids \in Shortlists :
          /\ Len(ids) \in 1..Capacity
          /\ Answers(ids, Len(ids))
          /\ Propose(Loaded(Resolved(ids, Len(ids))),
                     LoadedRecords(Resolved(ids, Len(ids))), TRUE)
    BY <1>8, Zenon DEF AskIndexed
  <2> DEFINE n == Len(ids)
             models == Resolved(ids, n)
             r == Loaded(models)
             h == LoadedRecords(models)
  <2> HIDE DEF n
  <2>2. n \in 0..Capacity /\ n \in Nat
    BY <1>1, <2>1 DEF n
  <2>3. models \in [1..n -> Models]
    BY <1>1, <2>1, <2>2, ResolvedAreModels DEF n
  <2> HIDE DEF models
  <2>4. r \in [Slots -> Models \cup {NoModel}] /\ r[base] = rows[base]
    BY <2>2, <2>3, LoadIsWhole
  <2>5. Propose(r, h, TRUE)
    BY <2>1 DEF models, n
  <2> HIDE DEF r, h
  <2>. QED
    BY <1>1, <2>4, <2>5, ProposeOffers DEF Log!LogNext
<1>9. CASE AppendRow \/ AskRegions \/ UNCHANGED vars
  BY <1>9 DEF AppendRow, AskRegions, vars, Log!logVars, Observed, Offered
<1>. QED
  BY <1>2, <1>3, <1>4, <1>5, <1>6, <1>7, <1>8, <1>9 DEF Next

\* The search implements the log: an ask is an offer, a tell its answer, a
\* replacement of the history one of the log, and materialize_pending,
\* append_row and the asks over regions change nothing the caller sees.
THEOREM ImplementsTrialLog == Spec => RefinesTrialLog
<1>. QED
  BY InitInv, NextInv, StartsAsLog, NextAsLog, PTL DEF Spec, RefinesTrialLog, Log!LogSpec

----------------------------------------------------------------------------
(* The resident decoder: its buffers and kernels                           *)

\* The buffers by name.
Names == Shared \cup
    {"attention_norm", "moe_norm", "decay", "time_bias", "output_norm", "normalized",
     "qkv", "qkv_conv_history", "query", "control", "control_parts", "raw_gate",
     "output_gate", "gate", "recurrence_state", "post_kda", "kda_gated", "update",
     "route", "expert_activation"}

Rows == Models \cup {NoModel}

Contents == [rows : SUBSET Rows, tokens : SUBSET Nat]

CellStates == [Cells -> Contents]

Kernels == [reads : SUBSET Names, write : Names, weights : BOOLEAN]

LayerVectors == {"attention_norm", "moe_norm", "decay", "time_bias", "output_norm"}

\* The content that comes from one row and some tokens.
Of(w, T) == [rows |-> {w}, tokens |-> T]

LEMMA PrepareKernelsAre ==
    /\ Len(PrepareKernels) = 5
    /\ DOMAIN PrepareKernels = 1..5
    /\ PrepareKernels[1] = W({}, "attention_norm")
    /\ PrepareKernels[2] = W({}, "moe_norm")
    /\ PrepareKernels[3] = W({}, "decay")
    /\ PrepareKernels[4] = W({}, "time_bias")
    /\ PrepareKernels[5] = W({}, "output_norm")
  BY DEF PrepareKernels

LEMMA DecodeKernelsAre ==
    /\ Len(DecodeKernels) = 20
    /\ DOMAIN DecodeKernels = 1..20
    /\ DecodeKernels[1] = K({"hidden", "attention_norm"}, "normalized")
    /\ DecodeKernels[2] = W({"normalized"}, "qkv")
    /\ DecodeKernels[3] = K({"qkv", "qkv_conv_history"}, "qkv_conv_history")
    /\ DecodeKernels[4] = W({"qkv", "qkv_conv_history"}, "qkv")
    /\ DecodeKernels[5] = K({"qkv"}, "query")
    /\ DecodeKernels[6] = W({"normalized"}, "control")
    /\ DecodeKernels[7] = K({"control"}, "control_parts")
    /\ DecodeKernels[8] = W({"control_parts"}, "raw_gate")
    /\ DecodeKernels[9] = W({"control_parts"}, "output_gate")
    /\ DecodeKernels[10] = K({"raw_gate", "control_parts", "decay", "time_bias"}, "gate")
    /\ DecodeKernels[11] = K({"query", "gate", "recurrence_state"}, "recurrence_state")
    /\ DecodeKernels[12] = K({"query", "recurrence_state"}, "post_kda")
    /\ DecodeKernels[13] = K({"post_kda", "output_gate", "output_norm"}, "kda_gated")
    /\ DecodeKernels[14] = W({"kda_gated"}, "update")
    /\ DecodeKernels[15] = K({"hidden", "update"}, "hidden")
    /\ DecodeKernels[16] = K({"hidden", "moe_norm"}, "normalized")
    /\ DecodeKernels[17] = W({"normalized"}, "route")
    /\ DecodeKernels[18] = W({"normalized", "route"}, "expert_activation")
    /\ DecodeKernels[19] = W({"expert_activation", "route"}, "update")
    /\ DecodeKernels[20] = K({"hidden", "update"}, "hidden")
  BY DEF DecodeKernels

LEMMA HeadKernelsAre ==
    /\ Len(HeadKernels) = 3
    /\ DOMAIN HeadKernels = 1..3
    /\ HeadKernels[1] = K({"hidden", "final_norm"}, "normalized")
    /\ HeadKernels[2] = W({"normalized"}, "logits")
    /\ HeadKernels[3] = K({"logits"}, "next_token")
  BY DEF HeadKernels

LEMMA KernelLists ==
    /\ PrepareKernels \in Seq(Kernels) /\ DecodeKernels \in Seq(Kernels)
    /\ EmbedKernels \in Seq(Kernels) /\ NormKernels \in Seq(Kernels)
    /\ HeadKernels \in Seq(Kernels)
<1>1. PrepareKernels \in Seq(Kernels)
  <2>1. \A write \in {"attention_norm", "moe_norm", "decay", "time_bias", "output_norm"} :
          W({}, write) \in Kernels
    BY DEF K, W, Kernels, Names
  <2>. QED
    BY <2>1 DEF PrepareKernels
<1>2. DecodeKernels \in Seq(Kernels)
  <2>1. /\ K({"hidden", "attention_norm"}, "normalized") \in Kernels
      /\ W({"normalized"}, "qkv") \in Kernels
      /\ K({"qkv", "qkv_conv_history"}, "qkv_conv_history") \in Kernels
      /\ W({"qkv", "qkv_conv_history"}, "qkv") \in Kernels
      /\ K({"qkv"}, "query") \in Kernels
      /\ W({"normalized"}, "control") \in Kernels
      /\ K({"control"}, "control_parts") \in Kernels
      /\ W({"control_parts"}, "raw_gate") \in Kernels
      /\ W({"control_parts"}, "output_gate") \in Kernels
      /\ K({"raw_gate", "control_parts", "decay", "time_bias"}, "gate") \in Kernels
      /\ K({"query", "gate", "recurrence_state"}, "recurrence_state") \in Kernels
      /\ K({"query", "recurrence_state"}, "post_kda") \in Kernels
      /\ K({"post_kda", "output_gate", "output_norm"}, "kda_gated") \in Kernels
      /\ W({"kda_gated"}, "update") \in Kernels
      /\ K({"hidden", "update"}, "hidden") \in Kernels
      /\ K({"hidden", "moe_norm"}, "normalized") \in Kernels
      /\ W({"normalized"}, "route") \in Kernels
      /\ W({"normalized", "route"}, "expert_activation") \in Kernels
      /\ W({"expert_activation", "route"}, "update") \in Kernels
      /\ K({"hidden", "update"}, "hidden") \in Kernels
    BY DEF K, W, Kernels, Names, Shared
  <2>. QED
    BY <2>1 DEF DecodeKernels
<1>3. W({"token"}, "hidden") \in Kernels /\ W({}, "final_norm") \in Kernels
  BY DEF K, W, Kernels, Names, Shared
<1>4. EmbedKernels \in Seq(Kernels) /\ NormKernels \in Seq(Kernels)
  BY <1>3 DEF EmbedKernels, NormKernels
<1>5. HeadKernels \in Seq(Kernels)
  <2>1. /\ K({"hidden", "final_norm"}, "normalized") \in Kernels
        /\ W({"normalized"}, "logits") \in Kernels
        /\ K({"logits"}, "next_token") \in Kernels
    BY DEF K, W, Kernels, Names, Shared
  <2>. QED
    BY <2>1 DEF HeadKernels
<1>. QED
  BY <1>1, <1>2, <1>4, <1>5

\* The buffers that the kernels write, and no others.
LEMMA CellsAre == Cells = {Cell(layer, name) : layer \in 1..Layers, name \in Names}
<1> DEFINE N == Shared \cup {kernel.write : kernel \in Range(PrepareKernels)
                                                      \cup Range(DecodeKernels)}
<1>1. \A reads, write : K(reads, write).write = write /\ W(reads, write).write = write
  BY DEF K, W
<1>2. \A i \in 1..5 : PrepareKernels[i].write \in N
  BY PrepareKernelsAre DEF Range
<1>3. \A i \in 1..20 : DecodeKernels[i].write \in N
  BY DecodeKernelsAre DEF Range
<1>4. N \subseteq Names
  <2>1. \A list \in Seq(Kernels) : \A kernel \in Range(list) : kernel.write \in Names
    <3> SUFFICES ASSUME NEW list \in Seq(Kernels), NEW i \in DOMAIN list
                 PROVE  list[i].write \in Names
      BY DEF Range
    <3>1. list[i] \in Kernels
      OBVIOUS
    <3>. QED
      BY <3>1 DEF Kernels
  <2>. QED
    BY <2>1, KernelLists DEF Names
<1>5. Names \subseteq N
  <2> HIDE DEF N
  <2>1. {"attention_norm", "moe_norm", "decay", "time_bias", "output_norm"} \subseteq N
    <3>1. /\ 1 \in 1..5 /\ 2 \in 1..5 /\ 3 \in 1..5 /\ 4 \in 1..5 /\ 5 \in 1..5
      OBVIOUS
    <3>. QED
      BY <1>1, <1>2, <3>1, PrepareKernelsAre
  <2>2. {"normalized", "qkv", "qkv_conv_history", "query", "control", "control_parts",
         "raw_gate", "output_gate", "gate", "recurrence_state"} \subseteq N
    BY <1>1, <1>3, DecodeKernelsAre
  <2>3. {"post_kda", "kda_gated", "update", "route", "expert_activation"} \subseteq N
    BY <1>1, <1>3, DecodeKernelsAre
  <2>4. Shared \subseteq N
    BY DEF N
  <2>. QED
    BY <2>1, <2>2, <2>3, <2>4 DEF Names
<1>. QED
  BY <1>4, <1>5 DEF Cells

LEMMA CellsOfLayers ==
    ASSUME NEW layer \in 1..Layers
    PROVE  /\ \A name \in Names : Cell(layer, name) \in Cells
           /\ \A a, b \in Names : a # b => Cell(layer, a) # Cell(layer, b)
           /\ \A other \in 1..Layers, a, b \in Names :
                Cell(layer, a) = Cell(other, b) =>
                    a = b /\ (a \in Shared \/ layer = other)
           /\ \A other \in 1..Layers, a \in Shared : Cell(layer, a) = Cell(other, a)
<1>1. \A name \in Names : Cell(layer, name) \in Cells
  BY CellsAre
<1>2. \A other, a, b : Cell(layer, a) = Cell(other, b) => a = b
  BY DEF Cell
<1>3. \A other, a : Cell(layer, a) = Cell(other, a) => a \in Shared \/ layer = other
  BY DEF Cell
<1>4. \A other \in 1..Layers, a \in Shared : Cell(layer, a) = Cell(other, a)
  BY DEF Cell
<1>. QED
  BY <1>1, <1>2, <1>3, <1>4

\* A kernel writes one buffer.
LEMMA DispatchedIs ==
    ASSUME NEW c \in CellStates, NEW layer \in 1..Layers, NEW kernel \in Kernels,
           NEW w \in Rows
    PROVE  /\ Dispatched(c, layer, kernel, w) \in CellStates
           /\ \A x \in Cells : x # Cell(layer, kernel.write) =>
                Dispatched(c, layer, kernel, w)[x] = c[x]
<1> DEFINE read == {c[Cell(layer, name)] : name \in kernel.reads}
           v == [rows |-> (UNION {r.rows : r \in read}) \cup (IF kernel.weights THEN {w} ELSE {}),
                 tokens |-> UNION {r.tokens : r \in read}]
<1>1. read \subseteq Contents
  BY CellsOfLayers DEF Kernels, CellStates
<1>2. UNION {r.rows : r \in read} \subseteq Rows /\ UNION {r.tokens : r \in read} \subseteq Nat
  BY <1>1 DEF Contents
<1>3. v \in Contents
  <2>1. (IF kernel.weights THEN {w} ELSE {}) \subseteq Rows
    OBVIOUS
  <2>. QED
    BY <1>2, <2>1 DEF Contents
<1>4. Cell(layer, kernel.write) \in Cells
  BY CellsOfLayers DEF Kernels
<1>5. Dispatched(c, layer, kernel, w) = [c EXCEPT ![Cell(layer, kernel.write)] = v]
  BY DEF Dispatched
<1> HIDE DEF v
<1>. QED
  BY <1>3, <1>4, <1>5 DEF CellStates

\* What a kernel makes of buffers that hold rows and tokens of one stream.
LEMMA DispatchedOf ==
    ASSUME NEW c \in CellStates, NEW layer \in 1..Layers, NEW kernel \in Kernels,
           NEW w \in Rows, NEW T,
           \A name \in kernel.reads : /\ c[Cell(layer, name)].rows \subseteq {w}
                                      /\ c[Cell(layer, name)].tokens \subseteq T,
           kernel.weights \/ \E name \in kernel.reads : w \in c[Cell(layer, name)].rows,
           \A t \in T : \E name \in kernel.reads : t \in c[Cell(layer, name)].tokens
    PROVE  Dispatched(c, layer, kernel, w)[Cell(layer, kernel.write)] = Of(w, T)
<1> DEFINE read == {c[Cell(layer, name)] : name \in kernel.reads}
           R == (UNION {r.rows : r \in read}) \cup (IF kernel.weights THEN {w} ELSE {})
           U == UNION {r.tokens : r \in read}
<1>1. R = {w}
  <2>1. UNION {r.rows : r \in read} \subseteq {w}
    OBVIOUS
  <2>2. CASE kernel.weights
    BY <2>1, <2>2
  <2>3. CASE ~kernel.weights
    <3>1. PICK name \in kernel.reads : w \in c[Cell(layer, name)].rows
      BY <2>3
    <3>2. w \in UNION {r.rows : r \in read}
      BY <3>1
    <3>. QED
      BY <2>1, <2>3, <3>2
  <2>. QED
    BY <2>2, <2>3
<1>2. U = T
  OBVIOUS
<1>3. Cell(layer, kernel.write) \in Cells
  BY CellsOfLayers DEF Kernels
<1>4. Dispatched(c, layer, kernel, w) =
        [c EXCEPT ![Cell(layer, kernel.write)] = [rows |-> R, tokens |-> U]]
  BY DEF Dispatched
<1> HIDE DEF R, U
<1>. QED
  BY <1>1, <1>2, <1>3, <1>4 DEF CellStates, Of

\* The dispatches are made one after the other.
LEMMA EncodedIs ==
    ASSUME NEW c \in CellStates, NEW layer \in 1..Layers, NEW kernels \in Seq(Kernels),
           NEW w \in Rows
    PROVE  \E after \in [0..Len(kernels) -> CellStates] :
             /\ after[0] = c
             /\ \A n \in 1..Len(kernels) :
                  after[n] = Dispatched(after[n - 1], layer, kernels[n], w)
             /\ Encoded(c, layer, kernels, w) = after[Len(kernels)]
<1> DEFINE len == Len(kernels)
           g == [n \in 1..len |-> [d \in CellStates |-> Dispatched(d, layer, kernels[n], w)]]
           Steps(h) == h = [n \in 0..len |-> IF n = 0 THEN c
                                 ELSE Dispatched(h[n - 1], layer, kernels[n], w)]
           after == CHOOSE h : Steps(h)
           S == {n \in 0..len : after[n] \in CellStates}
<1>1. len \in Nat /\ \A n \in 1..len : kernels[n] \in Kernels
  OBVIOUS
<1> HIDE DEF len
<1>2. g \in [1..len -> [CellStates -> CellStates]]
  BY <1>1, DispatchedIs
<1> HIDE DEF g
<1>3. PICK f : Iterates(f, len, CellStates, c, g)
  BY <1>1, <1>2, Iterated
<1>4. Steps(f)
  <2>1. f \in [0..len -> CellStates] /\ f[0] = c /\ \A n \in 1..len : f[n] = g[n][f[n - 1]]
    BY <1>3 DEF Iterates
  <2>2. ASSUME NEW n \in 1..len PROVE f[n] = Dispatched(f[n - 1], layer, kernels[n], w)
    <3>1. n - 1 \in 0..len
      BY <1>1
    <3>2. f[n - 1] \in CellStates
      BY <2>1, <3>1
    <3>. QED
      BY <2>1, <3>2 DEF g
  <2>3. \A n \in 0..len : n # 0 => n \in 1..len
    BY <1>1
  <2>. QED
    BY <2>1, <2>2, <2>3
<1> HIDE DEF Steps
<1>5. Steps(after)
  BY <1>4
<1> HIDE DEF after
<1>6. /\ DOMAIN after = 0..len /\ after[0] = c
      /\ \A n \in 1..len : after[n] = Dispatched(after[n - 1], layer, kernels[n], w)
  <2>1. 0 \in 0..len /\ \A n \in 1..len : n \in 0..len /\ n # 0
    BY <1>1
  <2>. QED
    BY <1>5, <2>1 DEF Steps
<1>7. \A n \in 0..len : n \in S
  <2>1. 0 \in S
    BY <1>1, <1>6
  <2>2. ASSUME NEW n \in 0..(len - 1), n \in S PROVE n + 1 \in S
    <3>1. n + 1 \in 1..len /\ n + 1 \in 0..len /\ (n + 1) - 1 = n
      BY <1>1
    <3>2. after[n + 1] = Dispatched(after[n], layer, kernels[n + 1], w)
      BY <1>6, <3>1
    <3>. QED
      BY <1>1, <2>2, <3>1, <3>2, DispatchedIs
  <2> HIDE DEF S
  <2>. QED
    BY <1>1, <2>1, <2>2, UpTo
<1>8. after \in [0..len -> CellStates]
  <2>1. Steps(after) => after = [n \in 0..len |-> after[n]]
    BY <1>6 DEF Steps
  <2>. QED
    BY <1>5, <1>7, <2>1
<1>9. Encoded(c, layer, kernels, w) = after[len]
  BY Zenon DEF Encoded, after, Steps, len
<1>. QED
  BY <1>6, <1>8, <1>9 DEF len

\* What the kernels do not write stays.
LEMMA EncodedFrame ==
    ASSUME NEW c \in CellStates, NEW layer \in 1..Layers, NEW kernels \in Seq(Kernels),
           NEW w \in Rows
    PROVE  /\ Encoded(c, layer, kernels, w) \in CellStates
           /\ \A x \in Cells :
                (\A n \in 1..Len(kernels) : x # Cell(layer, kernels[n].write)) =>
                    Encoded(c, layer, kernels, w)[x] = c[x]
<1>1. PICK after \in [0..Len(kernels) -> CellStates] :
        /\ after[0] = c
        /\ \A n \in 1..Len(kernels) : after[n] = Dispatched(after[n - 1], layer, kernels[n], w)
        /\ Encoded(c, layer, kernels, w) = after[Len(kernels)]
  BY EncodedIs
<1>2. Len(kernels) \in Nat /\ \A n \in 1..Len(kernels) : kernels[n] \in Kernels
  OBVIOUS
<1>3. ASSUME NEW x \in Cells, \A n \in 1..Len(kernels) : x # Cell(layer, kernels[n].write)
      PROVE  after[Len(kernels)][x] = c[x]
  <2> DEFINE S == {n \in 0..Len(kernels) : after[n][x] = c[x]}
  <2>1. 0 \in S
    BY <1>1, <1>2
  <2>2. ASSUME NEW n \in 0..(Len(kernels) - 1), n \in S PROVE n + 1 \in S
    <3>1. n + 1 \in 1..Len(kernels) /\ n \in 0..Len(kernels) /\ (n + 1) - 1 = n
          /\ n + 1 \in 0..Len(kernels)
      BY <1>2
    <3>2. after[n + 1] = Dispatched(after[n], layer, kernels[n + 1], w) /\ after[n] \in CellStates
      BY <1>1, <3>1
    <3>3. after[n + 1][x] = after[n][x]
      BY <1>2, <1>3, <3>1, <3>2, DispatchedIs
    <3>. QED
      BY <2>2, <3>1, <3>3
  <2> HIDE DEF S
  <2>3. \A n \in 0..Len(kernels) : n \in S
    BY <1>2, <2>1, <2>2, UpTo
  <2>. QED
    BY <1>2, <2>3 DEF S
<1>4. after[Len(kernels)] \in CellStates
  BY <1>1, <1>2
<1>. QED
  BY <1>1, <1>3, <1>4

LEMMA OfIs ==
    ASSUME NEW w, NEW T
    PROVE  Of(w, T).rows = {w} /\ Of(w, T).tokens = T
  BY DEF Of

\* A kernel without weights on a layer whose buffers come from w.
LEMMA PlainKernel ==
    ASSUME NEW c \in CellStates, NEW layer \in 1..Layers, NEW w \in Rows, NEW T,
           NEW reads \in SUBSET Names, NEW write \in Names,
           \A name \in reads : /\ c[Cell(layer, name)].rows \subseteq {w}
                               /\ c[Cell(layer, name)].tokens \subseteq T,
           \E name \in reads : w \in c[Cell(layer, name)].rows,
           \A t \in T : \E name \in reads : t \in c[Cell(layer, name)].tokens
    PROVE  Dispatched(c, layer, K(reads, write), w)[Cell(layer, write)] = Of(w, T)
<1>1. /\ K(reads, write) \in Kernels
      /\ K(reads, write).reads = reads /\ K(reads, write).write = write
  BY DEF K, Kernels
<1>. QED
  BY <1>1, DispatchedOf

\* One that reads the weights w.
LEMMA WeightKernel ==
    ASSUME NEW c \in CellStates, NEW layer \in 1..Layers, NEW w \in Rows, NEW T,
           NEW reads \in SUBSET Names, NEW write \in Names,
           \A name \in reads : /\ c[Cell(layer, name)].rows \subseteq {w}
                               /\ c[Cell(layer, name)].tokens \subseteq T,
           \A t \in T : \E name \in reads : t \in c[Cell(layer, name)].tokens
    PROVE  Dispatched(c, layer, W(reads, write), w)[Cell(layer, write)] = Of(w, T)
<1>1. /\ W(reads, write) \in Kernels /\ W(reads, write).weights
      /\ W(reads, write).reads = reads /\ W(reads, write).write = write
  BY DEF W, Kernels
<1>. QED
  BY <1>1, DispatchedOf

\* What kernels with one to three inputs make of buffers that come from w.
LEMMA PlainOnOne ==
    ASSUME NEW c \in CellStates, NEW layer \in 1..Layers, NEW w \in Rows,
           NEW a \in Names, NEW z \in Names,
           c[Cell(layer, a)].rows = {w}
    PROVE  Dispatched(c, layer, K({a}, z), w)[Cell(layer, z)] =
               Of(w, c[Cell(layer, a)].tokens)
<1> DEFINE T == c[Cell(layer, a)].tokens
<1>1. {a} \in SUBSET Names
  OBVIOUS
<1>2. \A name \in {a} :
        /\ c[Cell(layer, name)].rows \subseteq {w}
        /\ c[Cell(layer, name)].tokens \subseteq T
  OBVIOUS
<1>3. \A t \in T : \E name \in {a} : t \in c[Cell(layer, name)].tokens
  OBVIOUS
<1>4. \E name \in {a} : w \in c[Cell(layer, name)].rows
  OBVIOUS
<1> HIDE DEF T
<1>5. Dispatched(c, layer, K({a}, z), w)[Cell(layer, z)] = Of(w, T)
  BY <1>1, <1>2, <1>3, <1>4, PlainKernel
<1>. QED
  BY <1>5 DEF T

LEMMA PlainOnTwo ==
    ASSUME NEW c \in CellStates, NEW layer \in 1..Layers, NEW w \in Rows,
           NEW a \in Names, NEW b \in Names, NEW z \in Names,
           c[Cell(layer, a)].rows = {w},
           c[Cell(layer, b)].rows \subseteq {w}
    PROVE  Dispatched(c, layer, K({a, b}, z), w)[Cell(layer, z)] =
               Of(w, c[Cell(layer, a)].tokens \cup c[Cell(layer, b)].tokens)
<1> DEFINE T == c[Cell(layer, a)].tokens \cup c[Cell(layer, b)].tokens
<1>1. {a, b} \in SUBSET Names
  OBVIOUS
<1>2. \A name \in {a, b} :
        /\ c[Cell(layer, name)].rows \subseteq {w}
        /\ c[Cell(layer, name)].tokens \subseteq T
  OBVIOUS
<1>3. \A t \in T : \E name \in {a, b} : t \in c[Cell(layer, name)].tokens
  OBVIOUS
<1>4. \E name \in {a, b} : w \in c[Cell(layer, name)].rows
  OBVIOUS
<1> HIDE DEF T
<1>5. Dispatched(c, layer, K({a, b}, z), w)[Cell(layer, z)] = Of(w, T)
  BY <1>1, <1>2, <1>3, <1>4, PlainKernel
<1>. QED
  BY <1>5 DEF T

LEMMA PlainOnThree ==
    ASSUME NEW c \in CellStates, NEW layer \in 1..Layers, NEW w \in Rows,
           NEW a \in Names, NEW b \in Names, NEW d \in Names, NEW z \in Names,
           c[Cell(layer, a)].rows = {w},
           c[Cell(layer, b)].rows \subseteq {w},
           c[Cell(layer, d)].rows \subseteq {w}
    PROVE  Dispatched(c, layer, K({a, b, d}, z), w)[Cell(layer, z)] =
               Of(w, c[Cell(layer, a)].tokens \cup c[Cell(layer, b)].tokens
                  \cup c[Cell(layer, d)].tokens)
<1> DEFINE T == c[Cell(layer, a)].tokens \cup c[Cell(layer, b)].tokens
                \cup c[Cell(layer, d)].tokens
<1>1. {a, b, d} \in SUBSET Names
  OBVIOUS
<1>2. \A name \in {a, b, d} :
        /\ c[Cell(layer, name)].rows \subseteq {w}
        /\ c[Cell(layer, name)].tokens \subseteq T
  OBVIOUS
<1>3. \A t \in T : \E name \in {a, b, d} : t \in c[Cell(layer, name)].tokens
  OBVIOUS
<1>4. \E name \in {a, b, d} : w \in c[Cell(layer, name)].rows
  OBVIOUS
<1> HIDE DEF T
<1>5. Dispatched(c, layer, K({a, b, d}, z), w)[Cell(layer, z)] = Of(w, T)
  BY <1>1, <1>2, <1>3, <1>4, PlainKernel
<1>. QED
  BY <1>5 DEF T

LEMMA WeightOnOne ==
    ASSUME NEW c \in CellStates, NEW layer \in 1..Layers, NEW w \in Rows,
           NEW a \in Names, NEW z \in Names,
           c[Cell(layer, a)].rows \subseteq {w}
    PROVE  Dispatched(c, layer, W({a}, z), w)[Cell(layer, z)] =
               Of(w, c[Cell(layer, a)].tokens)
<1> DEFINE T == c[Cell(layer, a)].tokens
<1>1. {a} \in SUBSET Names
  OBVIOUS
<1>2. \A name \in {a} :
        /\ c[Cell(layer, name)].rows \subseteq {w}
        /\ c[Cell(layer, name)].tokens \subseteq T
  OBVIOUS
<1>3. \A t \in T : \E name \in {a} : t \in c[Cell(layer, name)].tokens
  OBVIOUS
<1> HIDE DEF T
<1>5. Dispatched(c, layer, W({a}, z), w)[Cell(layer, z)] = Of(w, T)
  BY <1>1, <1>2, <1>3, WeightKernel
<1>. QED
  BY <1>5 DEF T

LEMMA WeightOnTwo ==
    ASSUME NEW c \in CellStates, NEW layer \in 1..Layers, NEW w \in Rows,
           NEW a \in Names, NEW b \in Names, NEW z \in Names,
           c[Cell(layer, a)].rows \subseteq {w},
           c[Cell(layer, b)].rows \subseteq {w}
    PROVE  Dispatched(c, layer, W({a, b}, z), w)[Cell(layer, z)] =
               Of(w, c[Cell(layer, a)].tokens \cup c[Cell(layer, b)].tokens)
<1> DEFINE T == c[Cell(layer, a)].tokens \cup c[Cell(layer, b)].tokens
<1>1. {a, b} \in SUBSET Names
  OBVIOUS
<1>2. \A name \in {a, b} :
        /\ c[Cell(layer, name)].rows \subseteq {w}
        /\ c[Cell(layer, name)].tokens \subseteq T
  OBVIOUS
<1>3. \A t \in T : \E name \in {a, b} : t \in c[Cell(layer, name)].tokens
  OBVIOUS
<1> HIDE DEF T
<1>5. Dispatched(c, layer, W({a, b}, z), w)[Cell(layer, z)] = Of(w, T)
  BY <1>1, <1>2, <1>3, WeightKernel
<1>. QED
  BY <1>5 DEF T

LEMMA PlainOnGate ==
    ASSUME NEW c \in CellStates, NEW layer \in 1..Layers, NEW w \in Rows, NEW T,
           c[Cell(layer, "raw_gate")] = Of(w, T), c[Cell(layer, "control_parts")] = Of(w, T),
           c[Cell(layer, "decay")] = Of(w, {}), c[Cell(layer, "time_bias")] = Of(w, {})
    PROVE  Dispatched(c, layer, K({"raw_gate", "control_parts", "decay", "time_bias"}, "gate"), w)
             [Cell(layer, "gate")] = Of(w, T)
<1> DEFINE reads == {"raw_gate", "control_parts", "decay", "time_bias"}
<1>1. reads \in SUBSET Names /\ "gate" \in Names
  BY DEF Names, Shared
<1>2. \A name \in reads : /\ c[Cell(layer, name)].rows \subseteq {w}
                          /\ c[Cell(layer, name)].tokens \subseteq T
  BY OfIs
<1>3. \E name \in reads : w \in c[Cell(layer, name)].rows
  BY OfIs
<1>4. \A t \in T : \E name \in reads : t \in c[Cell(layer, name)].tokens
  BY OfIs
<1> HIDE DEF reads
<1>5. Dispatched(c, layer, K(reads, "gate"), w)[Cell(layer, "gate")] = Of(w, T)
  BY <1>1, <1>2, <1>3, <1>4, PlainKernel
<1>. QED
  BY <1>5 DEF reads

LEMMA KernelFrame ==
    ASSUME NEW c \in CellStates, NEW layer \in 1..Layers, NEW w \in Rows,
           NEW reads \in SUBSET Names, NEW write \in Names, NEW name \in Names \ {write}
    PROVE  /\ Dispatched(c, layer, K(reads, write), w)[Cell(layer, name)] = c[Cell(layer, name)]
           /\ Dispatched(c, layer, W(reads, write), w)[Cell(layer, name)] = c[Cell(layer, name)]
<1>1. /\ K(reads, write) \in Kernels /\ K(reads, write).write = write
      /\ W(reads, write) \in Kernels /\ W(reads, write).write = write
  BY DEF K, W, Kernels
<1>2. Cell(layer, name) \in Cells /\ Cell(layer, name) # Cell(layer, write)
  BY CellsOfLayers
<1>. QED
  BY <1>1, <1>2, DispatchedIs

\* What a layer of a model with the weights w finds in its buffers.
LayerReads(c, layer, w, S, T) ==
    /\ c[Cell(layer, "hidden")] = Of(w, T)
    /\ \A name \in LayerVectors : c[Cell(layer, name)] = Of(w, {})
    /\ \A name \in Memories : /\ c[Cell(layer, name)].rows \subseteq {w}
                              /\ c[Cell(layer, name)].tokens = S

\* A token on a layer of a model whose weights are all w: the vectors are
\* those of w, the memories come from w and the tokens S, the layers before
\* have made a hidden state of w and the tokens T.
LEMMA DecodeLayer ==
    ASSUME NEW c \in CellStates, NEW layer \in 1..Layers, NEW w \in Rows,
           NEW S \in SUBSET Nat, NEW T \in SUBSET Nat, LayerReads(c, layer, w, S, T)
    PROVE  \A name \in {"hidden"} \cup Memories :
             Encoded(c, layer, DecodeKernels, w)[Cell(layer, name)] = Of(w, S \cup T)
<1>1. PICK after \in [0..Len(DecodeKernels) -> CellStates] :
        /\ after[0] = c
        /\ \A n \in 1..Len(DecodeKernels) :
             after[n] = Dispatched(after[n - 1], layer, DecodeKernels[n], w)
        /\ Encoded(c, layer, DecodeKernels, w) = after[Len(DecodeKernels)]
  <2>1. DecodeKernels \in Seq(Kernels)
    BY KernelLists
  <2>. QED
    BY <2>1, EncodedIs
<1> DEFINE U == S \cup T
           At(k, name) == after[k][Cell(layer, name)]
           Hold(k, N, X) == \A name \in N : At(k, name) = Of(w, X)
           Begin(k, N) == \A name \in N : /\ At(k, name).rows \subseteq {w}
                                          /\ At(k, name).tokens = S
<1>2. /\ Hold(0, {"attention_norm", "decay", "moe_norm", "output_norm", "time_bias"}, {})
      /\ Hold(0, {"hidden"}, T)
      /\ Begin(0, {"qkv_conv_history", "recurrence_state"})
  BY <1>1 DEF LayerReads, LayerVectors, Memories
<1>3. /\ Hold(1, {"decay", "moe_norm", "output_norm", "time_bias"}, {})
      /\ Hold(1, {"hidden", "normalized"}, T)
      /\ Begin(1, {"qkv_conv_history", "recurrence_state"})
  <2>1. /\ after[0] \in CellStates
        /\ after[1] = Dispatched(after[0], layer,
                                 K({"hidden", "attention_norm"}, "normalized"), w)
    BY <1>1, DecodeKernelsAre
  <2>2. "attention_norm" \in Names /\ "hidden" \in Names /\ "normalized" \in Names
    BY DEF Names, Shared
  <2>3. /\ At(0, "hidden") = Of(w, T)
        /\ At(0, "attention_norm") = Of(w, {})
    BY <1>2
  <2>4. At(0, "hidden").tokens \cup At(0, "attention_norm").tokens = T
    BY <2>3, OfIs
  <2>5. At(1, "normalized") = Of(w, T)
    BY <2>1, <2>2, <2>3, <2>4, PlainOnTwo, OfIs
  <2>6. \A name \in Names \ {"normalized"} : At(1, name) = At(0, name)
    BY <2>1, <2>2, KernelFrame
  <2>. QED
    BY <1>2, <2>5, <2>6 DEF Names, Shared
<1>4. /\ Hold(2, {"decay", "moe_norm", "output_norm", "time_bias"}, {})
      /\ Hold(2, {"hidden", "normalized", "qkv"}, T)
      /\ Begin(2, {"qkv_conv_history", "recurrence_state"})
  <2>1. /\ after[1] \in CellStates
        /\ after[2] = Dispatched(after[1], layer, W({"normalized"}, "qkv"), w)
    BY <1>1, DecodeKernelsAre
  <2>2. "normalized" \in Names /\ "qkv" \in Names
    BY DEF Names, Shared
  <2>3. At(1, "normalized") = Of(w, T)
    BY <1>3
  <2>4. At(1, "normalized").tokens = T
    BY <2>3, OfIs
  <2>5. At(2, "qkv") = Of(w, T)
    BY <2>1, <2>2, <2>3, <2>4, WeightOnOne, OfIs
  <2>6. \A name \in Names \ {"qkv"} : At(2, name) = At(1, name)
    BY <2>1, <2>2, KernelFrame
  <2>. QED
    BY <1>3, <2>5, <2>6 DEF Names, Shared
<1>5. /\ Hold(3, {"decay", "moe_norm", "output_norm", "time_bias"}, {})
      /\ Hold(3, {"hidden", "normalized", "qkv"}, T)
      /\ Hold(3, {"qkv_conv_history"}, U)
      /\ Begin(3, {"recurrence_state"})
  <2>1. /\ after[2] \in CellStates
        /\ after[3] = Dispatched(after[2], layer,
                                 K({"qkv", "qkv_conv_history"}, "qkv_conv_history"), w)
    BY <1>1, DecodeKernelsAre
  <2>2. "qkv" \in Names /\ "qkv_conv_history" \in Names
    BY DEF Names, Shared
  <2>3. /\ At(2, "qkv") = Of(w, T)
        /\ At(2, "qkv_conv_history").rows \subseteq {w}
        /\ At(2, "qkv_conv_history").tokens = S
    BY <1>4
  <2>4. At(2, "qkv").tokens \cup At(2, "qkv_conv_history").tokens = U
    BY <2>3, OfIs
  <2>5. At(3, "qkv_conv_history") = Of(w, U)
    BY <2>1, <2>2, <2>3, <2>4, PlainOnTwo, OfIs
  <2>6. \A name \in Names \ {"qkv_conv_history"} : At(3, name) = At(2, name)
    BY <2>1, <2>2, KernelFrame
  <2>. QED
    BY <1>4, <2>5, <2>6 DEF Names, Shared
<1>6. /\ Hold(4, {"decay", "moe_norm", "output_norm", "time_bias"}, {})
      /\ Hold(4, {"hidden", "normalized"}, T)
      /\ Hold(4, {"qkv", "qkv_conv_history"}, U)
      /\ Begin(4, {"recurrence_state"})
  <2>1. /\ after[3] \in CellStates
        /\ after[4] = Dispatched(after[3], layer, W({"qkv", "qkv_conv_history"}, "qkv"), w)
    BY <1>1, DecodeKernelsAre
  <2>2. "qkv" \in Names /\ "qkv_conv_history" \in Names
    BY DEF Names, Shared
  <2>3. /\ At(3, "qkv") = Of(w, T)
        /\ At(3, "qkv_conv_history") = Of(w, U)
    BY <1>5
  <2>4. At(3, "qkv").tokens \cup At(3, "qkv_conv_history").tokens = U
    BY <2>3, OfIs
  <2>5. At(4, "qkv") = Of(w, U)
    BY <2>1, <2>2, <2>3, <2>4, WeightOnTwo, OfIs
  <2>6. \A name \in Names \ {"qkv"} : At(4, name) = At(3, name)
    BY <2>1, <2>2, KernelFrame
  <2>. QED
    BY <1>5, <2>5, <2>6 DEF Names, Shared
<1>7. /\ Hold(5, {"decay", "moe_norm", "output_norm", "time_bias"}, {})
      /\ Hold(5, {"hidden", "normalized"}, T)
      /\ Hold(5, {"qkv_conv_history", "query"}, U)
      /\ Begin(5, {"recurrence_state"})
  <2>1. /\ after[4] \in CellStates
        /\ after[5] = Dispatched(after[4], layer, K({"qkv"}, "query"), w)
    BY <1>1, DecodeKernelsAre
  <2>2. "qkv" \in Names /\ "query" \in Names
    BY DEF Names, Shared
  <2>3. At(4, "qkv") = Of(w, U)
    BY <1>6
  <2>4. At(4, "qkv").tokens = U
    BY <2>3, OfIs
  <2>5. At(5, "query") = Of(w, U)
    BY <2>1, <2>2, <2>3, <2>4, PlainOnOne, OfIs
  <2>6. \A name \in Names \ {"query"} : At(5, name) = At(4, name)
    BY <2>1, <2>2, KernelFrame
  <2>. QED
    BY <1>6, <2>5, <2>6 DEF Names, Shared
<1>8. /\ Hold(6, {"decay", "moe_norm", "output_norm", "time_bias"}, {})
      /\ Hold(6, {"control", "hidden"}, T)
      /\ Hold(6, {"qkv_conv_history", "query"}, U)
      /\ Begin(6, {"recurrence_state"})
  <2>1. /\ after[5] \in CellStates
        /\ after[6] = Dispatched(after[5], layer, W({"normalized"}, "control"), w)
    BY <1>1, DecodeKernelsAre
  <2>2. "control" \in Names /\ "normalized" \in Names
    BY DEF Names, Shared
  <2>3. At(5, "normalized") = Of(w, T)
    BY <1>7
  <2>4. At(5, "normalized").tokens = T
    BY <2>3, OfIs
  <2>5. At(6, "control") = Of(w, T)
    BY <2>1, <2>2, <2>3, <2>4, WeightOnOne, OfIs
  <2>6. \A name \in Names \ {"control"} : At(6, name) = At(5, name)
    BY <2>1, <2>2, KernelFrame
  <2>. QED
    BY <1>7, <2>5, <2>6 DEF Names, Shared
<1>9. /\ Hold(7, {"decay", "moe_norm", "output_norm", "time_bias"}, {})
      /\ Hold(7, {"control_parts", "hidden"}, T)
      /\ Hold(7, {"qkv_conv_history", "query"}, U)
      /\ Begin(7, {"recurrence_state"})
  <2>1. /\ after[6] \in CellStates
        /\ after[7] = Dispatched(after[6], layer, K({"control"}, "control_parts"), w)
    BY <1>1, DecodeKernelsAre
  <2>2. "control" \in Names /\ "control_parts" \in Names
    BY DEF Names, Shared
  <2>3. At(6, "control") = Of(w, T)
    BY <1>8
  <2>4. At(6, "control").tokens = T
    BY <2>3, OfIs
  <2>5. At(7, "control_parts") = Of(w, T)
    BY <2>1, <2>2, <2>3, <2>4, PlainOnOne, OfIs
  <2>6. \A name \in Names \ {"control_parts"} : At(7, name) = At(6, name)
    BY <2>1, <2>2, KernelFrame
  <2>. QED
    BY <1>8, <2>5, <2>6 DEF Names, Shared
<1>10. /\ Hold(8, {"decay", "moe_norm", "output_norm", "time_bias"}, {})
      /\ Hold(8, {"control_parts", "hidden", "raw_gate"}, T)
      /\ Hold(8, {"qkv_conv_history", "query"}, U)
      /\ Begin(8, {"recurrence_state"})
  <2>1. /\ after[7] \in CellStates
        /\ after[8] = Dispatched(after[7], layer, W({"control_parts"}, "raw_gate"), w)
    BY <1>1, DecodeKernelsAre
  <2>2. "control_parts" \in Names /\ "raw_gate" \in Names
    BY DEF Names, Shared
  <2>3. At(7, "control_parts") = Of(w, T)
    BY <1>9
  <2>4. At(7, "control_parts").tokens = T
    BY <2>3, OfIs
  <2>5. At(8, "raw_gate") = Of(w, T)
    BY <2>1, <2>2, <2>3, <2>4, WeightOnOne, OfIs
  <2>6. \A name \in Names \ {"raw_gate"} : At(8, name) = At(7, name)
    BY <2>1, <2>2, KernelFrame
  <2>. QED
    BY <1>9, <2>5, <2>6 DEF Names, Shared
<1>11. /\ Hold(9, {"decay", "moe_norm", "output_norm", "time_bias"}, {})
      /\ Hold(9, {"control_parts", "hidden", "output_gate", "raw_gate"}, T)
      /\ Hold(9, {"qkv_conv_history", "query"}, U)
      /\ Begin(9, {"recurrence_state"})
  <2>1. /\ after[8] \in CellStates
        /\ after[9] = Dispatched(after[8], layer, W({"control_parts"}, "output_gate"), w)
    BY <1>1, DecodeKernelsAre
  <2>2. "control_parts" \in Names /\ "output_gate" \in Names
    BY DEF Names, Shared
  <2>3. At(8, "control_parts") = Of(w, T)
    BY <1>10
  <2>4. At(8, "control_parts").tokens = T
    BY <2>3, OfIs
  <2>5. At(9, "output_gate") = Of(w, T)
    BY <2>1, <2>2, <2>3, <2>4, WeightOnOne, OfIs
  <2>6. \A name \in Names \ {"output_gate"} : At(9, name) = At(8, name)
    BY <2>1, <2>2, KernelFrame
  <2>. QED
    BY <1>10, <2>5, <2>6 DEF Names, Shared
<1>12. /\ Hold(10, {"moe_norm", "output_norm"}, {})
      /\ Hold(10, {"gate", "hidden", "output_gate"}, T)
      /\ Hold(10, {"qkv_conv_history", "query"}, U)
      /\ Begin(10, {"recurrence_state"})
  <2>1. /\ after[9] \in CellStates
        /\ after[10] = Dispatched(after[9], layer,
                                  K({"raw_gate", "control_parts", "decay", "time_bias"}, "gate"), w)
    BY <1>1, DecodeKernelsAre
  <2>2. /\ "control_parts" \in Names /\ "decay" \in Names
        /\ "gate" \in Names /\ "raw_gate" \in Names
        /\ "time_bias" \in Names
    BY DEF Names, Shared
  <2>3. /\ At(9, "raw_gate") = Of(w, T)
        /\ At(9, "control_parts") = Of(w, T)
        /\ At(9, "decay") = Of(w, {})
        /\ At(9, "time_bias") = Of(w, {})
    BY <1>11
  <2>5. At(10, "gate") = Of(w, T)
    BY <2>1, <2>3, PlainOnGate
  <2>6. \A name \in Names \ {"gate"} : At(10, name) = At(9, name)
    BY <2>1, <2>2, KernelFrame
  <2>. QED
    BY <1>11, <2>5, <2>6 DEF Names, Shared
<1>13. /\ Hold(11, {"moe_norm", "output_norm"}, {})
      /\ Hold(11, {"hidden", "output_gate"}, T)
      /\ Hold(11, {"qkv_conv_history", "query", "recurrence_state"}, U)
  <2>1. /\ after[10] \in CellStates
        /\ after[11] = Dispatched(after[10], layer,
                                  K({"query", "gate", "recurrence_state"}, "recurrence_state"), w)
    BY <1>1, DecodeKernelsAre
  <2>2. "gate" \in Names /\ "query" \in Names /\ "recurrence_state" \in Names
    BY DEF Names, Shared
  <2>3. /\ At(10, "query") = Of(w, U)
        /\ At(10, "gate") = Of(w, T)
        /\ At(10, "recurrence_state").rows \subseteq {w}
        /\ At(10, "recurrence_state").tokens = S
    BY <1>12
  <2>4. At(10, "query").tokens \cup At(10, "gate").tokens
                     \cup At(10, "recurrence_state").tokens = U
    BY <2>3, OfIs
  <2>5. At(11, "recurrence_state") = Of(w, U)
    BY <2>1, <2>2, <2>3, <2>4, PlainOnThree, OfIs, SMTT(60)
  <2>6. \A name \in Names \ {"recurrence_state"} : At(11, name) = At(10, name)
    BY <2>1, <2>2, KernelFrame
  <2>. QED
    BY <1>12, <2>5, <2>6 DEF Names, Shared
<1>14. /\ Hold(12, {"moe_norm", "output_norm"}, {})
      /\ Hold(12, {"hidden", "output_gate"}, T)
      /\ Hold(12, {"post_kda", "qkv_conv_history", "recurrence_state"}, U)
  <2>1. /\ after[11] \in CellStates
        /\ after[12] = Dispatched(after[11], layer,
                                  K({"query", "recurrence_state"}, "post_kda"), w)
    BY <1>1, DecodeKernelsAre
  <2>2. "post_kda" \in Names /\ "query" \in Names /\ "recurrence_state" \in Names
    BY DEF Names, Shared
  <2>3. /\ At(11, "query") = Of(w, U)
        /\ At(11, "recurrence_state") = Of(w, U)
    BY <1>13
  <2>4. At(11, "query").tokens \cup At(11, "recurrence_state").tokens = U
    BY <2>3, OfIs
  <2>5. At(12, "post_kda") = Of(w, U)
    BY <2>1, <2>2, <2>3, <2>4, PlainOnTwo, OfIs
  <2>6. \A name \in Names \ {"post_kda"} : At(12, name) = At(11, name)
    BY <2>1, <2>2, KernelFrame
  <2>. QED
    BY <1>13, <2>5, <2>6 DEF Names, Shared
<1>15. /\ Hold(13, {"moe_norm"}, {})
      /\ Hold(13, {"hidden"}, T)
      /\ Hold(13, {"kda_gated", "qkv_conv_history", "recurrence_state"}, U)
  <2>1. /\ after[12] \in CellStates
        /\ after[13] = Dispatched(after[12], layer,
                                  K({"post_kda", "output_gate", "output_norm"}, "kda_gated"), w)
    BY <1>1, DecodeKernelsAre
  <2>2. /\ "kda_gated" \in Names /\ "output_gate" \in Names
        /\ "output_norm" \in Names /\ "post_kda" \in Names
    BY DEF Names, Shared
  <2>3. /\ At(12, "post_kda") = Of(w, U)
        /\ At(12, "output_gate") = Of(w, T)
        /\ At(12, "output_norm") = Of(w, {})
    BY <1>14
  <2>4. At(12, "post_kda").tokens \cup At(12, "output_gate").tokens
                     \cup At(12, "output_norm").tokens = U
    BY <2>3, OfIs
  <2>5. At(13, "kda_gated") = Of(w, U)
    BY <2>1, <2>2, <2>3, <2>4, PlainOnThree, OfIs, SMTT(60)
  <2>6. \A name \in Names \ {"kda_gated"} : At(13, name) = At(12, name)
    BY <2>1, <2>2, KernelFrame
  <2>. QED
    BY <1>14, <2>5, <2>6 DEF Names, Shared
<1>16. /\ Hold(14, {"moe_norm"}, {})
      /\ Hold(14, {"hidden"}, T)
      /\ Hold(14, {"qkv_conv_history", "recurrence_state", "update"}, U)
  <2>1. /\ after[13] \in CellStates
        /\ after[14] = Dispatched(after[13], layer, W({"kda_gated"}, "update"), w)
    BY <1>1, DecodeKernelsAre
  <2>2. "kda_gated" \in Names /\ "update" \in Names
    BY DEF Names, Shared
  <2>3. At(13, "kda_gated") = Of(w, U)
    BY <1>15
  <2>4. At(13, "kda_gated").tokens = U
    BY <2>3, OfIs
  <2>5. At(14, "update") = Of(w, U)
    BY <2>1, <2>2, <2>3, <2>4, WeightOnOne, OfIs
  <2>6. \A name \in Names \ {"update"} : At(14, name) = At(13, name)
    BY <2>1, <2>2, KernelFrame
  <2>. QED
    BY <1>15, <2>5, <2>6 DEF Names, Shared
<1>17. /\ Hold(15, {"moe_norm"}, {})
      /\ Hold(15, {"hidden", "qkv_conv_history", "recurrence_state"}, U)
  <2>1. /\ after[14] \in CellStates
        /\ after[15] = Dispatched(after[14], layer, K({"hidden", "update"}, "hidden"), w)
    BY <1>1, DecodeKernelsAre
  <2>2. "hidden" \in Names /\ "update" \in Names
    BY DEF Names, Shared
  <2>3. /\ At(14, "hidden") = Of(w, T)
        /\ At(14, "update") = Of(w, U)
    BY <1>16
  <2>4. At(14, "hidden").tokens \cup At(14, "update").tokens = U
    BY <2>3, OfIs
  <2>5. At(15, "hidden") = Of(w, U)
    BY <2>1, <2>2, <2>3, <2>4, PlainOnTwo, OfIs
  <2>6. \A name \in Names \ {"hidden"} : At(15, name) = At(14, name)
    BY <2>1, <2>2, KernelFrame
  <2>. QED
    BY <1>16, <2>5, <2>6 DEF Names, Shared
<1>18. Hold(16, {"hidden", "normalized", "qkv_conv_history", "recurrence_state"}, U)
  <2>1. /\ after[15] \in CellStates
        /\ after[16] = Dispatched(after[15], layer, K({"hidden", "moe_norm"}, "normalized"), w)
    BY <1>1, DecodeKernelsAre
  <2>2. "hidden" \in Names /\ "moe_norm" \in Names /\ "normalized" \in Names
    BY DEF Names, Shared
  <2>3. /\ At(15, "hidden") = Of(w, U)
        /\ At(15, "moe_norm") = Of(w, {})
    BY <1>17
  <2>4. At(15, "hidden").tokens \cup At(15, "moe_norm").tokens = U
    BY <2>3, OfIs
  <2>5. At(16, "normalized") = Of(w, U)
    BY <2>1, <2>2, <2>3, <2>4, PlainOnTwo, OfIs
  <2>6. \A name \in Names \ {"normalized"} : At(16, name) = At(15, name)
    BY <2>1, <2>2, KernelFrame
  <2>. QED
    BY <1>17, <2>5, <2>6 DEF Names, Shared
<1>19. Hold(17, {"hidden", "normalized", "qkv_conv_history", "recurrence_state", "route"}, U)
  <2>1. /\ after[16] \in CellStates
        /\ after[17] = Dispatched(after[16], layer, W({"normalized"}, "route"), w)
    BY <1>1, DecodeKernelsAre
  <2>2. "normalized" \in Names /\ "route" \in Names
    BY DEF Names, Shared
  <2>3. At(16, "normalized") = Of(w, U)
    BY <1>18
  <2>4. At(16, "normalized").tokens = U
    BY <2>3, OfIs
  <2>5. At(17, "route") = Of(w, U)
    BY <2>1, <2>2, <2>3, <2>4, WeightOnOne, OfIs
  <2>6. \A name \in Names \ {"route"} : At(17, name) = At(16, name)
    BY <2>1, <2>2, KernelFrame
  <2>. QED
    BY <1>18, <2>5, <2>6 DEF Names, Shared
<1>20. Hold(18, {"expert_activation", "hidden", "qkv_conv_history", "recurrence_state", "route"}, U)
  <2>1. /\ after[17] \in CellStates
        /\ after[18] = Dispatched(after[17], layer,
                                  W({"normalized", "route"}, "expert_activation"), w)
    BY <1>1, DecodeKernelsAre
  <2>2. "expert_activation" \in Names /\ "normalized" \in Names /\ "route" \in Names
    BY DEF Names, Shared
  <2>3. /\ At(17, "normalized") = Of(w, U)
        /\ At(17, "route") = Of(w, U)
    BY <1>19
  <2>4. At(17, "normalized").tokens \cup At(17, "route").tokens = U
    BY <2>3, OfIs
  <2>5. At(18, "expert_activation") = Of(w, U)
    BY <2>1, <2>2, <2>3, <2>4, WeightOnTwo, OfIs
  <2>6. \A name \in Names \ {"expert_activation"} : At(18, name) = At(17, name)
    BY <2>1, <2>2, KernelFrame
  <2>. QED
    BY <1>19, <2>5, <2>6 DEF Names, Shared
<1>21. Hold(19, {"hidden", "qkv_conv_history", "recurrence_state", "update"}, U)
  <2>1. /\ after[18] \in CellStates
        /\ after[19] = Dispatched(after[18], layer,
                                  W({"expert_activation", "route"}, "update"), w)
    BY <1>1, DecodeKernelsAre
  <2>2. "expert_activation" \in Names /\ "route" \in Names /\ "update" \in Names
    BY DEF Names, Shared
  <2>3. /\ At(18, "expert_activation") = Of(w, U)
        /\ At(18, "route") = Of(w, U)
    BY <1>20
  <2>4. At(18, "expert_activation").tokens \cup At(18, "route").tokens = U
    BY <2>3, OfIs
  <2>5. At(19, "update") = Of(w, U)
    BY <2>1, <2>2, <2>3, <2>4, WeightOnTwo, OfIs
  <2>6. \A name \in Names \ {"update"} : At(19, name) = At(18, name)
    BY <2>1, <2>2, KernelFrame
  <2>. QED
    BY <1>20, <2>5, <2>6 DEF Names, Shared
<1>22. Hold(20, {"hidden", "qkv_conv_history", "recurrence_state"}, U)
  <2>1. /\ after[19] \in CellStates
        /\ after[20] = Dispatched(after[19], layer, K({"hidden", "update"}, "hidden"), w)
    BY <1>1, DecodeKernelsAre
  <2>2. "hidden" \in Names /\ "update" \in Names
    BY DEF Names, Shared
  <2>3. /\ At(19, "hidden") = Of(w, U)
        /\ At(19, "update") = Of(w, U)
    BY <1>21
  <2>4. At(19, "hidden").tokens \cup At(19, "update").tokens = U
    BY <2>3, OfIs
  <2>5. At(20, "hidden") = Of(w, U)
    BY <2>1, <2>2, <2>3, <2>4, PlainOnTwo, OfIs
  <2>6. \A name \in Names \ {"hidden"} : At(20, name) = At(19, name)
    BY <2>1, <2>2, KernelFrame
  <2>. QED
    BY <1>21, <2>5, <2>6 DEF Names, Shared
<1>. QED
  BY <1>1, <1>22, DecodeKernelsAre DEF Memories

\* The layers follow each other.
LEMMA EachLayerIs ==
    ASSUME NEW c \in CellStates, NEW kernels \in Seq(Kernels), NEW r, NEW p, NEW seed,
           \A n \in 1..Layers : Weights(r, p, n, seed) \in Rows
    PROVE  \E after \in [0..Layers -> CellStates] :
             /\ after[0] = c
             /\ \A n \in 1..Layers :
                  after[n] = Encoded(after[n - 1], n, kernels, Weights(r, p, n, seed))
             /\ EachLayer(c, kernels, r, p, seed) = after[Layers]
<1> DEFINE g == [n \in 1..Layers |->
                   [d \in CellStates |-> Encoded(d, n, kernels, Weights(r, p, n, seed))]]
           Steps(h) == h = [n \in 0..Layers |-> IF n = 0 THEN c
                                 ELSE Encoded(h[n - 1], n, kernels, Weights(r, p, n, seed))]
           after == CHOOSE h : Steps(h)
           S == {n \in 0..Layers : after[n] \in CellStates}
<1>1. Layers \in Nat
  BY DecoderAssumption
<1>2. g \in [1..Layers -> [CellStates -> CellStates]]
  BY EncodedFrame
<1> HIDE DEF g
<1>3. PICK f : Iterates(f, Layers, CellStates, c, g)
  BY <1>1, <1>2, Iterated
<1>4. Steps(f)
  <2>1. f \in [0..Layers -> CellStates] /\ f[0] = c /\ \A n \in 1..Layers : f[n] = g[n][f[n - 1]]
    BY <1>3 DEF Iterates
  <2>2. ASSUME NEW n \in 1..Layers
        PROVE  f[n] = Encoded(f[n - 1], n, kernels, Weights(r, p, n, seed))
    <3>1. n - 1 \in 0..Layers
      BY <1>1
    <3>2. f[n - 1] \in CellStates
      BY <2>1, <3>1
    <3>. QED
      BY <2>1, <3>2 DEF g
  <2>3. \A n \in 0..Layers : n # 0 => n \in 1..Layers
    BY <1>1
  <2>. QED
    BY <2>1, <2>2, <2>3
<1> HIDE DEF Steps
<1>5. Steps(after)
  BY <1>4
<1> HIDE DEF after
<1>6. /\ DOMAIN after = 0..Layers /\ after[0] = c
      /\ \A n \in 1..Layers : after[n] = Encoded(after[n - 1], n, kernels, Weights(r, p, n, seed))
  <2>1. 0 \in 0..Layers /\ \A n \in 1..Layers : n \in 0..Layers /\ n # 0
    BY <1>1
  <2>. QED
    BY <1>5, <2>1 DEF Steps
<1>7. \A n \in 0..Layers : n \in S
  <2>1. 0 \in S
    BY <1>1, <1>6
  <2>2. ASSUME NEW n \in 0..(Layers - 1), n \in S PROVE n + 1 \in S
    <3>1. n + 1 \in 1..Layers /\ n + 1 \in 0..Layers /\ (n + 1) - 1 = n
      BY <1>1
    <3>2. after[n + 1] = Encoded(after[n], n + 1, kernels, Weights(r, p, n + 1, seed))
      BY <1>6, <3>1
    <3>. QED
      BY <2>2, <3>1, <3>2, EncodedFrame
  <2> HIDE DEF S
  <2>. QED
    BY <1>1, <2>1, <2>2, UpTo
<1>8. after \in [0..Layers -> CellStates]
  <2>1. Steps(after) => after = [n \in 0..Layers |-> after[n]]
    BY <1>6 DEF Steps
  <2>. QED
    BY <1>5, <1>7, <2>1
<1>9. EachLayer(c, kernels, r, p, seed) = after[Layers]
  BY Zenon DEF EachLayer, after, Steps
<1>. QED
  BY <1>6, <1>8, <1>9

LEMMA EachLayerFrame ==
    ASSUME NEW c \in CellStates, NEW kernels \in Seq(Kernels), NEW r, NEW p, NEW seed,
           \A n \in 1..Layers : Weights(r, p, n, seed) \in Rows
    PROVE  /\ EachLayer(c, kernels, r, p, seed) \in CellStates
           /\ \A x \in Cells :
                (\A layer \in 1..Layers, n \in 1..Len(kernels) :
                     x # Cell(layer, kernels[n].write)) =>
                    EachLayer(c, kernels, r, p, seed)[x] = c[x]
<1>1. PICK after \in [0..Layers -> CellStates] :
        /\ after[0] = c
        /\ \A n \in 1..Layers :
             after[n] = Encoded(after[n - 1], n, kernels, Weights(r, p, n, seed))
        /\ EachLayer(c, kernels, r, p, seed) = after[Layers]
  BY EachLayerIs
<1>2. Layers \in Nat /\ 0 \in 0..Layers /\ Layers \in 0..Layers
  BY DecoderAssumption
<1>3. ASSUME NEW x \in Cells,
             \A layer \in 1..Layers, n \in 1..Len(kernels) : x # Cell(layer, kernels[n].write)
      PROVE  after[Layers][x] = c[x]
  <2> DEFINE S == {n \in 0..Layers : after[n][x] = c[x]}
  <2>1. 0 \in S
    BY <1>1, <1>2
  <2>2. ASSUME NEW n \in 0..(Layers - 1), n \in S PROVE n + 1 \in S
    <3>1. n + 1 \in 1..Layers /\ n \in 0..Layers /\ (n + 1) - 1 = n /\ n + 1 \in 0..Layers
      BY <1>2
    <3>2. /\ after[n + 1] = Encoded(after[n], n + 1, kernels, Weights(r, p, n + 1, seed))
          /\ after[n] \in CellStates
      BY <1>1, <3>1
    <3>3. after[n + 1][x] = after[n][x]
      BY <1>3, <3>1, <3>2, EncodedFrame
    <3>. QED
      BY <2>2, <3>1, <3>3
  <2> HIDE DEF S
  <2>3. \A n \in 0..Layers : n \in S
    BY <1>2, <2>1, <2>2, UpTo
  <2>. QED
    BY <1>2, <2>3 DEF S
<1>4. after[Layers] \in CellStates
  BY <1>1, <1>2
<1>. QED
  BY <1>1, <1>3, <1>4

\* A vector comes from the weights alone.
LEMMA WeightOnNone ==
    ASSUME NEW c \in CellStates, NEW layer \in 1..Layers, NEW w \in Rows, NEW z \in Names
    PROVE  Dispatched(c, layer, W({}, z), w)[Cell(layer, z)] = Of(w, {})
<1>1. {} \in SUBSET Names
  OBVIOUS
<1>. QED
  BY <1>1, WeightKernel

LEMMA PrepareLayer ==
    ASSUME NEW c \in CellStates, NEW layer \in 1..Layers, NEW w \in Rows
    PROVE  \A name \in LayerVectors :
             Encoded(c, layer, PrepareKernels, w)[Cell(layer, name)] = Of(w, {})
<1>1. PICK after \in [0..Len(PrepareKernels) -> CellStates] :
        /\ after[0] = c
        /\ \A n \in 1..Len(PrepareKernels) :
             after[n] = Dispatched(after[n - 1], layer, PrepareKernels[n], w)
        /\ Encoded(c, layer, PrepareKernels, w) = after[Len(PrepareKernels)]
  <2>1. PrepareKernels \in Seq(Kernels)
    BY KernelLists
  <2>. QED
    BY <2>1, EncodedIs
<1>2. {} \in SUBSET Names /\ LayerVectors \subseteq Names
  BY DEF Names, LayerVectors
<1> DEFINE Step(k, z) ==
             /\ after[k][Cell(layer, z)] = Of(w, {})
             /\ \A name \in LayerVectors \ {z} :
                  after[k][Cell(layer, name)] = after[k - 1][Cell(layer, name)]
<1>3. ASSUME NEW k \in 1..5, NEW z \in LayerVectors, PrepareKernels[k] = W({}, z)
      PROVE  Step(k, z)
  <2>1. /\ after[k - 1] \in CellStates
        /\ after[k] = Dispatched(after[k - 1], layer, W({}, z), w)
    BY <1>1, <1>3, PrepareKernelsAre
  <2>2. z \in Names
    BY <1>2
  <2>3. after[k][Cell(layer, z)] = Of(w, {})
    BY <2>1, <2>2, WeightOnNone
  <2>4. \A name \in Names \ {z} : after[k][Cell(layer, name)] = after[k - 1][Cell(layer, name)]
    BY <1>2, <2>1, <2>2, KernelFrame
  <2>. QED
    BY <1>2, <2>3, <2>4
<1>4. /\ Step(1, "attention_norm") /\ Step(2, "moe_norm") /\ Step(3, "decay")
      /\ Step(4, "time_bias") /\ Step(5, "output_norm")
  <2> HIDE DEF Step
  <2>. QED
    BY <1>3, PrepareKernelsAre DEF LayerVectors
<1>5. \A name \in LayerVectors : after[5][Cell(layer, name)] = Of(w, {})
  BY <1>4 DEF LayerVectors
<1>. QED
  BY <1>1, <1>5, PrepareKernelsAre

LEMMA PrepareWrites ==
    \A n \in 1..Len(PrepareKernels) : PrepareKernels[n].write \in LayerVectors
<1>1. \A z : W({}, z).write = z
  BY DEF W
<1>2. \A n \in 1..5 : n = 1 \/ n = 2 \/ n = 3 \/ n = 4 \/ n = 5
  OBVIOUS
<1>. QED
  BY <1>1, <1>2, PrepareKernelsAre DEF LayerVectors

LEMMA LayerVectorsOwn ==
    ASSUME NEW layer \in 1..Layers, NEW other \in 1..Layers, NEW a \in LayerVectors,
           NEW b \in Names, Cell(layer, a) = Cell(other, b)
    PROVE  a = b /\ layer = other
<1>1. a \in Names /\ a \notin Shared
  BY DEF LayerVectors, Names, Shared
<1>. QED
  BY <1>1, CellsOfLayers

LEMMA PrepareSeq == PrepareKernels \in Seq(Kernels) /\ Len(PrepareKernels) = 5
  BY KernelLists, PrepareKernelsAre

LEMMA NormSeq == /\ NormKernels \in Seq(Kernels) /\ Len(NormKernels) = 1
                 /\ NormKernels[1] = W({}, "final_norm")
                 /\ NormKernels[1].write = "final_norm"
<1>1. NormKernels \in Seq(Kernels)
  BY KernelLists
<1>. QED
  BY <1>1 DEF NormKernels, W

LEMMA LayersPrepared ==
    ASSUME NEW c \in CellStates, NEW r, NEW p, NEW seed, NEW w \in Rows,
           \A n \in 1..Layers : Weights(r, p, n, seed) = w
    PROVE  \A layer \in 1..Layers, name \in LayerVectors :
             EachLayer(c, PrepareKernels, r, p, seed)[Cell(layer, name)] = Of(w, {})
<1>1. PICK after \in [0..Layers -> CellStates] :
        /\ after[0] = c
        /\ \A n \in 1..Layers :
             after[n] = Encoded(after[n - 1], n, PrepareKernels, Weights(r, p, n, seed))
        /\ EachLayer(c, PrepareKernels, r, p, seed) = after[Layers]
  <2>1. \A n \in 1..Layers : Weights(r, p, n, seed) \in Rows
    OBVIOUS
  <2>. QED
    BY <2>1, PrepareSeq, EachLayerIs
<1>2. Layers \in Nat /\ Layers \in 0..Layers
  BY DecoderAssumption
<1> DEFINE S == {n \in 0..Layers : \A layer \in 1..n, name \in LayerVectors :
                                      after[n][Cell(layer, name)] = Of(w, {})}
<1>3. 0 \in S
  BY <1>2
<1>4. ASSUME NEW n \in 0..(Layers - 1), n \in S PROVE n + 1 \in S
  <2>1. n + 1 \in 1..Layers /\ n \in 0..Layers /\ (n + 1) - 1 = n /\ n + 1 \in 0..Layers
    BY <1>2
  <2>2. after[n + 1] = Encoded(after[n], n + 1, PrepareKernels, w) /\ after[n] \in CellStates
    BY <1>1, <2>1
  <2>3. ASSUME NEW layer \in 1..(n + 1), NEW name \in LayerVectors
        PROVE  after[n + 1][Cell(layer, name)] = Of(w, {})
    <3>1. CASE layer = n + 1
      BY <2>1, <2>2, <3>1, PrepareLayer
    <3>2. CASE layer # n + 1
      <4>1. layer \in 1..n /\ layer \in 1..Layers
        <5>1. layer \in Int /\ n \in Int /\ 1 <= layer /\ layer <= n + 1
          BY <1>2
        <5>. QED
          BY <1>2, <2>1, <3>2, <5>1
      <4>2. after[n][Cell(layer, name)] = Of(w, {})
        BY <1>4, <4>1
      <4>3. Cell(layer, name) \in Cells
        BY <4>1, CellsOfLayers DEF LayerVectors, Names
      <4>4. \A k \in 1..Len(PrepareKernels) :
              Cell(layer, name) # Cell(n + 1, PrepareKernels[k].write)
        <5>1. LayerVectors \subseteq Names
          BY DEF LayerVectors, Names
        <5>. QED
          BY <2>1, <3>2, <4>1, <5>1, PrepareWrites, LayerVectorsOwn
      <4>5. after[n + 1][Cell(layer, name)] = after[n][Cell(layer, name)]
        BY <2>1, <2>2, <4>3, <4>4, EncodedFrame, PrepareSeq
      <4>. QED
        BY <4>2, <4>5
    <3>. QED
      BY <3>1, <3>2
  <2>. QED
    BY <2>1, <2>3
<1> HIDE DEF S
<1>5. Layers \in S
  BY <1>2, <1>3, <1>4, UpTo
<1>. QED
  BY <1>1, <1>5 DEF S

Vectors == LayerVectors \cup {"final_norm"}

\* prepare_candidate leaves what is no vector.
LEMMA PreparedFrame ==
    ASSUME NEW c \in CellStates, NEW r, NEW p, NEW seed,
           \A n \in 1..Layers : Weights(r, p, n, seed) \in Rows
    PROVE  /\ Prepared(c, r, p, seed) \in CellStates
           /\ \A layer \in 1..Layers, name \in Names \ Vectors :
                Prepared(c, r, p, seed)[Cell(layer, name)] = c[Cell(layer, name)]
<1> DEFINE d == EachLayer(c, PrepareKernels, r, p, seed)
<1>1. 1 \in 1..Layers
  BY DecoderAssumption
<1>2. d \in CellStates
  BY EachLayerFrame, PrepareSeq
<1>3. Prepared(c, r, p, seed) = Encoded(d, 1, NormKernels, Weights(r, p, 1, seed))
  BY DEF Prepared
<1>4. Len(NormKernels) = 1 /\ NormKernels[1].write = "final_norm"
  BY NormSeq
<1> HIDE DEF d
<1>5. ASSUME NEW layer \in 1..Layers, NEW name \in Names \ Vectors
      PROVE  Prepared(c, r, p, seed)[Cell(layer, name)] = c[Cell(layer, name)]
  <2>1. Cell(layer, name) \in Cells /\ LayerVectors \subseteq Names /\ "final_norm" \in Names
    BY CellsOfLayers DEF LayerVectors, Names, Shared
  <2>2. \A other \in 1..Layers, k \in 1..Len(PrepareKernels) :
          Cell(layer, name) # Cell(other, PrepareKernels[k].write)
    BY <2>1, PrepareWrites, CellsOfLayers DEF Vectors
  <2>3. d[Cell(layer, name)] = c[Cell(layer, name)]
    BY <2>1, <2>2, EachLayerFrame, PrepareSeq DEF d
  <2>4. \A k \in 1..Len(NormKernels) : Cell(layer, name) # Cell(1, NormKernels[k].write)
    BY <1>1, <1>4, <2>1, CellsOfLayers DEF Vectors
  <2>. QED
    BY <1>1, <1>2, <1>3, <2>1, <2>3, <2>4, EncodedFrame, NormSeq
<1>. QED
  BY <1>1, <1>2, <1>3, <1>5, EncodedFrame, NormSeq

\* It makes the vectors from the one row that all layers read.
LEMMA PreparedOf ==
    ASSUME NEW c \in CellStates, NEW r, NEW p, NEW seed, NEW w \in Rows,
           \A n \in 1..Layers : Weights(r, p, n, seed) = w
    PROVE  \A layer \in 1..Layers, name \in Vectors :
             Prepared(c, r, p, seed)[Cell(layer, name)] = Of(w, {})
<1> DEFINE d == EachLayer(c, PrepareKernels, r, p, seed)
<1>1. 1 \in 1..Layers
  BY DecoderAssumption
<1>0. \A n \in 1..Layers : Weights(r, p, n, seed) \in Rows
  OBVIOUS
<1>2. d \in CellStates
  BY <1>0, EachLayerFrame, PrepareSeq
<1>3. Prepared(c, r, p, seed) = Encoded(d, 1, NormKernels, w)
  BY <1>1 DEF Prepared
<1>4. /\ Len(NormKernels) = 1 /\ NormKernels[1] = W({}, "final_norm")
      /\ NormKernels[1].write = "final_norm"
  BY NormSeq
<1>5. \A layer \in 1..Layers, name \in LayerVectors : d[Cell(layer, name)] = Of(w, {})
  BY LayersPrepared
<1> HIDE DEF d
<1>6. ASSUME NEW layer \in 1..Layers, NEW name \in LayerVectors
      PROVE  Prepared(c, r, p, seed)[Cell(layer, name)] = Of(w, {})
  <2>1. Cell(layer, name) \in Cells /\ "final_norm" \in Names /\ name # "final_norm"
    BY CellsOfLayers DEF LayerVectors, Names, Shared
  <2>2. \A k \in 1..Len(NormKernels) : Cell(layer, name) # Cell(1, NormKernels[k].write)
    BY <1>1, <1>4, <2>1, LayerVectorsOwn
  <2>. QED
    BY <1>1, <1>2, <1>3, <1>5, <2>1, <2>2, EncodedFrame, NormSeq
<1>7. ASSUME NEW layer \in 1..Layers
      PROVE  Prepared(c, r, p, seed)[Cell(layer, "final_norm")] = Of(w, {})
  <2>1. PICK after \in [0..Len(NormKernels) -> CellStates] :
          /\ after[0] = d
          /\ \A n \in 1..Len(NormKernels) :
               after[n] = Dispatched(after[n - 1], 1, NormKernels[n], w)
          /\ Encoded(d, 1, NormKernels, w) = after[Len(NormKernels)]
    <3>1. NormKernels \in Seq(Kernels)
      BY NormSeq
    <3>. QED
      BY <1>1, <1>2, <3>1, EncodedIs
  <2>2. after[1] = Dispatched(d, 1, W({}, "final_norm"), w)
    BY <1>4, <2>1
  <2>3. "final_norm" \in Names /\ "final_norm" \in Shared
    BY DEF Names, Shared
  <2>4. after[1][Cell(1, "final_norm")] = Of(w, {})
    BY <1>1, <1>2, <2>2, <2>3, WeightOnNone
  <2>5. Cell(layer, "final_norm") = Cell(1, "final_norm")
    BY <1>1, <2>3, CellsOfLayers
  <2>. QED
    BY <1>3, <1>4, <2>1, <2>4, <2>5
<1>. QED
  BY <1>6, <1>7 DEF Vectors

\* The dispatches of a token write no vector.
LEMMA DecodeWrites ==
    /\ \A n \in 1..Len(DecodeKernels) : DecodeKernels[n].write \in Names \ Vectors
    /\ DecodeKernels \in Seq(Kernels)
<1>1. \A reads, z : K(reads, z).write = z /\ W(reads, z).write = z
  BY DEF K, W
<1> DEFINE N == {"normalized", "qkv", "qkv_conv_history", "query", "control", "control_parts",
                 "raw_gate", "output_gate", "gate", "recurrence_state", "post_kda", "kda_gated",
                 "update", "hidden", "route", "expert_activation"}
<1>2. /\ \A n \in 1..10 : DecodeKernels[n].write \in N
      /\ \A n \in 11..20 : DecodeKernels[n].write \in N
  <2>1. \A n \in 1..10 : \/ n = 1 \/ n = 2 \/ n = 3 \/ n = 4 \/ n = 5
                         \/ n = 6 \/ n = 7 \/ n = 8 \/ n = 9 \/ n = 10
    OBVIOUS
  <2>2. \A n \in 11..20 : \/ n = 11 \/ n = 12 \/ n = 13 \/ n = 14 \/ n = 15
                          \/ n = 16 \/ n = 17 \/ n = 18 \/ n = 19 \/ n = 20
    OBVIOUS
  <2>3. \A n \in 1..10 : DecodeKernels[n].write \in N
    BY <1>1, <2>1, DecodeKernelsAre
  <2>4. \A n \in 11..20 : DecodeKernels[n].write \in N
    BY <1>1, <2>2, DecodeKernelsAre
  <2>. QED
    BY <2>3, <2>4
<1>3. N \subseteq Names \ Vectors
  BY DEF Names, Vectors, LayerVectors, Shared
<1>4. \A n \in 1..20 : n \in 1..10 \/ n \in 11..20
  OBVIOUS
<1> HIDE DEF N
<1>5. DecodeKernels \in Seq(Kernels)
  BY KernelLists
<1>. QED
  BY <1>2, <1>3, <1>4, <1>5, DecodeKernelsAre

LEMMA EmbedSeq == /\ EmbedKernels \in Seq(Kernels) /\ Len(EmbedKernels) = 1
                  /\ EmbedKernels[1] = W({"token"}, "hidden")
                  /\ EmbedKernels[1].write = "hidden"
<1>1. EmbedKernels \in Seq(Kernels)
  BY KernelLists
<1>. QED
  BY <1>1 DEF EmbedKernels, W

LEMMA HeadSeq ==
    /\ HeadKernels \in Seq(Kernels) /\ Len(HeadKernels) = 3
    /\ \A n \in 1..3 : HeadKernels[n].write \in {"normalized", "logits", "next_token"}
<1>1. HeadKernels \in Seq(Kernels)
  BY KernelLists
<1>2. \A reads, z : K(reads, z).write = z /\ W(reads, z).write = z
  BY DEF K, W
<1>3. \A n \in 1..3 : n = 1 \/ n = 2 \/ n = 3
  OBVIOUS
<1>. QED
  BY <1>1, <1>2, <1>3, HeadKernelsAre

\* The vectors of the layers come from w.
HasVectors(c, w) ==
    \A layer \in 1..Layers, name \in LayerVectors : c[Cell(layer, name)] = Of(w, {})

\* The memories come from the tokens S and, but before the first, from w.
Remembers(c, w, S) ==
    \A layer \in 1..Layers, name \in Memories :
        c[Cell(layer, name)].rows \subseteq {w} /\ c[Cell(layer, name)].tokens = S

\* A token through all layers: every layer leaves the stream in its memories
\* and in the hidden state, which is all the next one reads of it.
LEMMA LayersDecoded ==
    ASSUME NEW c \in CellStates, NEW r, NEW p, NEW seed, NEW w \in Rows,
           NEW S \in SUBSET Nat, NEW T \in SUBSET Nat,
           \A n \in 1..Layers : Weights(r, p, n, seed) = w,
           c[Cell(1, "hidden")] = Of(w, T),
           HasVectors(c, w), Remembers(c, w, S)
    PROVE  /\ EachLayer(c, DecodeKernels, r, p, seed)[Cell(1, "hidden")] = Of(w, S \cup T)
           /\ \A layer \in 1..Layers, name \in Memories :
                EachLayer(c, DecodeKernels, r, p, seed)[Cell(layer, name)] = Of(w, S \cup T)
<1>1. PICK after \in [0..Layers -> CellStates] :
        /\ after[0] = c
        /\ \A n \in 1..Layers :
             after[n] = Encoded(after[n - 1], n, DecodeKernels, Weights(r, p, n, seed))
        /\ EachLayer(c, DecodeKernels, r, p, seed) = after[Layers]
  <2>1. \A n \in 1..Layers : Weights(r, p, n, seed) \in Rows
    OBVIOUS
  <2>2. DecodeKernels \in Seq(Kernels)
    BY DecodeWrites
  <2>. QED
    BY <2>1, <2>2, EachLayerIs
<1>2. Layers \in Nat /\ Layers \in 0..Layers /\ Layers # 0 /\ 1 \in 1..Layers
  BY DecoderAssumption
<1>3. /\ LayerVectors \subseteq Names /\ Memories \subseteq Names
      /\ \A name \in Memories : name \notin Shared /\ name \notin LayerVectors
      /\ \A name \in LayerVectors : name \in Vectors /\ name \notin Shared
      /\ "hidden" \in Names /\ "hidden" \in Shared
  BY DEF Names, Shared, LayerVectors, Memories, Vectors
<1> DEFINE U == S \cup T
           Hidden(n) == after[n][Cell(1, "hidden")] = Of(w, IF n = 0 THEN T ELSE U)
           Ready(n) == HasVectors(after[n], w)
           Done(n) == \A layer \in 1..n, name \in Memories :
                        after[n][Cell(layer, name)] = Of(w, U)
           ToDo(n) == \A layer \in (n + 1)..Layers, name \in Memories :
                        /\ after[n][Cell(layer, name)].rows \subseteq {w}
                        /\ after[n][Cell(layer, name)].tokens = S
           Q == {n \in 0..Layers : Hidden(n) /\ Ready(n) /\ Done(n) /\ ToDo(n)}
<1>4. 0 \in Q
  <2>1. \A layer \in (0 + 1)..Layers : layer \in 1..Layers
    OBVIOUS
  <2>2. \A layer \in 1..0 : FALSE
    OBVIOUS
  <2>. QED
    BY <1>1, <1>2, <2>1, <2>2 DEF HasVectors, Remembers
<1>5. ASSUME NEW n \in 0..(Layers - 1), n \in Q PROVE n + 1 \in Q
  <2>1. /\ n + 1 \in 1..Layers /\ n \in 0..Layers /\ (n + 1) - 1 = n /\ n + 1 \in 0..Layers
        /\ n + 1 # 0 /\ n \in Nat
    BY <1>2
  <2>2. /\ after[n + 1] = Encoded(after[n], n + 1, DecodeKernels, w)
        /\ after[n] \in CellStates
    BY <1>1, <2>1
  <2> DEFINE X == IF n = 0 THEN T ELSE U
  <2>3. X \in SUBSET Nat /\ S \cup X = U
    OBVIOUS
  <2>4. after[n][Cell(n + 1, "hidden")] = Of(w, X)
    <3>1. Cell(n + 1, "hidden") = Cell(1, "hidden")
      BY <1>3 DEF Cell
    <3>. QED
      BY <1>5, <3>1
  <2>5. \A name \in LayerVectors : after[n][Cell(n + 1, name)] = Of(w, {})
    BY <1>5, <2>1 DEF HasVectors
  <2>6. \A name \in Memories : /\ after[n][Cell(n + 1, name)].rows \subseteq {w}
                               /\ after[n][Cell(n + 1, name)].tokens = S
    <3>1. n + 1 \in (n + 1)..Layers
      BY <2>1
    <3>. QED
      BY <1>5, <3>1
  <2> HIDE DEF X
  <2>7. \A name \in {"hidden"} \cup Memories : after[n + 1][Cell(n + 1, name)] = Of(w, U)
    <3>1. \A name \in {"hidden"} \cup Memories :
            Encoded(after[n], n + 1, DecodeKernels, w)[Cell(n + 1, name)] = Of(w, S \cup X)
      <4> DEFINE d == after[n]
                 m == n + 1
      <4>1. d \in CellStates /\ m \in 1..Layers /\ LayerReads(d, m, w, S, X)
        BY <2>1, <2>2, <2>4, <2>5, <2>6 DEF LayerReads
      <4> HIDE DEF d, m
      <4>2. \A name \in {"hidden"} \cup Memories :
              Encoded(d, m, DecodeKernels, w)[Cell(m, name)] = Of(w, S \cup X)
        BY <2>3, <4>1, DecodeLayer
      <4>. QED
        BY <4>2 DEF d, m
    <3>. QED
      BY <2>2, <2>3, <3>1
  <2>8. ASSUME NEW layer \in 1..Layers, NEW name \in Names,
               name \in LayerVectors \/ (name \in Memories /\ layer # n + 1)
        PROVE  after[n + 1][Cell(layer, name)] = after[n][Cell(layer, name)]
    <3>1. Cell(layer, name) \in Cells /\ name \notin Shared
      BY <1>3, <2>8, CellsOfLayers
    <3>2. ASSUME NEW k \in 1..Len(DecodeKernels)
          PROVE  Cell(layer, name) # Cell(n + 1, DecodeKernels[k].write)
      <4>1. DecodeKernels[k].write \in Names /\ DecodeKernels[k].write \notin Vectors
        BY DecodeWrites
      <4>. QED
        BY <1>3, <2>1, <2>8, <3>1, <4>1, CellsOfLayers
    <3>. QED
      BY <2>1, <2>2, <3>1, <3>2, EncodedFrame, DecodeWrites
  <2>9. Hidden(n + 1)
    <3>1. Cell(n + 1, "hidden") = Cell(1, "hidden")
      BY <1>3 DEF Cell
    <3>. QED
      BY <2>1, <2>7, <3>1
  <2>10. Ready(n + 1)
    <3> SUFFICES ASSUME NEW layer \in 1..Layers, NEW name \in LayerVectors
                 PROVE  after[n + 1][Cell(layer, name)] = Of(w, {})
      BY DEF HasVectors
    <3>1. name \in Names /\ layer \in 1..Layers /\ name \in LayerVectors
      BY <1>3
    <3>2. after[n + 1][Cell(layer, name)] = after[n][Cell(layer, name)]
      BY <2>8, <3>1
    <3>. QED
      BY <1>5, <3>2 DEF HasVectors
  <2>11. Done(n + 1)
    <3> SUFFICES ASSUME NEW layer \in 1..(n + 1), NEW name \in Memories
                 PROVE  after[n + 1][Cell(layer, name)] = Of(w, U)
      OBVIOUS
    <3>1. CASE layer = n + 1
      BY <2>7, <3>1
    <3>2. CASE layer # n + 1
      <4>1. layer \in 1..n /\ layer \in 1..Layers
        <5>1. layer \in Int /\ 1 <= layer /\ layer <= n + 1
          BY <2>1
        <5>. QED
          BY <1>2, <2>1, <3>2, <5>1
      <4>2. after[n][Cell(layer, name)] = Of(w, U)
        BY <1>5, <4>1
      <4>. QED
        BY <1>3, <2>8, <3>2, <4>1, <4>2
    <3>. QED
      BY <3>1, <3>2
  <2>12. ToDo(n + 1)
    <3> SUFFICES ASSUME NEW layer \in ((n + 1) + 1)..Layers, NEW name \in Memories
                 PROVE  /\ after[n + 1][Cell(layer, name)].rows \subseteq {w}
                        /\ after[n + 1][Cell(layer, name)].tokens = S
      OBVIOUS
    <3>1. layer \in (n + 1)..Layers /\ layer \in 1..Layers /\ layer # n + 1
      BY <1>2, <2>1
    <3>2. after[n + 1][Cell(layer, name)] = after[n][Cell(layer, name)]
      BY <1>3, <2>8, <3>1
    <3>. QED
      BY <1>5, <3>1, <3>2
  <2>. QED
    BY <2>1, <2>9, <2>10, <2>11, <2>12
<1> HIDE DEF Q
<1>6. Layers \in Q
  BY <1>2, <1>4, <1>5, UpTo
<1>. QED
  BY <1>1, <1>2, <1>6 DEF Q

\* What the kernels of the embedding and of the head do not write.
LEMMA EmbedFrame ==
    ASSUME NEW c \in CellStates, NEW w \in Rows
    PROVE  /\ Encoded(c, 1, EmbedKernels, w) \in CellStates
           /\ \A layer \in 1..Layers, name \in Names \ {"hidden"} :
                Encoded(c, 1, EmbedKernels, w)[Cell(layer, name)] = c[Cell(layer, name)]
<1>1. 1 \in 1..Layers
  BY DecoderAssumption
<1>2. EmbedKernels \in Seq(Kernels) /\ "hidden" \in Names
  BY EmbedSeq DEF Names, Shared
<1>3. ASSUME NEW layer \in 1..Layers, NEW name \in Names \ {"hidden"}
      PROVE  Encoded(c, 1, EmbedKernels, w)[Cell(layer, name)] = c[Cell(layer, name)]
  <2>1. Cell(layer, name) \in Cells
    BY CellsOfLayers
  <2>2. Cell(layer, name) # Cell(1, "hidden")
    BY <1>1, <1>2, CellsOfLayers
  <2>3. \A n \in 1..Len(EmbedKernels) : Cell(layer, name) # Cell(1, EmbedKernels[n].write)
    BY <2>2, EmbedSeq
  <2>. QED
    BY <1>1, <1>2, <2>1, <2>3, EncodedFrame
<1>. QED
  BY <1>1, <1>2, <1>3, EncodedFrame

LEMMA HeadFrame ==
    ASSUME NEW c \in CellStates, NEW w \in Rows
    PROVE  /\ Encoded(c, 1, HeadKernels, w) \in CellStates
           /\ \A layer \in 1..Layers, name \in Names \ {"normalized", "logits", "next_token"} :
                Encoded(c, 1, HeadKernels, w)[Cell(layer, name)] = c[Cell(layer, name)]
<1>1. 1 \in 1..Layers
  BY DecoderAssumption
<1>2. /\ HeadKernels \in Seq(Kernels)
      /\ {"normalized", "logits", "next_token"} \subseteq Names
  BY HeadSeq DEF Names, Shared
<1>3. ASSUME NEW layer \in 1..Layers,
             NEW name \in Names \ {"normalized", "logits", "next_token"}
      PROVE  Encoded(c, 1, HeadKernels, w)[Cell(layer, name)] = c[Cell(layer, name)]
  <2>1. Cell(layer, name) \in Cells
    BY CellsOfLayers
  <2>2. \A other \in {"normalized", "logits", "next_token"} : Cell(layer, name) # Cell(1, other)
    BY <1>1, <1>2, CellsOfLayers
  <2>3. \A n \in 1..Len(HeadKernels) : Cell(layer, name) # Cell(1, HeadKernels[n].write)
    BY <2>2, HeadSeq
  <2>. QED
    BY <1>1, <1>2, <2>1, <2>3, EncodedFrame
<1>. QED
  BY <1>1, <1>2, <1>3, EncodedFrame

\* The embedding and the head of a model with the weights w.
LEMMA EmbedOf ==
    ASSUME NEW c \in CellStates, NEW w \in Rows, c[Cell(1, "token")].rows \subseteq {w}
    PROVE  Encoded(c, 1, EmbedKernels, w)[Cell(1, "hidden")] = Of(w, c[Cell(1, "token")].tokens)
<1>1. 1 \in 1..Layers /\ EmbedKernels \in Seq(Kernels) /\ "token" \in Names /\ "hidden" \in Names
  BY DecoderAssumption, EmbedSeq DEF Names, Shared
<1>2. PICK after \in [0..Len(EmbedKernels) -> CellStates] :
        /\ after[0] = c
        /\ \A n \in 1..Len(EmbedKernels) :
             after[n] = Dispatched(after[n - 1], 1, EmbedKernels[n], w)
        /\ Encoded(c, 1, EmbedKernels, w) = after[Len(EmbedKernels)]
  BY <1>1, EncodedIs
<1>3. Encoded(c, 1, EmbedKernels, w) = Dispatched(c, 1, W({"token"}, "hidden"), w)
  BY <1>2, EmbedSeq
<1>. QED
  BY <1>1, <1>3, WeightOnOne

LEMMA HeadOf ==
    ASSUME NEW c \in CellStates, NEW w \in Rows, NEW T \in SUBSET Nat,
           c[Cell(1, "hidden")] = Of(w, T), c[Cell(1, "final_norm")] = Of(w, {})
    PROVE  Encoded(c, 1, HeadKernels, w)[Cell(1, "next_token")] = Of(w, T)
<1>1. 1 \in 1..Layers /\ HeadKernels \in Seq(Kernels)
  BY DecoderAssumption, HeadSeq
<1>2. /\ "hidden" \in Names /\ "final_norm" \in Names /\ "normalized" \in Names
      /\ "logits" \in Names /\ "next_token" \in Names
  BY DEF Names, Shared
<1>3. PICK after \in [0..Len(HeadKernels) -> CellStates] :
        /\ after[0] = c
        /\ \A n \in 1..Len(HeadKernels) :
             after[n] = Dispatched(after[n - 1], 1, HeadKernels[n], w)
        /\ Encoded(c, 1, HeadKernels, w) = after[Len(HeadKernels)]
  BY <1>1, EncodedIs
<1>4. /\ after[1] = Dispatched(c, 1, K({"hidden", "final_norm"}, "normalized"), w)
      /\ after[2] = Dispatched(after[1], 1, W({"normalized"}, "logits"), w)
      /\ after[3] = Dispatched(after[2], 1, K({"logits"}, "next_token"), w)
      /\ after[1] \in CellStates /\ after[2] \in CellStates
  BY <1>3, HeadKernelsAre
<1>5. after[1][Cell(1, "normalized")] = Of(w, T)
  <2>1. c[Cell(1, "hidden")].tokens \cup c[Cell(1, "final_norm")].tokens = T
    BY OfIs
  <2>. QED
    BY <1>1, <1>2, <1>4, <2>1, PlainOnTwo, OfIs
<1>6. after[2][Cell(1, "logits")] = Of(w, T)
  BY <1>1, <1>2, <1>4, <1>5, WeightOnOne, OfIs
<1>7. after[3][Cell(1, "next_token")] = Of(w, T)
  BY <1>1, <1>2, <1>4, <1>6, PlainOnOne, OfIs
<1>. QED
  BY <1>3, <1>7, HeadKernelsAre

\* The layers leave the vectors, and the buffers of the head.
LEMMA LayersFrame ==
    ASSUME NEW c \in CellStates, NEW r, NEW p, NEW seed,
           \A n \in 1..Layers : Weights(r, p, n, seed) \in Rows
    PROVE  /\ EachLayer(c, DecodeKernels, r, p, seed) \in CellStates
           /\ \A layer \in 1..Layers, name \in Vectors :
                EachLayer(c, DecodeKernels, r, p, seed)[Cell(layer, name)] = c[Cell(layer, name)]
<1>1. DecodeKernels \in Seq(Kernels) /\ Vectors \subseteq Names
  BY DecodeWrites DEF Vectors, LayerVectors, Names, Shared
<1>2. ASSUME NEW layer \in 1..Layers, NEW name \in Vectors
      PROVE  EachLayer(c, DecodeKernels, r, p, seed)[Cell(layer, name)] = c[Cell(layer, name)]
  <2>1. Cell(layer, name) \in Cells
    BY <1>1, CellsOfLayers
  <2>2. ASSUME NEW other \in 1..Layers, NEW n \in 1..Len(DecodeKernels)
        PROVE  Cell(layer, name) # Cell(other, DecodeKernels[n].write)
    <3>1. DecodeKernels[n].write \in Names /\ DecodeKernels[n].write \notin Vectors
      BY DecodeWrites
    <3>. QED
      BY <1>1, <3>1, CellsOfLayers
  <2>. QED
    BY <1>1, <2>1, <2>2, EachLayerFrame
<1>. QED
  BY <1>1, <1>2, EachLayerFrame

\* decode_token leaves the vectors.
LEMMA DecodedFrame ==
    ASSUME NEW c \in CellStates, NEW seed,
           \A n \in 1..Layers : Weights(rows, packed, n, seed) \in Rows
    PROVE  /\ Decoded(c, seed) \in CellStates
           /\ \A layer \in 1..Layers, name \in Vectors :
                Decoded(c, seed)[Cell(layer, name)] = c[Cell(layer, name)]
<1> DEFINE w == Weights(rows, packed, 1, seed)
           d == Encoded(c, 1, EmbedKernels, w)
           e == EachLayer(d, DecodeKernels, rows, packed, seed)
<1>1. w \in Rows
  BY DecoderAssumption
<1>2. Decoded(c, seed) = Encoded(e, 1, HeadKernels, w)
  BY DEF Decoded
<1>3. \A name \in Vectors : /\ name \in Names \ {"hidden"}
                            /\ name \in Names \ {"normalized", "logits", "next_token"}
  BY DEF Vectors, LayerVectors, Names, Shared
<1> HIDE DEF w
<1>4. /\ d \in CellStates
      /\ \A layer \in 1..Layers, name \in Vectors : d[Cell(layer, name)] = c[Cell(layer, name)]
  BY <1>1, <1>3, EmbedFrame
<1> HIDE DEF d
<1>5. /\ e \in CellStates
      /\ \A layer \in 1..Layers, name \in Vectors : e[Cell(layer, name)] = d[Cell(layer, name)]
  BY <1>4, LayersFrame
<1> HIDE DEF e
<1>6. /\ Encoded(e, 1, HeadKernels, w) \in CellStates
      /\ \A layer \in 1..Layers, name \in Vectors :
           Encoded(e, 1, HeadKernels, w)[Cell(layer, name)] = e[Cell(layer, name)]
  BY <1>1, <1>3, <1>5, HeadFrame
<1>. QED
  BY <1>2, <1>4, <1>5, <1>6

\* decode_token of a model that is prepared and reads one row w: the memories
\* and the answer come from w, the tokens before and this one.
LEMMA DecodedOf ==
    ASSUME NEW c \in CellStates, NEW seed, NEW w \in Rows,
           NEW S \in SUBSET Nat, NEW T \in SUBSET Nat,
           \A n \in 1..Layers : Weights(rows, packed, n, seed) = w,
           c[Cell(1, "token")] = [rows |-> {}, tokens |-> T],
           HasVectors(c, w), c[Cell(1, "final_norm")] = Of(w, {}), Remembers(c, w, S)
    PROVE  /\ Decoded(c, seed)[Cell(1, "next_token")] = Of(w, S \cup T)
           /\ \A layer \in 1..Layers, name \in Memories :
                Decoded(c, seed)[Cell(layer, name)] = Of(w, S \cup T)
<1> DEFINE d == Encoded(c, 1, EmbedKernels, w)
           e == EachLayer(d, DecodeKernels, rows, packed, seed)
<1>1. 1 \in 1..Layers /\ \A n \in 1..Layers : Weights(rows, packed, n, seed) \in Rows
  BY DecoderAssumption
<1>2. Decoded(c, seed) = Encoded(e, 1, HeadKernels, w)
  BY <1>1 DEF Decoded
<1>3. /\ LayerVectors \cup Memories \cup {"final_norm"} \subseteq Names \ {"hidden"}
      /\ Memories \subseteq Names \ {"normalized", "logits", "next_token"}
      /\ LayerVectors \cup {"final_norm"} = Vectors
  BY DEF Vectors, LayerVectors, Memories, Names, Shared
<1>4. /\ d \in CellStates
      /\ \A layer \in 1..Layers, name \in Names \ {"hidden"} :
           d[Cell(layer, name)] = c[Cell(layer, name)]
  BY EmbedFrame
<1>5. d[Cell(1, "hidden")] = Of(w, T)
  BY EmbedOf
<1> HIDE DEF d
<1>6. HasVectors(d, w) /\ Remembers(d, w, S) /\ d[Cell(1, "final_norm")] = Of(w, {})
  BY <1>1, <1>3, <1>4 DEF HasVectors, Remembers
<1>7. /\ e[Cell(1, "hidden")] = Of(w, S \cup T)
      /\ \A layer \in 1..Layers, name \in Memories : e[Cell(layer, name)] = Of(w, S \cup T)
  BY <1>4, <1>5, <1>6, LayersDecoded
<1>8. e \in CellStates /\ e[Cell(1, "final_norm")] = d[Cell(1, "final_norm")]
  BY <1>1, <1>3, <1>4, LayersFrame
<1> HIDE DEF e
<1>9. S \cup T \in SUBSET Nat
  OBVIOUS
<1>10. Encoded(e, 1, HeadKernels, w)[Cell(1, "next_token")] = Of(w, S \cup T)
  BY <1>6, <1>7, <1>8, <1>9, HeadOf
<1>11. \A layer \in 1..Layers, name \in Memories :
          Encoded(e, 1, HeadKernels, w)[Cell(layer, name)] = e[Cell(layer, name)]
  BY <1>3, <1>8, HeadFrame
<1>. QED
  BY <1>2, <1>7, <1>10, <1>11

----------------------------------------------------------------------------
(* The inductive invariant                                                 *)

\* All layers read the slot of the pending trial.
Bound == pending # NoTrial /\ AllAt(packed, pending.slot)

\* The row of the pending trial.
TrialRow == trials[pending.id + 1]

\* A model that is bound and prepared has the vectors of the trial's row.
VectorsOfTrial ==
    Bound /\ ready.prepared =>
        /\ pending.materialized
        /\ \A layer \in 1..Layers, name \in Vectors : cells[Cell(layer, name)] = Of(TrialRow, {})

\* What a bound model remembers since its reset is the stream.
MemoryOfStream ==
    Bound /\ ready.reset =>
        /\ \A layer \in 1..Layers, name \in Memories :
             cells[Cell(layer, name)] = IF stream = {} THEN Nothing ELSE Of(TrialRow, stream)
        /\ stream # {} => cells[Cell(1, "next_token")] = Of(TrialRow, stream)

DecoderTypes ==
    /\ arena \in Models
    /\ packed \in [1..Layers -> Slots \cup {Arena}]
    /\ cells \in CellStates
    /\ clock \in Nat
    /\ ready \in [prepared : BOOLEAN, reset : BOOLEAN]
    /\ stream \in SUBSET Nat

DecoderInv == SearchInv /\ DecoderTypes /\ VectorsOfTrial /\ MemoryOfStream

\* A layer reads a row of the arena of the search or what a seed makes of the
\* model's own; the slot of one row gives that row.
LEMMA WeightsAre ==
    ASSUME NEW r \in [Slots -> Rows], NEW p \in [1..Layers -> Slots \cup {Arena}],
           NEW seed \in Seeds, arena \in Models
    PROVE  /\ \A n \in 1..Layers : Weights(r, p, n, seed) \in Rows
           /\ \A slot \in Slots :
                AllAt(p, slot) => \A n \in 1..Layers : Weights(r, p, n, seed) = r[slot]
<1>1. Arena \notin Slots /\ Regenerated[arena, seed] \in Models
  <2>1. <<arena, seed>> \in Models \X Seeds
    OBVIOUS
  <2>. QED
    BY <2>1, DecoderAssumption
<1>2. \A n \in 1..Layers : p[n] # Arena => p[n] \in Slots /\ r[p[n]] \in Rows
  OBVIOUS
<1>3. \A n \in 1..Layers : Weights(r, p, n, seed) \in Rows
  BY <1>1, <1>2 DEF Weights, Rows
<1>4. \A slot \in Slots :
        AllAt(p, slot) => \A n \in 1..Layers : Weights(r, p, n, seed) = r[slot]
  BY <1>1 DEF Weights, AllAt
<1>. QED
  BY <1>3, <1>4

\* What the steps below need of the search.
LEMMA SearchFacts ==
    ASSUME DecoderInv
    PROVE  /\ SearchInv /\ rows \in [Slots -> Rows] /\ arena \in Models
           /\ packed \in [1..Layers -> Slots \cup {Arena}] /\ cells \in CellStates
           /\ clock \in Nat /\ stream \in SUBSET Nat
           /\ ready \in [prepared : BOOLEAN, reset : BOOLEAN]
           /\ pending # NoTrial =>
                /\ pending \in Pendings /\ pending.slot \in Slots /\ pending.seed \in Seeds
                /\ TrialRow \in Models /\ TrialRow \in Rows
                /\ PendingRows \in [Slots -> Rows] /\ PendingRows[pending.slot] = TrialRow
                /\ pending.materialized => rows[pending.slot] = TrialRow
<1>1. /\ SearchInv /\ rows \in [Slots -> Rows] /\ arena \in Models
      /\ packed \in [1..Layers -> Slots \cup {Arena}] /\ cells \in CellStates
      /\ clock \in Nat /\ stream \in SUBSET Nat
      /\ ready \in [prepared : BOOLEAN, reset : BOOLEAN]
  BY DEF DecoderInv, DecoderTypes, SearchInv, TypeOK, Rows
<1>2. ASSUME pending # NoTrial
      PROVE  /\ pending \in Pendings /\ pending.slot \in Slots /\ pending.seed \in Seeds
             /\ TrialRow \in Models /\ TrialRow \in Rows
             /\ PendingRows \in [Slots -> Rows] /\ PendingRows[pending.slot] = TrialRow
             /\ pending.materialized => rows[pending.slot] = TrialRow
  <2>1. /\ pending \in Pendings /\ pending.slot \in Slots /\ TrialRow \in Models
        /\ PendingRows \in [Slots -> Models \cup {NoModel}]
        /\ PendingRows[pending.slot] = TrialRow
    BY <1>1, <1>2, PendingRowIsTheTrials DEF TrialRow
  <2>2. pending.seed \in Seeds
    BY <2>1 DEF Pendings
  <2>3. pending.materialized => rows[pending.slot] = TrialRow
    BY <2>1 DEF PendingRows
  <2>. QED
    BY <2>1, <2>2, <2>3 DEF Rows
<1>. QED
  BY <1>1, <1>2

\* A step that starts over: nothing is promised of the buffers.
LEMMA StartsOver ==
    ASSUME SearchInv', DecoderTypes', ready' = NotReady
    PROVE  DecoderInv'
<1>1. ready'.prepared = FALSE /\ ready'.reset = FALSE
  BY DEF NotReady
<1>. QED
  BY <1>1 DEF DecoderInv, VectorsOfTrial, MemoryOfStream

\* A call of the search keeps the pending trial, written by then, or is not
\* about the trial the buffers were prepared for.
LEMMA PendingStays ==
    ASSUME SearchInv, Next, pending # NoTrial, pending' # NoTrial
    PROVE  /\ pending'.slot = pending.slot /\ pending'.id = pending.id
           /\ pending.materialized => pending'.materialized
           /\ trials' = trials
<1>1. ~Ask /\ ~AskLazy /\ ~ReplaceHistory /\ ~ReplaceIndexedHistory /\ ~AskIndexed /\ ~AskRegions
  BY DEF Ask, AskLazy, ReplaceHistory, ReplaceIndexedHistory, AskIndexed, AskRegions,
         Propose, Load
<1>2. \A trial \in 0..(Len(trials) - 1), accept \in BOOLEAN : ~Tell(trial, accept)
  BY DEF Tell
<1>3. CASE MaterializePending
  <2>1. pending' = [pending EXCEPT !.materialized = TRUE] /\ trials' = trials
    BY <1>3 DEF MaterializePending
  <2>2. pending \in Pendings
    BY DEF SearchInv, TypeOK
  <2>. QED
    BY <2>1, <2>2 DEF Pendings
<1>4. CASE AppendRow
  BY <1>4 DEF AppendRow
<1>. QED
  BY <1>1, <1>2, <1>3, <1>4 DEF Next

LEMMA SearchCallStep ==
    ASSUME DecoderInv, SearchInv', UNCHANGED decoder, SearchGhosts,
           (pending # NoTrial /\ pending' # NoTrial) =>
               /\ pending'.slot = pending.slot /\ pending'.id = pending.id
               /\ pending.materialized => pending'.materialized
               /\ trials' = trials
    PROVE  DecoderInv'
<1>1. /\ arena' = arena /\ packed' = packed /\ cells' = cells /\ clock' = clock
  BY DEF decoder
<1>2. CASE pending # NoTrial /\ pending' # NoTrial
  <2>1. ready' = ready /\ stream' = stream
    BY <1>2 DEF SearchGhosts, ghosts
  <2>2. DecoderTypes'
    BY <1>1, <2>1 DEF DecoderInv, DecoderTypes, Slots
  <2>3. Bound' => Bound
    BY <1>1, <1>2 DEF Bound, AllAt
  <2>4. TrialRow' = TrialRow
    BY <1>2 DEF TrialRow
  <2>5. VectorsOfTrial'
    BY <1>1, <1>2, <2>1, <2>3, <2>4 DEF DecoderInv, VectorsOfTrial
  <2>6. MemoryOfStream'
    BY <1>1, <1>2, <2>1, <2>3, <2>4 DEF DecoderInv, MemoryOfStream
  <2>. QED
    BY <2>2, <2>5, <2>6 DEF DecoderInv
<1>3. CASE ~(pending # NoTrial /\ pending' # NoTrial)
  <2>1. ready' = NotReady /\ stream' = {}
    BY <1>3 DEF SearchGhosts
  <2>2. DecoderTypes'
    BY <1>1, <2>1 DEF DecoderInv, DecoderTypes, Slots, NotReady
  <2>. QED
    BY <2>1, <2>2, StartsOver
<1>. QED
  BY <1>2, <1>3

LEMMA SessionCallStep ==
    ASSUME DecoderInv, SearchCall \/ SessionAsk \/ SessionTell
    PROVE  DecoderInv'
<1>1. SearchInv
  BY SearchFacts
<1>2. CASE SearchCall
  <2>1. Next /\ SearchGhosts /\ UNCHANGED decoder
    BY <1>2 DEF SearchCall
  <2>2. SearchInv'
    BY <1>1, <2>1, NextInv
  <2>. QED
    BY <1>1, <2>1, <2>2, PendingStays, SearchCallStep
<1>3. CASE SessionAsk
  <2>1. Ask /\ SearchGhosts /\ UNCHANGED decoder
    BY <1>3 DEF SessionAsk
  <2>2. Next
    BY <2>1 DEF Next
  <2>3. SearchInv'
    BY <1>1, <2>2, NextInv
  <2>. QED
    BY <1>1, <2>1, <2>2, <2>3, PendingStays, SearchCallStep
<1>4. CASE SessionTell
  <2>1. PICK accept \in BOOLEAN : Tell(round, accept)
    BY <1>4 DEF SessionTell
  <2>2. SearchGhosts /\ UNCHANGED decoder
    BY <1>4 DEF SessionTell
  <2>3. SearchInv' /\ pending' = NoTrial
    BY <1>1, <2>1, TellStep DEF Tell
  <2>. QED
    BY <2>2, <2>3, SearchCallStep
<1>. QED
  BY <1>2, <1>3, <1>4

\* A step of the model alone leaves the search as it is.
LEMMA SearchUnchanged ==
    ASSUME SearchInv, UNCHANGED vars
    PROVE  SearchInv'
  BY NextInv

LEMMA BindStep ==
    ASSUME DecoderInv, BindLayer \/ SessionTellRefused
    PROVE  DecoderInv'
<1>1. UNCHANGED vars /\ SearchInv'
  BY SearchFacts, SearchUnchanged DEF BindLayer, SessionTellRefused
<1>2. CASE BindLayer
  <2>1. PICK layer \in 1..Layers : packed' = [packed EXCEPT ![layer] = pending.slot]
    BY <1>2 DEF BindLayer
  <2>2. pending # NoTrial
    BY <1>2 DEF BindLayer, MayBind, PendingFor
  <2>3. packed' \in [1..Layers -> Slots \cup {Arena}]
    BY <2>1, <2>2, SearchFacts
  <2>4. /\ ready' = NotReady /\ stream' = {}
        /\ arena' = arena /\ cells' = cells /\ clock' = clock
    BY <1>2 DEF BindLayer
  <2>5. DecoderTypes'
    BY <2>3, <2>4, SearchFacts DEF DecoderTypes, NotReady, Slots
  <2>. QED
    BY <1>1, <2>4, <2>5, StartsOver
<1>3. CASE SessionTellRefused
  <2>1. UNCHANGED decoder /\ UNCHANGED ghosts
    BY <1>3 DEF SessionTellRefused
  <2>. QED
    BY <1>1, <2>1 DEF DecoderInv, DecoderTypes, VectorsOfTrial, MemoryOfStream, Bound, TrialRow,
       AllAt, vars, decoder, ghosts, Slots
<1>. QED
  BY <1>2, <1>3

\* bind_pending_model writes the row where the layers will read it, and makes
\* the vectors from it.
LEMMA BindPendingModelStep ==
    ASSUME DecoderInv, BindPendingModel
    PROVE  DecoderInv'
<1>1. /\ pending # NoTrial
      /\ rows' = PendingRows
      /\ pending' = [pending EXCEPT !.materialized = TRUE]
      /\ packed' = [layer \in 1..Layers |-> pending.slot]
      /\ cells' = BoundCells(rows', packed')
      /\ ready' = [prepared |-> TRUE, reset |-> FALSE] /\ stream' = {}
      /\ trials' = trials /\ arena' = arena /\ clock' = clock
  BY DEF BindPendingModel, PendingFor
<1>2. SearchInv'
  <2>1. MaterializePending
    BY DEF BindPendingModel, MaterializePending
  <2>. QED
    BY <2>1, SearchFacts, MaterializeStep
<1> DEFINE seed == CHOOSE seed \in Seeds : TRUE
           w == TrialRow
<1>3. /\ pending \in Pendings /\ pending.slot \in Slots /\ w \in Rows
      /\ rows' \in [Slots -> Rows] /\ rows'[pending.slot] = w
      /\ arena \in Models /\ cells \in CellStates
  BY <1>1, SearchFacts
<1>4. seed \in Seeds
  BY <1>1, SearchFacts
<1>5. packed' \in [1..Layers -> Slots \cup {Arena}] /\ AllAt(packed', pending.slot)
  BY <1>1, <1>3 DEF AllAt
<1>6. cells' = Prepared(cells, rows', packed', seed)
  BY <1>1 DEF BoundCells
<1>7. pending'.slot = pending.slot /\ pending'.id = pending.id /\ pending'.materialized
  BY <1>1, <1>3 DEF Pendings
<1> HIDE DEF seed, w
<1>8. \A n \in 1..Layers : Weights(rows', packed', n, seed) = w
  BY <1>3, <1>4, <1>5, WeightsAre
<1>9. /\ cells' \in CellStates
      /\ \A layer \in 1..Layers, name \in Vectors : cells'[Cell(layer, name)] = Of(w, {})
  <2>1. \A n \in 1..Layers : Weights(rows', packed', n, seed) \in Rows
    BY <1>3, <1>8
  <2>. QED
    BY <1>3, <1>6, <1>8, <2>1, PreparedFrame, PreparedOf
<1>10. DecoderTypes'
  BY <1>1, <1>5, <1>9, SearchFacts DEF DecoderTypes, Slots
<1>11. TrialRow' = w
  BY <1>1, <1>7 DEF TrialRow, w
<1>12. VectorsOfTrial'
  BY <1>7, <1>9, <1>11 DEF VectorsOfTrial
<1>13. MemoryOfStream'
  BY <1>1 DEF MemoryOfStream
<1>. QED
  BY <1>2, <1>10, <1>12, <1>13 DEF DecoderInv

\* The buffers that prepare_candidate does not write.
LEMMA KeptNames == /\ Memories \subseteq Names \ Vectors /\ "next_token" \in Names \ Vectors
                   /\ Vectors \subseteq Names
  BY DEF Memories, Names, Vectors, LayerVectors, Shared

LEMMA PrepareStep ==
    ASSUME DecoderInv, NEW seed \in Seeds, PrepareCandidate(seed)
    PROVE  DecoderInv'
<1>1. /\ cells' = Prepared(cells, rows, packed, seed)
      /\ ready' = [ready EXCEPT !.prepared = OfTrial(packed, seed)]
      /\ UNCHANGED vars /\ arena' = arena /\ packed' = packed /\ clock' = clock
      /\ stream' = stream
  BY DEF PrepareCandidate
<1>2. SearchInv'
  BY <1>1, SearchFacts, SearchUnchanged
<1>3. \A n \in 1..Layers : Weights(rows, packed, n, seed) \in Rows
  BY SearchFacts, WeightsAre
<1>4. /\ cells' \in CellStates
      /\ \A layer \in 1..Layers, name \in Names \ Vectors :
           cells'[Cell(layer, name)] = cells[Cell(layer, name)]
  BY <1>1, <1>3, SearchFacts, PreparedFrame
<1>5. OfTrial(packed, seed) \in BOOLEAN
  BY DEF OfTrial
<1>6. /\ ready' \in [prepared : BOOLEAN, reset : BOOLEAN]
      /\ ready'.reset = ready.reset /\ ready'.prepared = OfTrial(packed, seed)
  BY <1>1, <1>5, SearchFacts
<1>7. DecoderTypes'
  BY <1>1, <1>4, <1>6, SearchFacts DEF DecoderTypes, Slots
<1>8. /\ Bound' = Bound /\ TrialRow' = TrialRow /\ pending' = pending
  BY <1>1 DEF Bound, TrialRow, AllAt, vars
<1>9. VectorsOfTrial'
  <2> SUFFICES ASSUME Bound, OfTrial(packed, seed)
               PROVE  /\ pending.materialized
                      /\ \A layer \in 1..Layers, name \in Vectors :
                           cells'[Cell(layer, name)] = Of(TrialRow, {})
    BY <1>6, <1>8 DEF VectorsOfTrial
  <2>1. pending # NoTrial /\ AllAt(packed, pending.slot) /\ pending.slot \in Slots
    BY SearchFacts DEF Bound
  <2>2. ~AllAt(packed, Arena)
    <3>1. 1 \in 1..Layers /\ Arena \notin Slots
      BY DecoderAssumption
    <3>. QED
      BY <2>1, <3>1 DEF AllAt
  <2>3. pending.materialized
    BY <2>2 DEF OfTrial
  <2>4. TrialRow \in Rows /\ \A n \in 1..Layers : Weights(rows, packed, n, seed) = TrialRow
    BY <2>1, <2>3, SearchFacts, WeightsAre
  <2>5. cells \in CellStates
    BY SearchFacts
  <2>. QED
    BY <1>1, <2>3, <2>4, <2>5, PreparedOf
<1>10. MemoryOfStream'
  <2>1. 1 \in 1..Layers
    BY DecoderAssumption
  <2>. QED
    BY <1>1, <1>4, <1>6, <1>8, <2>1, KeptNames DEF DecoderInv, MemoryOfStream
<1>. QED
  BY <1>2, <1>7, <1>9, <1>10 DEF DecoderInv

LEMMA CellNames ==
    ASSUME NEW layer \in 1..Layers, NEW name \in Names
    PROVE  Cell(layer, name)[2] = name
  BY DEF Cell

LEMMA ResetStep ==
    ASSUME DecoderInv, ResetDecodeState
    PROVE  DecoderInv'
<1>1. /\ cells' = [x \in Cells |-> IF x[2] \in Memories THEN Nothing ELSE cells[x]]
      /\ ready' = [ready EXCEPT !.reset = TRUE] /\ stream' = {}
      /\ UNCHANGED vars /\ arena' = arena /\ packed' = packed /\ clock' = clock
  BY DEF ResetDecodeState, Forgotten
<1>2. SearchInv'
  BY <1>1, SearchFacts, SearchUnchanged
<1>3. Nothing \in Contents
  BY DEF Nothing, Contents
<1>4. cells' \in CellStates
  BY <1>1, <1>3, SearchFacts DEF CellStates
<1>5. \A layer \in 1..Layers :
        /\ \A name \in Memories : cells'[Cell(layer, name)] = Nothing
        /\ \A name \in Vectors : cells'[Cell(layer, name)] = cells[Cell(layer, name)]
  <2>1. \A layer \in 1..Layers, name \in Names :
          Cell(layer, name) \in Cells /\ Cell(layer, name)[2] = name
    BY CellsOfLayers, CellNames
  <2>2. Memories \cup Vectors \subseteq Names /\ \A name \in Vectors : name \notin Memories
    BY KeptNames
  <2>. QED
    BY <1>1, <2>1, <2>2
<1>6. /\ ready' \in [prepared : BOOLEAN, reset : BOOLEAN] /\ ready'.prepared = ready.prepared
  BY <1>1, SearchFacts
<1>7. DecoderTypes'
  BY <1>1, <1>4, <1>6, SearchFacts DEF DecoderTypes, Slots
<1>8. /\ Bound' = Bound /\ TrialRow' = TrialRow /\ pending' = pending
  BY <1>1 DEF Bound, TrialRow, AllAt, vars
<1>9. VectorsOfTrial'
  BY <1>5, <1>6, <1>8 DEF DecoderInv, VectorsOfTrial
<1>10. MemoryOfStream'
  BY <1>1, <1>5 DEF MemoryOfStream
<1>. QED
  BY <1>2, <1>7, <1>9, <1>10 DEF DecoderInv

\* decode_token: a token joins the stream when the model is bound, prepared and
\* reset for the trial, and then the memories hold that stream and no other.
LEMMA DecodeStep ==
    ASSUME DecoderInv, NEW seed \in Seeds, DecodeToken(seed)
    PROVE  DecoderInv'
<1> DEFINE token == [rows |-> {}, tokens |-> {clock + 1}]
           c == [cells EXCEPT ![Cell(1, "token")] = token]
           extends == OfTrial(packed, seed) /\ ready.prepared /\ ready.reset
<1>1. /\ cells' = Decoded(c, seed) /\ clock' = clock + 1
      /\ IF extends THEN stream' = stream \cup {clock + 1} /\ ready' = ready
         ELSE stream' = {} /\ ready' = [ready EXCEPT !.reset = FALSE]
      /\ UNCHANGED vars /\ arena' = arena /\ packed' = packed
  BY DEF DecodeToken
<1>2. SearchInv'
  BY <1>1, SearchFacts, SearchUnchanged
<1>3. \A n \in 1..Layers : Weights(rows, packed, n, seed) \in Rows
  BY SearchFacts, WeightsAre
<1>4. /\ 1 \in 1..Layers /\ "token" \in Names
      /\ \A name \in Memories \cup Vectors : name \in Names /\ name # "token"
  BY DecoderAssumption DEF Names, Shared, Memories, Vectors, LayerVectors
<1>5. clock + 1 \in Nat /\ token \in Contents
  BY SearchFacts DEF Contents
<1> HIDE DEF token
<1>6. /\ c \in CellStates /\ c[Cell(1, "token")] = token
      /\ \A layer \in 1..Layers, name \in Memories \cup Vectors :
           c[Cell(layer, name)] = cells[Cell(layer, name)]
  <2>1. cells \in CellStates /\ Cell(1, "token") \in Cells
    BY <1>4, SearchFacts, CellsOfLayers
  <2>2. \A layer \in 1..Layers, name \in Memories \cup Vectors :
          Cell(layer, name) \in Cells /\ Cell(layer, name) # Cell(1, "token")
    <3>1. \A layer \in 1..Layers, name \in Names :
            Cell(layer, name) \in Cells /\ Cell(layer, name)[2] = name
      BY CellsOfLayers, CellNames
    <3>. QED
      BY <1>4, <3>1
  <2>. QED
    BY <1>5, <2>1, <2>2 DEF CellStates
<1> HIDE DEF c
<1>7. /\ cells' \in CellStates
      /\ \A layer \in 1..Layers, name \in Vectors :
           cells'[Cell(layer, name)] = cells[Cell(layer, name)]
  <2>1. /\ Decoded(c, seed) \in CellStates
        /\ \A layer \in 1..Layers, name \in Vectors :
             Decoded(c, seed)[Cell(layer, name)] = c[Cell(layer, name)]
    BY <1>3, <1>6, DecodedFrame
  <2>. QED
    BY <1>1, <1>6, <2>1
<1>8. /\ ready' \in [prepared : BOOLEAN, reset : BOOLEAN] /\ stream' \in SUBSET Nat
      /\ ready'.prepared = ready.prepared
      /\ ready'.reset => extends
  <2>1. CASE extends
    BY <1>1, <1>5, <2>1, SearchFacts
  <2>2. CASE ~extends
    BY <1>1, <2>2, SearchFacts
  <2>. QED
    BY <2>1, <2>2
<1>9. DecoderTypes'
  BY <1>1, <1>5, <1>7, <1>8, SearchFacts DEF DecoderTypes, Slots
<1>10. /\ Bound' = Bound /\ TrialRow' = TrialRow /\ pending' = pending
  BY <1>1 DEF Bound, TrialRow, AllAt, vars
<1>11. VectorsOfTrial'
  BY <1>7, <1>8, <1>10 DEF DecoderInv, VectorsOfTrial
<1>12. MemoryOfStream'
  <2> DEFINE w == TrialRow
             U == stream \cup {clock + 1}
  <2> SUFFICES ASSUME Bound, extends
               PROVE  /\ cells'[Cell(1, "next_token")] = Of(w, U)
                      /\ \A layer \in 1..Layers, name \in Memories :
                           cells'[Cell(layer, name)] = Of(w, U)
    <3>1. extends => stream' = U /\ stream' # {}
      BY <1>1
    <3>. QED
      BY <1>8, <1>10, <3>1 DEF MemoryOfStream
  <2>1. pending # NoTrial /\ AllAt(packed, pending.slot) /\ pending.slot \in Slots
    BY SearchFacts DEF Bound
  <2>2. pending.materialized /\ \A layer \in 1..Layers, name \in Vectors :
                                  cells[Cell(layer, name)] = Of(w, {})
    BY DEF DecoderInv, VectorsOfTrial
  <2>3. /\ w \in Rows /\ stream \in SUBSET Nat /\ {clock + 1} \in SUBSET Nat
        /\ \A n \in 1..Layers : Weights(rows, packed, n, seed) = w
    BY <1>5, <2>1, <2>2, SearchFacts, WeightsAre
  <2>4. \A layer \in 1..Layers, name \in Memories :
          cells[Cell(layer, name)] = IF stream = {} THEN Nothing ELSE Of(w, stream)
    BY DEF DecoderInv, MemoryOfStream
  <2>5. Remembers(c, w, stream)
    <3> SUFFICES ASSUME NEW layer \in 1..Layers, NEW name \in Memories
                 PROVE  c[Cell(layer, name)].rows \subseteq {w}
                        /\ c[Cell(layer, name)].tokens = stream
      BY DEF Remembers
    <3>1. c[Cell(layer, name)] = IF stream = {} THEN Nothing ELSE Of(w, stream)
      BY <1>6, <2>4
    <3>2. CASE stream = {}
      BY <3>1, <3>2 DEF Nothing
    <3>3. CASE stream # {}
      BY <3>1, <3>3, OfIs
    <3>. QED
      BY <3>2, <3>3
  <2>6. HasVectors(c, w) /\ c[Cell(1, "final_norm")] = Of(w, {})
    BY <1>4, <1>6, <2>2 DEF HasVectors, Vectors
  <2>7. c[Cell(1, "token")] = [rows |-> {}, tokens |-> {clock + 1}]
    BY <1>6 DEF token
  <2> HIDE DEF w
  <2>. QED
    BY <1>1, <1>6, <2>3, <2>5, <2>6, <2>7, DecodedOf
<1>. QED
  BY <1>2, <1>9, <1>11, <1>12 DEF DecoderInv

LEMMA DecoderInitInv == DecoderInit => DecoderInv
<1> SUFFICES ASSUME DecoderInit PROVE DecoderInv
  OBVIOUS
<1>1. SearchInv /\ base = 0
  BY InitInv DEF DecoderInit, Init
<1>2. rows \in [Slots -> Rows] /\ arena \in Models
  BY <1>1 DEF DecoderInit, SearchInv, TypeOK, BaseIsModel, Rows
<1>3. packed \in [1..Layers -> Slots \cup {Arena}]
  BY DEF DecoderInit
<1>4. NewCells \in CellStates
  <2>1. Nothing \in Contents /\ [Nothing EXCEPT !.rows = {NoModel}] \in Contents
    BY DEF Nothing, Contents, Rows
  <2>. QED
    BY <2>1 DEF NewCells, CellStates
<1>5. cells \in CellStates
  <2>1. PICK seed \in Seeds : cells = Prepared(NewCells, rows, packed, seed)
    BY DEF DecoderInit
  <2>2. \A n \in 1..Layers : Weights(rows, packed, n, seed) \in Rows
    BY <1>2, <1>3, WeightsAre
  <2>. QED
    BY <1>4, <2>1, <2>2, PreparedFrame
<1>6. /\ ready = NotReady /\ stream = {} /\ clock = 0
      /\ ready.prepared = FALSE /\ ready.reset = FALSE
  BY DEF DecoderInit, NotReady
<1>7. DecoderTypes
  BY <1>2, <1>3, <1>5, <1>6 DEF DecoderTypes, NotReady
<1>. QED
  BY <1>1, <1>6, <1>7 DEF DecoderInv, VectorsOfTrial, MemoryOfStream

LEMMA DecoderNextInv == DecoderInv /\ [DecoderNext]_allVars => DecoderInv'
<1> SUFFICES ASSUME DecoderInv, [DecoderNext]_allVars PROVE DecoderInv'
  OBVIOUS
<1>1. CASE SearchCall \/ SessionAsk \/ SessionTell
  BY <1>1, SessionCallStep
<1>2. CASE SessionTellRefused \/ BindLayer
  BY <1>2, BindStep
<1>3. CASE BindPendingModel
  BY <1>3, BindPendingModelStep
<1>4. CASE ResetDecodeState
  BY <1>4, ResetStep
<1>5. ASSUME NEW seed \in Seeds, PrepareCandidate(seed) PROVE DecoderInv'
  BY <1>5, PrepareStep
<1>6. ASSUME NEW seed \in Seeds, DecodeToken(seed) PROVE DecoderInv'
  BY <1>6, DecodeStep
<1>7. CASE UNCHANGED allVars
  <2>1. UNCHANGED vars /\ UNCHANGED decoder /\ UNCHANGED ghosts
    BY <1>7 DEF allVars
  <2>2. SearchInv'
    BY <2>1, SearchFacts, SearchUnchanged
  <2>. QED
    BY <2>1, <2>2 DEF DecoderInv, DecoderTypes, VectorsOfTrial, MemoryOfStream, Bound, TrialRow,
       AllAt, vars, decoder, ghosts, Slots
<1>. QED
  BY <1>1, <1>2, <1>3, <1>4, <1>5, <1>6, <1>7 DEF DecoderNext

\* The inductive invariant of the decoder holds in every reachable state, and
\* with it that of the search it runs on.
THEOREM DecoderInvariance == DecoderSpec => []DecoderInv
<1>. QED
  BY DecoderInitInv, DecoderNextInv, PTL DEF DecoderSpec

\* Whatever calls of the search, bindings, preparations, resets and tokens came
\* before, a model of any number of layers that is bound to the pending trial,
\* prepared and reset answers from the row the tell will record and from the
\* tokens since the reset alone.
THEOREM BoundModelIsTheTrial == DecoderSpec => []BoundForwardIsTheTrial
<1>1. DecoderInv => BoundForwardIsTheTrial
  BY DEF DecoderInv, MemoryOfStream, Bound, TrialRow, Of, BoundForwardIsTheTrial
<1>. QED
  BY <1>1, DecoderInvariance, PTL

\* No call of a session or of the decoder costs the search its pairs of a row
\* and the value measured on it.
THEOREM RecordsAreRowsUnderSessions == DecoderSpec => []HistoryRowsMatch
<1>1. DecoderInv => HistoryRowsMatch
  BY DEF DecoderInv, SearchInv
<1>. QED
  BY <1>1, DecoderInvariance, PTL
=============================================================================
