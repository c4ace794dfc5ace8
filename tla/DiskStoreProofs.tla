--------------------------- MODULE DiskStoreProofs ---------------------------
(***************************************************************************)
(* What the work directory keeps for any rows and any number of faults and *)
(* deaths: the rows that were acknowledged, an index that covers each row  *)
(* once, and files that can be opened.                                     *)
(***************************************************************************)
EXTENDS DiskStore, TLAPS

Stores    == [Slots -> Row \cup {NoRow}]
Counts    == 0..MaxRows
Fragments == [rows : Nat, cover : Covers]

\* The types, those of the handle's own variables with them.
DiskTyped ==
    /\ xs \in Stores /\ ys \in Stores
    /\ numObs \in Counts
    /\ meta \in FileOf(Metadata)
    /\ sidecar \in FileOf(Counts)
    /\ header \in FileOf(Nat)
    /\ pages \in FileOf(Covers)

HandleTyped ==
    /\ xN \in Counts /\ yN \in Counts /\ indexed \in Counts
    /\ batch \in Seq(Row) /\ Len(batch) <= MaxBatch
    /\ frags \in Seq(Fragments) /\ Len(frags) <= 2
    /\ dirty \in BOOLEAN
    /\ bounds \in Bounds
    /\ step \in {"header", "header_write", "rollback"} => saved \in FileOf(Covers)
    /\ step = "bounds_write" => saved \in Metadata

TypeInv == DiskTyped /\ HandleTyped

\* train_y is never ahead of train_x, nor the index of either.
OrderInv ==
    /\ yN + (IF step = "append_y" THEN Len(batch) ELSE 0) <= xN
    /\ indexed <= xN
    /\ step \in {"sidecar", "sidecar_write"} /\ op = "flush" => indexed < xN

\* Which operations pass through a step.
ControlInv ==
    /\ step \in {"closed", "ready"} => op = "none"
    /\ step \in {"append_y", "commit"} => op = "add"
    /\ step \in {"persist", "pages", "header", "header_write", "rollback"} =>
           op \in {"persist", "drop"}
    /\ step \in {"meta", "meta_write"} => op \in {"open", "reopen", "persist", "drop"}
    /\ step \in {"bounds", "bounds_write"} => op \in {"open", "persist_end"}
    /\ step \in {"sidecar", "sidecar_write"} =>
           op \in {"open", "reopen", "resync", "add", "sync", "flush",
                   "persist", "drop", "persist_end", "drop_end"}
    /\ step \in {"closed", "ready", "append_y", "commit", "persist", "pages", "header",
                 "header_write", "rollback", "meta", "meta_write", "bounds", "bounds_write",
                 "sidecar", "sidecar_write"}

\* The row i has its x and its own y.
Whole(i) == xs[i] = ys[i] /\ xs[i] # NoRow

\* Every row count on disk, or about to be written back, is at most n.
CountsUpTo(n) ==
    /\ numObs <= n
    /\ Readable(meta) => meta.obs <= n
    /\ step = "bounds_write" => saved.obs <= n

\* If train_x is not ahead of train_y, no append has failed since the handle
\* was opened and every row is whole.
Aligned ==
    IF step = "append_y"
    THEN /\ \A j \in 1..Len(batch) : xs[xN - Len(batch) + j] = batch[j]
         /\ ~mixed /\ yN + Len(batch) = xN => \A i \in 1..yN : Whole(i)
    ELSE ~mixed /\ yN = xN => \A i \in 1..xN : Whole(i)

\* No count exceeds the rows of a handle, nor the rows that are whole; what
\* was acknowledged is counted in num_obs.bin, which is what is left of the
\* counts while metadata.json is torn.
RowsInv ==
    /\ step # "closed" => Aligned /\ CountsUpTo(xN)
    /\ step \in {"sidecar", "sidecar_write"} /\ op \in {"add", "resync"} => numObs = xN
    /\ step \in {"bounds", "bounds_write"} /\ op = "open" => numObs = xN
    /\ ~mixed =>
         /\ step # "closed" => CountsUpTo(yN)
         /\ \A i \in Slots : ~CountsUpTo(i - 1) => Whole(i)
         /\ acked \in Seq((Row \cup {NoRow}) \X (Row \cup {NoRow}))
         /\ Len(acked) <= numObs
         /\ \A i \in 1..Len(acked) : acked[i] = <<xs[i], ys[i]>>

\* The cover of an index over the first n rows.
Once(n) == [i \in Slots |-> IF i <= n THEN 1 ELSE 0]

\* The index over the first n rows, merged into one fragment.
Complete(n) == [rows |-> n, cover |-> Once(n)]

\* A header h and pages p of the same index, over rows that are counted.
FilesMatch(h, p) ==
    /\ h = NoFile <=> p = NoFile
    /\ h # NoFile => h \in Nat /\ p = Once(h) /\ h <= numObs

\* No count of indexed rows is below a header h, but for 0, with which the
\* index is not opened.
NoneBehind(h) ==
    h \in Nat =>
        /\ Readable(sidecar) => sidecar = 0 \/ h <= sidecar
        /\ Readable(meta) => meta.indexed = 0 \/ h <= meta.indexed
        /\ step = "bounds_write" => saved.indexed = 0 \/ h <= saved.indexed
        /\ step # "closed" => indexed = 0 \/ h <= indexed

\* The new index is on disk, its counts may not be.
Rewritten == header = xN /\ pages = Once(xN) /\ indexed = xN

\* The index in memory covers what it counts once, and so does the one on
\* disk, whose files are replaced one after the other.
IndexInv ==
    /\ op \in {"persist", "drop"} /\ step # "persist" => indexed = xN
    /\ ~interrupted =>
         /\ Merged(frags) = Complete(indexed)
         /\ CASE step = "header"       -> /\ pages = Once(xN)
                                          /\ FilesMatch(header, saved)
                                          /\ NoneBehind(header)
              [] step = "header_write" -> header = Torn /\ pages = Once(xN)
              [] step = "rollback"     -> header # Torn => /\ FilesMatch(header, saved)
                                                           /\ NoneBehind(header)
              [] step \in {"meta", "meta_write"} /\ ~Opening -> Rewritten
              [] step = "sidecar" /\ op \in {"persist_end", "drop_end"} ->
                     Rewritten /\ xN = numObs /\ Readable(meta) /\ meta.indexed = xN
              [] step = "sidecar_write" /\ op \in {"persist_end", "drop_end"} ->
                     Rewritten /\ FilesMatch(header, pages) /\ NoneBehind(header)
              [] OTHER -> FilesMatch(header, pages) /\ NoneBehind(header)

\* A header is written after its pages.
PagesFirst ==
    header # NoFile \/ step \in {"header", "header_write", "rollback"} => pages # NoFile

\* All that is proved by induction.
DiskInv == TypeInv /\ OrderInv /\ ControlInv /\ RowsInv /\ IndexInv /\ PagesFirst

----------------------------------------------------------------------------
(* Control                                                                 *)

LEMMA ControlStep == ControlInv /\ [Next]_vars => ControlInv'
<1> SUFFICES ASSUME ControlInv, [Next]_vars PROVE ControlInv'
  OBVIOUS
<1>1. ASSUME NEW request, NEW b, Open(request, b) \/ OpenRefused(request, b)
      PROVE  ControlInv'
  BY <1>1 DEF Open, OpenAs, OpenRefused, Goto, ControlInv
<1>2. ASSUME NEW b, AppendX(b) PROVE ControlInv'
  BY <1>2 DEF AppendX, Goto, ControlInv
<1>3. CASE AppendY
  BY <1>3 DEF AppendY, Goto, ControlInv, handleVars
<1>4. CASE AppendFails
  BY <1>4 DEF AppendFails, Err, Gone, Opening, Dropping, Goto, ControlInv, handleVars
<1>5. CASE Commit
  BY <1>5 DEF Commit, Ok, Goto, ControlInv, handleVars
<1>6. CASE Sync
  BY <1>6 DEF Sync, Goto, ControlInv, handleVars
<1>7. CASE Flush
  BY <1>7 DEF Flush, Goto, ControlInv, handleVars
<1>8. CASE SidecarTruncate
  BY <1>8 DEF SidecarTruncate, Goto, ControlInv, handleVars
<1>9. CASE SidecarWrite
  BY <1>9 DEF SidecarWrite, Opening, Ok, Gone, Goto, ControlInv, handleVars
<1>10. CASE SidecarFails
  BY <1>10 DEF SidecarFails, Err, Gone, Opening, Dropping, Goto, ControlInv, handleVars
<1>11. CASE Persist
  BY <1>11 DEF Persist, Goto, ControlInv, handleVars
<1>12. CASE DropAlone
  BY <1>12 DEF DropAlone, Gone, Goto, ControlInv, handleVars
<1>13. CASE PersistStart
  BY <1>13 DEF PersistStart, Gone, Dropping, Goto, ControlInv, handleVars
<1>14. CASE RenamePages
  BY <1>14 DEF RenamePages, Goto, ControlInv, handleVars
<1>15. CASE HeaderTruncate
  BY <1>15 DEF HeaderTruncate, Goto, ControlInv, handleVars
<1>16. CASE HeaderWrite
  BY <1>16 DEF HeaderWrite, Goto, ControlInv, handleVars
<1>17. CASE PagesFail
  BY <1>17 DEF PagesFail, Err, Gone, Opening, Dropping, Goto, ControlInv, handleVars
<1>18. CASE HeaderFails
  BY <1>18 DEF HeaderFails, Goto, ControlInv, handleVars
<1>19. CASE Rollback
  BY <1>19 DEF Rollback, Gone, Dropping, Goto, ControlInv, handleVars
<1>20. CASE MetaTruncate
  BY <1>20 DEF MetaTruncate, Goto, ControlInv, handleVars
<1>21. CASE MetaWrite
  BY <1>21 DEF MetaWrite, Opening, ReopenSyncs, Goto, ControlInv
<1>22. CASE MetaFails
  BY <1>22 DEF MetaFails, Err, Gone, Opening, Dropping, Goto, ControlInv, handleVars
<1>23. CASE BoundsTruncate
  BY <1>23 DEF BoundsTruncate, Goto, ControlInv, handleVars
<1>24. CASE BoundsWrite
  BY <1>24 DEF BoundsWrite, Ok, Goto, ControlInv, handleVars
<1>25. CASE BoundsFail
  BY <1>25 DEF BoundsFail, Goto, ControlInv, handleVars
<1>26. CASE Crash
  BY <1>26 DEF Crash, Gone, Goto, ControlInv, handleVars
<1>27. CASE UNCHANGED vars
  BY <1>27 DEF vars, ControlInv
<1>. QED
  BY <1>1, <1>2, <1>3, <1>4, <1>5, <1>6, <1>7, <1>8, <1>9, <1>10, <1>11, <1>12, <1>13, <1>14, <1>15, <1>16, <1>17, <1>18, <1>19, <1>20, <1>21, <1>22, <1>23, <1>24, <1>25, <1>26, <1>27
     DEF Next, OpenStep, AddStep, SyncStep, PersistStep

----------------------------------------------------------------------------
(* Operators                                                               *)

LEMMA WrittenType ==
    ASSUME NEW slots \in Stores, NEW n \in Nat, NEW b \in Seq(Row)
    PROVE  /\ Written(slots, n, b) \in Stores
           /\ \A j \in 1..Len(b) : n + j \in Slots => Written(slots, n, b)[n + j] = b[j]
           /\ \A i \in 1..n : i \in Slots => Written(slots, n, b)[i] = slots[i]
<1>1. Len(b) \in Nat /\ \A j \in 1..Len(b) : b[j] \in Row
  OBVIOUS
<1>2. \A i \in (n + 1)..(n + Len(b)) : i - n \in 1..Len(b)
  BY <1>1
<1>3. Slots \subseteq Nat
  BY DEF Slots
<1>4. Written(slots, n, b) \in Stores
  BY <1>1, <1>2 DEF Written, Stores
<1>. QED
  BY <1>1, <1>3, <1>4 DEF Written

LEMMA FragmentType ==
    ASSUME NEW from \in Nat, NEW to \in Nat, from <= to
    PROVE  Fragment(from, to) \in Fragments
  BY DEF Fragment, Fragments, Covers

LEMMA BesideType ==
    ASSUME NEW f \in Fragments, NEW g \in Fragments
    PROVE  Beside(f, g) \in Fragments
<1>1. /\ f.rows \in Nat /\ g.rows \in Nat
      /\ f.cover \in [Slots -> Nat] /\ g.cover \in [Slots -> Nat]
  BY DEF Fragments, Covers
<1>2. /\ f.rows + g.rows \in Nat
      /\ [i \in Slots |-> f.cover[i] + g.cover[i]] \in [Slots -> Nat]
  BY <1>1
<1>. QED
  BY <1>2 DEF Beside, Fragments, Covers

LEMMA MergedType ==
    ASSUME NEW fs \in Seq(Fragments), Len(fs) <= 3
    PROVE  Merged(fs) \in Fragments
<1>1. Fragment(0, 0) \in Fragments
  BY FragmentType
<1>2. CASE Len(fs) = 0
  BY <1>1, <1>2 DEF Merged
<1>3. CASE Len(fs) = 1
  BY <1>3 DEF Merged
<1>4. CASE Len(fs) = 2
  <2>1. fs[1] \in Fragments /\ fs[2] \in Fragments
    BY <1>4
  <2>2. Merged(fs) = Beside(fs[1], fs[2])
    BY <1>4 DEF Merged
  <2>. QED
    BY <2>1, <2>2, BesideType
<1>5. CASE Len(fs) = 3
  <2>1. \A i \in 1..3 : fs[i] \in Fragments
    BY <1>5
  <2>2. Merged(fs) = Beside(Beside(fs[1], fs[2]), fs[3])
    BY <1>5 DEF Merged
  <2>3. fs[1] \in Fragments /\ fs[2] \in Fragments /\ fs[3] \in Fragments
    BY <2>1
  <2>4. Beside(fs[1], fs[2]) \in Fragments
    BY <2>3, BesideType
  <2>. QED
    BY <2>2, <2>3, <2>4, BesideType
<1>6. Len(fs) = 0 \/ Len(fs) = 1 \/ Len(fs) = 2 \/ Len(fs) = 3
  <2>1. Len(fs) \in Nat
    OBVIOUS
  <2>2. \A n \in Nat : n <= 3 => n = 0 \/ n = 1 \/ n = 2 \/ n = 3
    OBVIOUS
  <2>. QED
    BY <2>1, <2>2, Zenon
<1>. QED
  BY <1>2, <1>3, <1>4, <1>5, <1>6, Zenon

LEMMA SyncedType ==
    ASSUME NEW fs \in Seq(Fragments), Len(fs) <= 2,
           NEW from \in Nat, NEW to \in Nat, from <= to
    PROVE  Synced(fs, from, to) \in Seq(Fragments) /\ Len(Synced(fs, from, to)) <= 2
<1> DEFINE new == Append(fs, Fragment(from, to))
<1>1. new \in Seq(Fragments) /\ Len(new) <= 3
  BY FragmentType
<1> HIDE DEF new
<1>2. Merged(new) \in Fragments
  BY <1>1, MergedType
<1>3. Synced(fs, from, to) = IF Len(new) > 2 THEN <<Merged(new)>> ELSE new
  BY DEF Synced, new
<1>. QED
  BY <1>1, <1>2, <1>3

\* What the files say is counted in slots.
LEMMA LoadedCounts ==
    ASSUME TypeInv, NEW b \in Seq(Row), Len(b) <= MaxBatch
    PROVE  /\ LoadNumObs \in Counts /\ LoadIndexed \in Counts
           /\ numObs <= LoadNumObs
           /\ Fresh(b) \in Seq(Row)
           /\ OpenRows(b) \in Counts /\ LoadNumObs <= OpenRows(b)
           /\ OpenRows(b) = LoadNumObs + Len(Fresh(b))
           /\ OpenIndexed(b) \in Counts /\ OpenIndexed(b) <= OpenRows(b)
<1>1. /\ numObs \in Counts /\ MaxRows \in Nat /\ MaxBatch \in 0..MaxRows
      /\ Readable(meta) => meta.obs \in Counts /\ meta.indexed \in Counts
      /\ Readable(sidecar) => sidecar \in Counts
  BY BoundAssumption DEF TypeInv, DiskTyped, FileOf, Readable, Metadata, Counts
<1>2. /\ LoadNumObs \in Counts /\ LoadIndexed \in Counts /\ numObs <= LoadNumObs
  BY <1>1 DEF LoadNumObs, LoadIndexed, Counts
<1>3. Fresh(b) \in Seq(Row) /\ Len(Fresh(b)) \in Nat /\ Len(Fresh(b)) <= MaxBatch
  BY <1>1 DEF Fresh
<1>4. LoadNumObs # 0 => Len(Fresh(b)) = 0
  BY DEF Fresh
<1>5. OpenRows(b) \in Counts /\ LoadNumObs <= OpenRows(b)
  BY <1>1, <1>2, <1>3, <1>4 DEF OpenRows, Counts
<1>6. OpenIndexed(b) \in Counts /\ OpenIndexed(b) <= OpenRows(b)
  BY <1>2, <1>5 DEF OpenIndexed, Lesser, Counts
<1>. QED
  BY <1>2, <1>3, <1>5, <1>6 DEF OpenRows

LEMMA BatchType ==
    ASSUME NEW b \in Batches \cup {<<>>}
    PROVE  b \in Seq(Row) /\ Len(b) <= MaxBatch
<1>1. MaxBatch \in Nat
  BY BoundAssumption
<1>2. CASE b = <<>>
  BY <1>1, <1>2
<1>3. CASE b \in Batches
  <2>1. PICK n \in 1..MaxBatch : b \in [1..n -> Row]
    BY <1>3 DEF Batches
  <2>2. n \in Nat /\ n <= MaxBatch
    BY <1>1, <2>1
  <2>. QED
    BY <2>1, <2>2
<1>. QED
  BY <1>2, <1>3

----------------------------------------------------------------------------
(* Types and order                                                         *)

LEMMA CountsAreNumbers ==
    /\ \A n : n \in Counts <=> n \in Nat /\ n <= MaxRows
    /\ MaxRows \in Nat /\ MaxBatch \in Nat
  BY BoundAssumption DEF Counts

LEMMA SameDisk ==
    ASSUME TypeInv, UNCHANGED diskVars
    PROVE  DiskTyped'
  BY DEF TypeInv, DiskTyped, diskVars

LEMMA OnDiskType ==
    ASSUME TypeInv
    PROVE  OnDisk \in Fragments
<1>1. frags \in Seq(Fragments) /\ Len(frags) <= 3
  BY DEF TypeInv, HandleTyped
<1>. QED
  BY <1>1, MergedType DEF OnDisk

LEMMA GoneKeeps ==
    ASSUME TypeInv, Gone
    PROVE  HandleTyped' /\ OrderInv'
<1>1. /\ 0 \in Counts /\ <<>> \in Seq(Row) /\ Len(<<>>) = 0 /\ 0 <= MaxBatch
      /\ <<>> \in Seq(Fragments) /\ 0 <= 2
  BY CountsAreNumbers
<1>2. /\ step' = "closed" /\ xN' = 0 /\ yN' = 0 /\ indexed' = 0 /\ batch' = <<>>
      /\ frags' = <<>> /\ dirty' = FALSE /\ bounds' = bounds
  BY DEF Gone, Goto
<1>3. HandleTyped'
  BY <1>1, <1>2 DEF TypeInv, HandleTyped
<1>. QED
  BY <1>2, <1>3 DEF OrderInv

LEMMA ErrKeeps ==
    ASSUME TypeInv, OrderInv, Err
    PROVE  HandleTyped' /\ OrderInv'
<1>1. CASE Gone
  BY <1>1, GoneKeeps
<1>2. CASE ~Gone
  <2>1. /\ step' = "ready" /\ batch' = <<>> /\ xN' = xN /\ yN' = yN /\ frags' = frags
        /\ indexed' = indexed /\ dirty' = dirty /\ bounds' = bounds
    BY <1>2 DEF Err, Goto
  <2>2. <<>> \in Seq(Row) /\ Len(<<>>) = 0 /\ 0 <= MaxBatch
    BY CountsAreNumbers
  <2>3. HandleTyped'
    BY <2>1, <2>2 DEF TypeInv, HandleTyped
  <2>4. xN \in Nat /\ yN \in Nat /\ Len(batch) \in Nat
    BY CountsAreNumbers DEF TypeInv, HandleTyped
  <2>5. OrderInv'
    BY <2>1, <2>4 DEF OrderInv
  <2>. QED
    BY <2>3, <2>5
<1>. QED
  BY <1>1, <1>2

LEMMA OpenTypes ==
    ASSUME TypeInv, NEW request \in {"none", "bounded"}, NEW b \in Batches \cup {<<>>},
           Open(request, b)
    PROVE  TypeInv' /\ OrderInv'
<1>1. b \in Seq(Row) /\ Len(b) <= MaxBatch
  BY BatchType
<1>2. /\ LoadNumObs \in Nat /\ Fresh(b) \in Seq(Row)
      /\ OpenRows(b) \in Counts /\ OpenIndexed(b) \in Counts
      /\ OpenIndexed(b) <= OpenRows(b)
  BY <1>1, LoadedCounts, CountsAreNumbers
<1>3. DiskTyped'
  <2>1. xs' \in Stores /\ ys' \in Stores
    BY <1>2, WrittenType DEF Open, StoreFresh, TypeInv, DiskTyped
  <2>2. UNCHANGED <<numObs, meta, sidecar, header, pages>>
    BY DEF Open
  <2>. QED
    BY <2>1, <2>2 DEF TypeInv, DiskTyped
<1>4. frags' \in Seq(Fragments) /\ Len(frags') <= 2
  <2> DEFINE onDisk == IF IndexOpened(b) THEN <<[rows |-> header, cover |-> pages]>> ELSE <<>>
             persisted == IF IndexOpened(b) THEN header ELSE 0
  <2>1. IndexOpened(b) => header \in Nat /\ pages \in Covers
    BY DEF Open, IndexRefused, Readable, TypeInv, DiskTyped, FileOf
  <2>2. /\ onDisk \in Seq(Fragments) /\ Len(onDisk) <= 2
        /\ persisted \in Nat
    <3>1. CASE IndexOpened(b)
      <4>1. [rows |-> header, cover |-> pages] \in Fragments
        BY <2>1, <3>1 DEF Fragments
      <4>. QED
        BY <2>1, <3>1, <4>1
    <3>2. CASE ~IndexOpened(b)
      BY <3>2
    <3>. QED
      BY <3>1, <3>2
  <2>3. frags' = IF persisted < OpenIndexed(b)
                 THEN Synced(onDisk, persisted, OpenIndexed(b)) ELSE onDisk
    BY DEF Open
  <2> HIDE DEF onDisk, persisted
  <2>4. OpenIndexed(b) \in Nat
    BY <1>2, CountsAreNumbers
  <2>. QED
    BY <2>2, <2>3, <2>4, SyncedType
<1>5. /\ step' \in {"sidecar", "meta"} /\ op' \in {"open", "reopen"}
      /\ xN' = OpenRows(b) /\ yN' = OpenRows(b) /\ indexed' = OpenIndexed(b)
      /\ batch' = batch /\ dirty' \in BOOLEAN
  BY DEF Open, OpenAs, Goto
<1>6. bounds' \in Bounds
  <2>1. LoadBounds # "absent" => LoadBounds \in Bounds
    BY DEF LoadBounds, Readable, TypeInv, DiskTyped, FileOf, Metadata
  <2>. QED
    BY <2>1 DEF Open, Bounds
<1>7. HandleTyped'
  BY <1>2, <1>4, <1>5, <1>6 DEF TypeInv, HandleTyped
<1>8. OrderInv'
  BY <1>2, <1>5, CountsAreNumbers DEF OrderInv
<1>. QED
  BY <1>3, <1>7, <1>8 DEF TypeInv

LEMMA TypeStep == TypeInv /\ OrderInv /\ ControlInv /\ [Next]_vars => TypeInv' /\ OrderInv'
<1> SUFFICES ASSUME TypeInv, OrderInv, ControlInv, [Next]_vars
             PROVE  TypeInv' /\ OrderInv'
  OBVIOUS
<1>0. /\ \A n : n \in Counts <=> n \in Nat /\ n <= MaxRows
      /\ xN \in Nat /\ yN \in Nat /\ indexed \in Nat /\ Len(batch) \in Nat
  BY CountsAreNumbers DEF TypeInv, HandleTyped
<1>1. ASSUME NEW request \in {"none", "bounded"}, NEW b \in Batches \cup {<<>>},
             Open(request, b)
      PROVE  TypeInv' /\ OrderInv'
  BY <1>1, OpenTypes
<1>2. ASSUME NEW request \in {"none", "bounded"}, NEW b \in Batches \cup {<<>>},
             OpenRefused(request, b)
      PROVE  TypeInv' /\ OrderInv'
  <2>1. xs' \in Stores /\ ys' \in Stores
    <3>1. LoadNumObs \in Nat /\ Fresh(b) \in Seq(Row)
      BY BatchType, LoadedCounts, CountsAreNumbers
    <3>. QED
      BY <1>2, <3>1, WrittenType DEF OpenRefused, StoreFresh, TypeInv, DiskTyped
  <2>. QED
    BY <1>2, <2>1 DEF OpenRefused, handleVars, TypeInv, DiskTyped, HandleTyped, OrderInv
<1>3. ASSUME NEW b \in Batches, AppendX(b) PROVE TypeInv' /\ OrderInv'
  <2>1. b \in Seq(Row) /\ Len(b) <= MaxBatch
    BY BatchType
  <2>2. xs' \in Stores
    BY <1>0, <1>3, <2>1, WrittenType DEF AppendX, TypeInv, DiskTyped
  <2>3. xN' \in Counts
    BY <1>0, <1>3, <2>1 DEF AppendX
  <2>4. OrderInv'
    BY <1>0, <1>3, <2>1, <2>3 DEF AppendX, Goto, OrderInv
  <2>5. TypeInv'
    BY <1>3, <2>1, <2>2, <2>3 DEF AppendX, Goto, TypeInv, DiskTyped, HandleTyped
  <2>. QED
    BY <2>4, <2>5
<1>4. CASE AppendY
  <2>1. ys' \in Stores
    BY <1>0, <1>4, WrittenType DEF AppendY, TypeInv, DiskTyped, HandleTyped
  <2>2. yN' \in Counts /\ yN' <= xN
    <3>1. yN' = yN + Len(batch) /\ yN + Len(batch) <= xN /\ xN \in Counts
      BY <1>4 DEF AppendY, OrderInv, TypeInv, HandleTyped
    <3>2. yN + Len(batch) \in Nat /\ MaxRows \in Nat
      BY <1>0, CountsAreNumbers
    <3>. QED
      BY <1>0, <3>1, <3>2
  <2>3. OrderInv'
    BY <1>0, <1>4, <2>2 DEF AppendY, Goto, OrderInv, ControlInv
  <2>4. TypeInv'
    BY <1>4, <2>1, <2>2 DEF AppendY, Goto, TypeInv, DiskTyped, HandleTyped
  <2>. QED
    BY <2>3, <2>4
<1>5. CASE AppendFails \/ SidecarFails \/ PagesFail \/ MetaFails
  <2>1. UNCHANGED diskVars /\ (Err \/ (op' = "drop" /\ step' = "persist" /\ UNCHANGED handleVars))
    BY <1>5 DEF AppendFails, SidecarFails, PagesFail, MetaFails, Goto
  <2>2. CASE Err
    BY <2>1, <2>2, ErrKeeps, SameDisk DEF TypeInv
  <2>3. CASE op' = "drop" /\ step' = "persist" /\ UNCHANGED handleVars
    BY <1>0, <1>5, <2>1, <2>3, SameDisk DEF AppendFails, SidecarFails, PagesFail, MetaFails,
       handleVars, TypeInv, HandleTyped, OrderInv
  <2>. QED
    BY <2>1, <2>2, <2>3
<1>6. CASE Commit
  <2>1. frags' \in Seq(Fragments) /\ Len(frags') <= 2 /\ indexed' \in {indexed, xN}
    BY <1>0, <1>6, SyncedType DEF Commit, TypeInv, HandleTyped
  <2>2. /\ numObs' = xN /\ dirty' = TRUE /\ batch' = <<>> /\ op' \in {"none", op}
        /\ step' \in {"ready", "sidecar"} /\ op = "add"
        /\ UNCHANGED <<xs, ys, meta, sidecar, header, pages, xN, yN, bounds, saved>>
    BY <1>6 DEF Commit, Ok, Goto, ControlInv
  <2>3. <<>> \in Seq(Row) /\ Len(<<>>) = 0 /\ 0 <= MaxBatch
    BY CountsAreNumbers
  <2>4. OrderInv'
    BY <1>0, <2>1, <2>2, <2>3 DEF OrderInv
  <2>5. TypeInv'
    BY <2>1, <2>2, <2>3 DEF TypeInv, DiskTyped, HandleTyped
  <2>. QED
    BY <2>4, <2>5
<1>7. CASE Sync
  <2>1. frags' \in Seq(Fragments) /\ Len(frags') <= 2
    BY <1>0, <1>7, SyncedType DEF Sync, TypeInv, HandleTyped
  <2>2. DiskTyped'
    BY <1>7, SameDisk DEF Sync
  <2>3. HandleTyped' /\ OrderInv'
    BY <1>0, <1>7, <2>1 DEF Sync, Goto, TypeInv, HandleTyped, OrderInv
  <2>. QED
    BY <2>2, <2>3 DEF TypeInv
<1>8. CASE Flush \/ Persist
  BY <1>0, <1>8 DEF Flush, Persist, Goto, diskVars, handleVars,
     TypeInv, DiskTyped, HandleTyped, OrderInv
<1>9. CASE DropAlone \/ Crash
  <2>1. Gone /\ UNCHANGED diskVars
    BY <1>9 DEF DropAlone, Crash
  <2>. QED
    BY <2>1, GoneKeeps, SameDisk DEF TypeInv
<1>10. CASE PersistStart
  <2>1. DiskTyped'
    BY <1>10, SameDisk DEF PersistStart
  <2>2. CASE Gone
    BY <2>1, <2>2, GoneKeeps DEF TypeInv
  <2>3. CASE ~Gone
    <3>1. frags' \in Seq(Fragments) /\ Len(frags') <= 2 /\ indexed' \in {indexed, xN}
      BY <1>0, <1>10, <2>3, SyncedType DEF PersistStart, TypeInv, HandleTyped
    <3>2. /\ step' \in {"bounds", "sidecar", "pages"} /\ dirty' \in {FALSE, dirty}
          /\ op' # "flush" /\ UNCHANGED <<batch, xN, yN, bounds, saved>>
      BY <1>10, <2>3 DEF PersistStart, Goto, ControlInv
    <3>3. HandleTyped'
      BY <3>1, <3>2 DEF TypeInv, HandleTyped
    <3>4. OrderInv'
      BY <1>0, <3>1, <3>2 DEF OrderInv
    <3>. QED
      BY <2>1, <3>3, <3>4 DEF TypeInv
  <2>. QED
    BY <2>2, <2>3
<1>11. CASE SidecarTruncate \/ HeaderTruncate \/ HeaderFails \/ MetaTruncate
  BY <1>0, <1>11 DEF SidecarTruncate, HeaderTruncate, HeaderFails, MetaTruncate, Goto,
     diskVars, handleVars, TypeInv, DiskTyped, HandleTyped, OrderInv, FileOf
<1>12. CASE SidecarWrite
  <2>1. DiskTyped'
    BY <1>12 DEF SidecarWrite, TypeInv, DiskTyped, HandleTyped, FileOf
  <2>2. CASE Gone
    BY <2>1, <2>2, GoneKeeps DEF TypeInv
  <2>3. CASE ~Gone
    <3>1. frags' \in Seq(Fragments) /\ Len(frags') <= 2 /\ indexed' \in {indexed, xN}
      BY <1>0, <1>12, <2>3, SyncedType DEF SidecarWrite, TypeInv, HandleTyped, OrderInv, handleVars
    <3>2. /\ step' \in {"meta", "ready", "pages", "bounds"} /\ dirty' \in {FALSE, dirty}
          /\ UNCHANGED <<batch, xN, yN, bounds, saved>>
      BY <1>12, <2>3 DEF SidecarWrite, Ok, Goto, handleVars
    <3>3. HandleTyped'
      BY <3>1, <3>2 DEF TypeInv, HandleTyped
    <3>4. OrderInv'
      BY <1>0, <3>1, <3>2 DEF OrderInv
    <3>. QED
      BY <2>1, <3>3, <3>4 DEF TypeInv
  <2>. QED
    BY <2>2, <2>3
<1>13. CASE RenamePages
  <2>1. OnDisk.cover \in Covers
    BY OnDiskType DEF Fragments
  <2>. QED
    BY <1>0, <1>13, <2>1 DEF RenamePages, Goto, TypeInv, DiskTyped, HandleTyped, OrderInv, FileOf
<1>14. CASE HeaderWrite
  <2>1. OnDisk.rows \in Nat
    BY OnDiskType DEF Fragments
  <2>. QED
    BY <1>0, <1>14, <2>1 DEF HeaderWrite, Goto, TypeInv, DiskTyped, HandleTyped, OrderInv, FileOf
<1>15. CASE Rollback
  <2>1. DiskTyped'
    BY <1>15 DEF Rollback, TypeInv, DiskTyped, HandleTyped, FileOf
  <2>2. CASE Gone
    BY <2>1, <2>2, GoneKeeps DEF TypeInv
  <2>3. CASE ~Gone
    <3>1. step' = "ready" /\ UNCHANGED <<batch, xN, yN, frags, indexed, dirty, bounds>>
      BY <1>15, <2>3 DEF Rollback, Goto
    <3>2. HandleTyped' /\ OrderInv'
      BY <1>0, <1>15, <3>1 DEF Rollback, TypeInv, HandleTyped, OrderInv
    <3>. QED
      BY <2>1, <3>2 DEF TypeInv
  <2>. QED
    BY <2>2, <2>3
<1>16. CASE MetaWrite
  <2>1. meta' \in Metadata /\ numObs' \in {numObs, xN} /\ step' \in {"bounds", "sidecar"}
        /\ op' # "flush"
    BY <1>16 DEF MetaWrite, Opening, Goto, ControlInv, TypeInv, HandleTyped, Metadata, Counts
  <2>2. frags' \in Seq(Fragments) /\ Len(frags') <= 2 /\ indexed' \in {indexed, xN}
    BY <1>0, <1>16, SyncedType DEF MetaWrite, ReopenSyncs, TypeInv, HandleTyped
  <2>3. DiskTyped'
    BY <1>16, <2>1 DEF MetaWrite, TypeInv, DiskTyped, HandleTyped, FileOf
  <2>4. HandleTyped' /\ OrderInv'
    BY <1>0, <1>16, <2>1, <2>2 DEF MetaWrite, TypeInv, HandleTyped, OrderInv
  <2>. QED
    BY <2>3, <2>4 DEF TypeInv
<1>17. CASE BoundsTruncate
  <2>1. meta \in Metadata
    BY <1>17 DEF BoundsTruncate, Readable, TypeInv, DiskTyped, FileOf
  <2>. QED
    BY <1>0, <1>17, <2>1 DEF BoundsTruncate, Goto, TypeInv, DiskTyped, HandleTyped,
       OrderInv, FileOf
<1>18. CASE BoundsWrite
  <2>1. meta' \in Metadata
    BY <1>18 DEF BoundsWrite, TypeInv, HandleTyped, Metadata
  <2>. QED
    BY <1>0, <1>18, <2>1 DEF BoundsWrite, Ok, Goto, TypeInv, DiskTyped, HandleTyped,
       OrderInv, FileOf
<1>19. CASE BoundsFail
  BY <1>0, <1>19 DEF BoundsFail, Goto, diskVars, TypeInv, DiskTyped, HandleTyped, OrderInv
<1>20. CASE UNCHANGED vars
  BY <1>20 DEF vars, diskVars, handleVars, TypeInv, DiskTyped, HandleTyped, OrderInv
<1>. QED
  BY <1>1, <1>2, <1>3, <1>4, <1>5, <1>6, <1>7, <1>8, <1>9, <1>10, <1>11, <1>12,
     <1>13, <1>14, <1>15, <1>16, <1>17, <1>18, <1>19, <1>20
     DEF Next, OpenStep, AddStep, SyncStep, PersistStep

----------------------------------------------------------------------------
(* Rows                                                                    *)

LEMMA CountsAsLoaded ==
    ASSUME TypeInv, step # "bounds_write", NEW n \in Nat
    PROVE  CountsUpTo(n) <=> LoadNumObs <= n
<1>1. numObs \in Nat /\ (Readable(meta) => meta.obs \in Nat)
  BY CountsAreNumbers DEF TypeInv, DiskTyped, FileOf, Readable, Metadata
<1>. QED
  BY <1>1 DEF CountsUpTo, LoadNumObs

\* A step that leaves the rows as they are and raises no count.
LEMMA RowsKept ==
    ASSUME TypeInv, OrderInv, RowsInv,
           UNCHANGED <<xs, ys, numObs, acked, mixed>>,
           \A n \in Nat : CountsUpTo(n) => CountsUpTo(n)',
           step' # "append_y",
           \/ step' = "closed"
           \/ step # "closed" /\ step # "append_y" /\ xN' = xN /\ yN' = yN,
           step' \in {"sidecar", "sidecar_write"} /\ op' \in {"add", "resync"} => numObs = xN',
           step' \in {"bounds", "bounds_write"} /\ op' = "open" => numObs = xN'
    PROVE  RowsInv'
<1>1. xN \in Nat /\ yN \in Nat /\ Slots \subseteq Nat
  BY CountsAreNumbers DEF TypeInv, HandleTyped, Slots
<1>2. \A i \in Slots : i - 1 \in Nat
  BY DEF Slots
<1>3. \A i : Whole(i)' <=> Whole(i)
  BY DEF Whole
<1>4. step' # "closed" => Aligned'
  <2> SUFFICES ASSUME step' # "closed" PROVE Aligned'
    OBVIOUS
  <2>1. xN' = xN /\ yN' = yN /\ step # "append_y" /\ Aligned
    BY DEF RowsInv
  <2>. QED
    BY <1>3, <2>1 DEF Aligned
<1>5. step' # "closed" => CountsUpTo(xN)' /\ (~mixed => CountsUpTo(yN)') /\ xN' = xN /\ yN' = yN
  BY <1>1 DEF RowsInv
<1>6. ~mixed => \A i \in Slots : ~CountsUpTo(i - 1)' => Whole(i)'
  BY <1>2, <1>3 DEF RowsInv
<1>. QED
  BY <1>4, <1>5, <1>6 DEF RowsInv

\* Opening writes rows only where none is counted.
LEMMA OpenRowsStep ==
    ASSUME TypeInv, RowsInv, NEW request \in {"none", "bounded"},
           NEW b \in Batches \cup {<<>>}, Open(request, b)
    PROVE  RowsInv'
<1> DEFINE n == LoadNumObs
           f == Fresh(b)
<1>1. b \in Seq(Row) /\ Len(b) <= MaxBatch
  BY BatchType
<1>2. /\ n \in Nat /\ f \in Seq(Row) /\ OpenRows(b) \in Counts
      /\ n <= OpenRows(b) /\ OpenRows(b) = n + Len(f) /\ numObs <= n /\ numObs \in Nat
  BY <1>1, LoadedCounts, CountsAreNumbers DEF TypeInv, DiskTyped
<1>3. n = 0 \/ f = <<>>
  BY DEF Fresh
<1>4. /\ step = "closed" /\ step' \in {"sidecar", "meta"} /\ op' \in {"open", "reopen"}
      /\ xs' = Written(xs, n, f) /\ ys' = Written(ys, n, f)
      /\ xN' = OpenRows(b) /\ yN' = OpenRows(b)
      /\ UNCHANGED <<numObs, meta, acked, mixed>>
  BY DEF Open, OpenAs, StoreFresh, Goto, ghostVars
<1> HIDE DEF n, f
<1>5. /\ \A i \in 1..n : i \in Slots => xs'[i] = xs[i] /\ ys'[i] = ys[i]
      /\ \A j \in 1..Len(f) : n + j \in Slots => xs'[n + j] = f[j] /\ ys'[n + j] = f[j]
  BY <1>2, <1>4, WrittenType DEF TypeInv, DiskTyped
<1>6. MaxRows \in Nat /\ OpenRows(b) <= MaxRows /\ OpenRows(b) \in Nat
  BY <1>2, CountsAreNumbers
<1>7. \A m \in Nat : (CountsUpTo(m) <=> n <= m) /\ (CountsUpTo(m)' <=> n <= m)
  <2>1. \A m \in Nat : CountsUpTo(m) <=> n <= m
    BY <1>4, CountsAsLoaded DEF n
  <2>2. \A m \in Nat : CountsUpTo(m) <=> CountsUpTo(m)'
    BY <1>4 DEF CountsUpTo
  <2>. QED
    BY <2>1, <2>2
<1>8. ~mixed => \A i \in 1..n : i \in Slots => Whole(i)'
  <2> SUFFICES ASSUME ~mixed, NEW i \in 1..n, i \in Slots PROVE Whole(i)'
    OBVIOUS
  <2>1. i - 1 \in Nat /\ ~(n <= i - 1)
    BY <1>2
  <2>2. Whole(i)
    BY <1>7, <2>1 DEF RowsInv
  <2>. QED
    BY <1>5, <2>2 DEF Whole
<1>9. \A i \in (n + 1)..(n + Len(f)) : i \in Slots => Whole(i)'
  <2> SUFFICES ASSUME NEW i \in (n + 1)..(n + Len(f)), i \in Slots PROVE Whole(i)'
    OBVIOUS
  <2>1. i - n \in 1..Len(f) /\ n + (i - n) = i
    BY <1>2
  <2>2. xs'[i] = f[i - n] /\ ys'[i] = f[i - n] /\ f[i - n] \in Row
    BY <1>2, <1>5, <2>1
  <2>. QED
    BY <2>2, SentinelAssumption DEF Whole
<1>10. Aligned'
  <2>1. ~mixed => \A i \in 1..OpenRows(b) : Whole(i)'
    BY <1>2, <1>6, <1>8, <1>9 DEF Slots
  <2>. QED
    BY <1>4, <2>1 DEF Aligned
<1>11. CountsUpTo(xN)' /\ CountsUpTo(yN)'
  <2>1. CountsUpTo(OpenRows(b))
    BY <1>2, <1>6, <1>7
  <2>. QED
    BY <1>4, <2>1 DEF CountsUpTo
<1>12. ~mixed => \A i \in Slots : ~CountsUpTo(i - 1)' => Whole(i)'
  <2>1. \A i \in Slots : i - 1 \in Nat /\ i \in Nat /\ i >= 1
    BY DEF Slots
  <2>2. \A i \in Slots : ~CountsUpTo(i - 1)' => i \in 1..n
    BY <1>2, <1>7, <2>1
  <2>. QED
    BY <1>8, <2>2
<1>13. ~mixed => /\ acked' \in Seq((Row \cup {NoRow}) \X (Row \cup {NoRow}))
                 /\ Len(acked') <= numObs'
                 /\ \A i \in 1..Len(acked') : acked'[i] = <<xs'[i], ys'[i]>>
  <2> SUFFICES ASSUME ~mixed
               PROVE  /\ acked \in Seq((Row \cup {NoRow}) \X (Row \cup {NoRow}))
                      /\ Len(acked) <= numObs
                      /\ \A i \in 1..Len(acked) : acked[i] = <<xs'[i], ys'[i]>>
    BY <1>4
  <2>1. /\ acked \in Seq((Row \cup {NoRow}) \X (Row \cup {NoRow})) /\ Len(acked) <= numObs
        /\ \A i \in 1..Len(acked) : acked[i] = <<xs[i], ys[i]>>
    BY DEF RowsInv
  <2>2. Len(acked) \in Nat
    BY <2>1
  <2>3. \A i \in 1..Len(acked) : i \in 1..n /\ i \in Slots
    BY <1>2, <1>6, <2>1, <2>2 DEF Slots
  <2>. QED
    BY <1>5, <2>1, <2>3
<1>. QED
  BY <1>4, <1>10, <1>11, <1>12, <1>13 DEF RowsInv

\* A refused open writes rows only if none is counted at all.
LEMMA OpenRefusedRowsStep ==
    ASSUME TypeInv, RowsInv, NEW request \in {"none", "bounded"},
           NEW b \in Batches \cup {<<>>}, OpenRefused(request, b)
    PROVE  RowsInv'
<1>1. b \in Seq(Row) /\ Len(b) <= MaxBatch
  BY BatchType
<1>2. /\ LoadNumObs \in Nat /\ numObs <= LoadNumObs /\ numObs \in Nat
      /\ Fresh(b) \in Seq(Row) /\ LoadNumObs <= MaxRows
  BY <1>1, LoadedCounts, CountsAreNumbers DEF TypeInv, DiskTyped
<1>3. /\ step = "closed" /\ step' = "closed"
      /\ UNCHANGED <<numObs, meta, acked, mixed, step, op, xN, yN, batch, saved>>
      /\ \/ UNCHANGED <<xs, ys>>
         \/ xs' = Written(xs, LoadNumObs, Fresh(b)) /\ ys' = Written(ys, LoadNumObs, Fresh(b))
  BY DEF OpenRefused, StoreFresh, ghostVars, handleVars
<1>4. \A i \in 1..LoadNumObs : i \in Slots => xs'[i] = xs[i] /\ ys'[i] = ys[i]
  <2>1. CASE UNCHANGED <<xs, ys>>
    BY <2>1
  <2>2. CASE xs' = Written(xs, LoadNumObs, Fresh(b)) /\ ys' = Written(ys, LoadNumObs, Fresh(b))
    BY <1>2, <2>2, WrittenType DEF TypeInv, DiskTyped
  <2>. QED
    BY <1>3, <2>1, <2>2
<1>5. \A m \in Nat : (CountsUpTo(m) <=> LoadNumObs <= m) /\ (CountsUpTo(m) <=> CountsUpTo(m)')
  <2>1. \A m \in Nat : CountsUpTo(m) <=> LoadNumObs <= m
    BY <1>3, CountsAsLoaded
  <2>2. \A m \in Nat : CountsUpTo(m) <=> CountsUpTo(m)'
    BY <1>3 DEF CountsUpTo
  <2>. QED
    BY <2>1, <2>2
<1>6. ~mixed => \A i \in Slots : ~CountsUpTo(i - 1)' => Whole(i)'
  <2> SUFFICES ASSUME ~mixed, NEW i \in Slots, ~CountsUpTo(i - 1)' PROVE Whole(i)'
    OBVIOUS
  <2>1. i - 1 \in Nat
    BY DEF Slots
  <2>2. Whole(i) /\ i \in 1..LoadNumObs
    BY <1>2, <1>5, <2>1 DEF RowsInv, Slots
  <2>. QED
    BY <1>4, <2>2 DEF Whole
<1>7. ~mixed => \A i \in 1..Len(acked) : acked[i] = <<xs'[i], ys'[i]>>
  <2> SUFFICES ASSUME ~mixed, NEW i \in 1..Len(acked) PROVE acked[i] = <<xs'[i], ys'[i]>>
    OBVIOUS
  <2>1. Len(acked) \in Nat /\ Len(acked) <= numObs /\ acked[i] = <<xs[i], ys[i]>>
    BY DEF RowsInv
  <2>2. i \in 1..LoadNumObs /\ i \in Slots
    BY <1>2, <2>1, CountsAreNumbers DEF Slots
  <2>. QED
    BY <1>4, <2>1, <2>2
<1>. QED
  BY <1>3, <1>6, <1>7 DEF RowsInv

\* x is appended behind every row that is counted.
LEMMA AppendXRowsStep ==
    ASSUME TypeInv, OrderInv, ControlInv, RowsInv, NEW b \in Batches, AppendX(b)
    PROVE  RowsInv'
<1>1. b \in Seq(Row) /\ Len(b) \in Nat
  BY BatchType
<1>2. /\ xN \in Nat /\ yN \in Nat /\ yN <= xN /\ MaxRows \in Nat
  BY CountsAreNumbers DEF AppendX, TypeInv, HandleTyped, OrderInv
<1>3. /\ step = "ready" /\ step' = "append_y" /\ xN + Len(b) <= MaxRows
      /\ xs' = Written(xs, xN, b) /\ xN' = xN + Len(b) /\ batch' = b
      /\ UNCHANGED <<ys, yN, numObs, meta, acked, mixed>>
  BY DEF AppendX, Goto, ghostVars
<1>4. /\ \A i \in 1..xN : i \in Slots => xs'[i] = xs[i]
      /\ \A j \in 1..Len(b) : xN + j \in Slots => xs'[xN + j] = b[j]
  BY <1>1, <1>2, <1>3, WrittenType DEF TypeInv, DiskTyped
<1>5. \A i \in 1..xN : i \in Slots
  BY <1>1, <1>2, <1>3 DEF Slots
<1>6. \A i \in 1..xN : Whole(i) => Whole(i)'
  BY <1>3, <1>4, <1>5 DEF Whole
<1>7. Aligned'
  <2>1. xN' - Len(b) = xN
    BY <1>1, <1>2, <1>3
  <2>2. \A j \in 1..Len(b) : xs'[xN + j] = b[j]
    <3>1. \A j \in 1..Len(b) : xN + j \in Slots
      BY <1>1, <1>2, <1>3 DEF Slots
    <3>. QED
      BY <1>4, <3>1, Zenon
  <2>3. ~mixed /\ yN + Len(b) = xN' => \A i \in 1..yN : Whole(i)'
    <3>1. Aligned
      BY <1>3 DEF RowsInv
    <3>. QED
      BY <1>1, <1>2, <1>3, <1>6, <3>1 DEF Aligned
  <2>. QED
    BY <1>3, <2>1, <2>2, <2>3 DEF Aligned
<1>8. \A m \in Nat : CountsUpTo(m) <=> CountsUpTo(m)'
  BY <1>3 DEF CountsUpTo
<1>9. CountsUpTo(xN) /\ (~mixed => CountsUpTo(yN))
  BY <1>3 DEF RowsInv
<1>10. CountsUpTo(xN)' /\ (~mixed => CountsUpTo(yN)')
  <2>1. numObs \in Nat /\ (Readable(meta) => meta.obs \in Nat)
    BY CountsAreNumbers DEF TypeInv, DiskTyped, FileOf, Readable, Metadata
  <2>. QED
    BY <1>1, <1>2, <1>3, <1>9, <2>1 DEF CountsUpTo
<1>11. ~mixed => \A i \in Slots : ~CountsUpTo(i - 1)' => Whole(i)'
  <2> SUFFICES ASSUME ~mixed, NEW i \in Slots, ~CountsUpTo(i - 1)' PROVE Whole(i)'
    OBVIOUS
  <2>1. i - 1 \in Nat /\ i \in Nat /\ i >= 1
    BY DEF Slots
  <2>2. Whole(i) /\ ~CountsUpTo(i - 1)
    BY <1>8, <2>1 DEF RowsInv
  <2>3. i \in 1..xN
    <3>1. numObs \in Nat /\ (Readable(meta) => meta.obs \in Nat)
      BY CountsAreNumbers DEF TypeInv, DiskTyped, FileOf, Readable, Metadata
    <3>. QED
      BY <1>2, <1>3, <1>9, <2>1, <2>2, <3>1 DEF CountsUpTo
  <2>. QED
    BY <1>6, <2>2, <2>3
<1>12. ~mixed => \A i \in 1..Len(acked) : acked[i] = <<xs'[i], ys'[i]>>
  <2> SUFFICES ASSUME ~mixed, NEW i \in 1..Len(acked) PROVE acked[i] = <<xs'[i], ys'[i]>>
    OBVIOUS
  <2>1. Len(acked) \in Nat /\ Len(acked) <= numObs /\ acked[i] = <<xs[i], ys[i]>>
    BY DEF RowsInv
  <2>2. i \in 1..xN
    BY <1>2, <1>9, <2>1, CountsAreNumbers DEF CountsUpTo, TypeInv, DiskTyped
  <2>. QED
    BY <1>3, <1>4, <1>5, <2>1, <2>2
<1>. QED
  BY <1>3, <1>7, <1>10, <1>11, <1>12 DEF RowsInv

\* y is appended behind every row that is counted, too; the rows of the batch
\* are whole if it goes where x went.
LEMMA AppendYRowsStep ==
    ASSUME TypeInv, OrderInv, ControlInv, RowsInv, AppendY
    PROVE  RowsInv'
<1>1. /\ xN \in Nat /\ yN \in Nat /\ batch \in Seq(Row) /\ Len(batch) \in Nat
      /\ yN + Len(batch) <= xN /\ MaxRows \in Nat /\ xN <= MaxRows
  BY CountsAreNumbers DEF AppendY, TypeInv, HandleTyped, OrderInv
<1>2. /\ step = "append_y" /\ step' = "commit" /\ op = "add"
      /\ ys' = Written(ys, yN, batch) /\ yN' = yN + Len(batch)
      /\ UNCHANGED <<xs, xN, numObs, meta, acked, mixed>>
  BY DEF AppendY, Goto, ghostVars, ControlInv
<1>3. /\ \A i \in 1..yN : i \in Slots => ys'[i] = ys[i]
      /\ \A j \in 1..Len(batch) : yN + j \in Slots => ys'[yN + j] = batch[j]
  BY <1>1, <1>2, WrittenType DEF TypeInv, DiskTyped
<1>4. \A i \in 1..xN : i \in Slots
  BY <1>1 DEF Slots
<1>5. \A i \in 1..yN : Whole(i) => Whole(i)'
  BY <1>1, <1>2, <1>3, <1>4 DEF Whole
<1>6. Aligned'
  <2> SUFFICES ASSUME ~mixed, yN + Len(batch) = xN, NEW i \in 1..xN PROVE Whole(i)'
    BY <1>2 DEF Aligned
  <2>1. /\ \A j \in 1..Len(batch) : xs[xN - Len(batch) + j] = batch[j]
        /\ \A k \in 1..yN : Whole(k)
    BY <1>2 DEF RowsInv, Aligned
  <2>2. CASE i \in 1..yN
    BY <1>5, <2>1, <2>2
  <2>3. CASE i \in (yN + 1)..xN
    <3> DEFINE j == i - yN
    <3>1. j \in 1..Len(batch) /\ yN + j = i /\ xN - Len(batch) + j = i
      BY <1>1, <2>3
    <3> HIDE DEF j
    <3>2. xs[xN - Len(batch) + j] = batch[j] /\ i \in Slots
      BY <1>4, <2>1, <3>1
    <3>3. yN + j \in Slots
      BY <3>1, <3>2
    <3>4. ys'[yN + j] = batch[j]
      BY <1>3, <3>1, <3>3, Zenon
    <3>5. batch[j] \in Row
      BY <1>1, <3>1
    <3>6. xs[i] = batch[j] /\ ys'[i] = batch[j]
      BY <3>1, <3>2, <3>4
    <3>. QED
      BY <1>2, <3>5, <3>6, SentinelAssumption DEF Whole
  <2>. QED
    BY <1>1, <2>2, <2>3
<1>7. \A m \in Nat : CountsUpTo(m) <=> CountsUpTo(m)'
  BY <1>2 DEF CountsUpTo
<1>8. CountsUpTo(xN) /\ (~mixed => CountsUpTo(yN))
  BY <1>2 DEF RowsInv
<1>9. numObs \in Nat /\ (Readable(meta) => meta.obs \in Nat)
  BY CountsAreNumbers DEF TypeInv, DiskTyped, FileOf, Readable, Metadata
<1>10. CountsUpTo(xN)' /\ (~mixed => CountsUpTo(yN)')
  BY <1>1, <1>2, <1>8, <1>9 DEF CountsUpTo
<1>11. ~mixed => \A i \in Slots : ~CountsUpTo(i - 1)' => Whole(i)'
  <2> SUFFICES ASSUME ~mixed, NEW i \in Slots, ~CountsUpTo(i - 1)' PROVE Whole(i)'
    OBVIOUS
  <2>1. i - 1 \in Nat /\ i \in Nat /\ i >= 1
    BY DEF Slots
  <2>2. Whole(i) /\ ~CountsUpTo(i - 1)
    BY <1>7, <2>1 DEF RowsInv
  <2>3. i \in 1..yN
    BY <1>1, <1>2, <1>8, <1>9, <2>1, <2>2 DEF CountsUpTo
  <2>. QED
    BY <1>5, <2>2, <2>3
<1>12. ~mixed => \A i \in 1..Len(acked) : acked[i] = <<xs'[i], ys'[i]>>
  <2> SUFFICES ASSUME ~mixed, NEW i \in 1..Len(acked) PROVE acked[i] = <<xs'[i], ys'[i]>>
    OBVIOUS
  <2>1. Len(acked) \in Nat /\ Len(acked) <= numObs /\ acked[i] = <<xs[i], ys[i]>>
    BY DEF RowsInv
  <2>2. i \in 1..yN /\ i \in Slots
    BY <1>1, <1>4, <1>8, <1>9, <2>1 DEF CountsUpTo
  <2>. QED
    BY <1>2, <1>3, <2>1, <2>2
<1>. QED
  BY <1>2, <1>6, <1>10, <1>11, <1>12 DEF RowsInv

\* What has been served so far, as rows.
LEMMA ServedRows ==
    ASSUME TypeInv, NEW n \in Counts
    PROVE  LET r == [i \in 1..n |-> <<xs[i], ys[i]>>]
           IN  /\ r \in Seq((Row \cup {NoRow}) \X (Row \cup {NoRow}))
               /\ Len(r) = n /\ \A i \in 1..n : r[i] = <<xs[i], ys[i]>>
<1> DEFINE r == [i \in 1..n |-> <<xs[i], ys[i]>>]
           R == (Row \cup {NoRow}) \X (Row \cup {NoRow})
<1>1. n \in Nat /\ \A i \in 1..n : i \in Slots
  BY CountsAreNumbers DEF Slots
<1>2. \A i \in 1..n : <<xs[i], ys[i]>> \in R
  BY <1>1 DEF TypeInv, DiskTyped, Stores
<1>3. r \in [1..n -> R] /\ \A i \in 1..n : r[i] = <<xs[i], ys[i]>>
  BY <1>2
<1> HIDE DEF r, R
<1>4. r \in Seq(R) /\ Len(r) = n
  BY <1>1, <1>3
<1>. QED
  BY <1>3, <1>4 DEF r, R

\* A count that is written is that of a handle whose rows are all whole, or
\* covers an x without its y and is noted as such.
LEMMA CountRowsStep ==
    ASSUME TypeInv, OrderInv, RowsInv,
           step \in {"commit", "meta_write"}, step' # "append_y",
           step' \in {"sidecar", "sidecar_write"} /\ op' \in {"add", "resync"} => numObs' = xN,
           step' \in {"bounds", "bounds_write"} /\ op' = "open" => numObs' = xN,
           step' # "bounds_write", CountWritten,
           UNCHANGED <<xs, ys, xN, yN>>,
           numObs' \in {numObs, xN},
           meta' = meta \/ (meta' \in Metadata /\ meta'.obs = xN),
           \/ acked' = acked
           \/ numObs' = xN /\ acked' = [i \in 1..xN |-> <<xs[i], ys[i]>>]
    PROVE  RowsInv'
<1>1. xN \in Nat /\ yN \in Nat /\ xN \in Counts /\ yN <= xN /\ numObs \in Nat
  BY CountsAreNumbers DEF TypeInv, DiskTyped, HandleTyped, OrderInv
<1>2. step # "closed" /\ step # "append_y" /\ step # "bounds_write"
  OBVIOUS
<1>3. CountsUpTo(xN) /\ numObs <= xN
  BY <1>2 DEF RowsInv, CountsUpTo
<1>4. CountsUpTo(xN)'
  BY <1>1, <1>3 DEF CountsUpTo
<1>5. ~mixed' => ~mixed /\ xN = yN /\ \A i \in 1..xN : Whole(i)'
  <2> SUFFICES ASSUME ~mixed' PROVE ~mixed /\ xN = yN /\ \A i \in 1..xN : Whole(i)'
    OBVIOUS
  <2>1. ~mixed /\ xN = yN
    BY DEF CountWritten
  <2>2. \A i \in 1..xN : Whole(i)
    BY <1>2, <2>1 DEF RowsInv, Aligned
  <2>. QED
    BY <2>1, <2>2 DEF Whole
<1>6. Aligned'
  BY <1>5 DEF Aligned
<1>7. ~mixed' => CountsUpTo(yN)'
  BY <1>4, <1>5 DEF CountsUpTo
<1>8. ~mixed' => \A i \in Slots : ~CountsUpTo(i - 1)' => Whole(i)'
  <2> SUFFICES ASSUME ~mixed', NEW i \in Slots, ~CountsUpTo(i - 1)' PROVE Whole(i)'
    OBVIOUS
  <2>1. i - 1 \in Nat /\ i \in Nat /\ i >= 1
    BY DEF Slots
  <2>2. ~(xN <= i - 1)
    <3>1. numObs' \in Nat /\ (Readable(meta') => meta'.obs \in Nat /\ meta'.obs <= xN) /\ numObs' <= xN
      BY <1>1, <1>3, CountsAreNumbers DEF CountsUpTo, TypeInv, DiskTyped, FileOf, Readable, Metadata
    <3>. QED
      BY <1>1, <2>1, <3>1 DEF CountsUpTo
  <2>. QED
    BY <1>1, <1>5, <2>1, <2>2
<1>9. ~mixed' => /\ acked' \in Seq((Row \cup {NoRow}) \X (Row \cup {NoRow}))
                 /\ Len(acked') <= numObs'
                 /\ \A i \in 1..Len(acked') : acked'[i] = <<xs'[i], ys'[i]>>
  <2>1. CASE acked' = acked
    <3> SUFFICES ASSUME ~mixed'
                 PROVE  /\ acked \in Seq((Row \cup {NoRow}) \X (Row \cup {NoRow}))
                        /\ Len(acked) <= numObs'
                        /\ \A i \in 1..Len(acked) : acked[i] = <<xs[i], ys[i]>>
      BY <2>1
    <3>1. /\ acked \in Seq((Row \cup {NoRow}) \X (Row \cup {NoRow})) /\ Len(acked) <= numObs
          /\ \A i \in 1..Len(acked) : acked[i] = <<xs[i], ys[i]>>
      BY <1>5 DEF RowsInv
    <3>2. Len(acked) \in Nat
      BY <3>1
    <3>. QED
      BY <1>1, <1>3, <3>1, <3>2
  <2>2. CASE numObs' = xN /\ acked' = [i \in 1..xN |-> <<xs[i], ys[i]>>]
    BY <1>1, <2>2, ServedRows
  <2>. QED
    BY <2>1, <2>2
<1>. QED
  BY <1>4, <1>6, <1>7, <1>8, <1>9 DEF RowsInv

\* A call that returns Ok acknowledges the rows num_obs.bin counts.
LEMMA OkRowsStep ==
    ASSUME TypeInv, OrderInv, RowsInv, numObs = xN, step # "closed", step # "append_y",
           step' = "ready", UNCHANGED <<xs, ys, numObs, mixed, xN, yN>>,
           \A n \in Nat : CountsUpTo(n) => CountsUpTo(n)',
           acked' = [i \in 1..xN |-> <<xs[i], ys[i]>>]
    PROVE  RowsInv'
<1>1. xN \in Counts /\ xN \in Nat /\ yN \in Nat
  BY CountsAreNumbers DEF TypeInv, HandleTyped
<1>2. \A i \in Slots : i - 1 \in Nat
  BY DEF Slots
<1>3. \A i : Whole(i)' <=> Whole(i)
  BY DEF Whole
<1>4. Aligned'
  <2>1. Aligned
    BY DEF RowsInv
  <2>. QED
    BY <1>3, <2>1 DEF Aligned
<1>5. CountsUpTo(xN)' /\ (~mixed => CountsUpTo(yN)')
  BY <1>1 DEF RowsInv
<1>6. ~mixed => \A i \in Slots : ~CountsUpTo(i - 1)' => Whole(i)'
  BY <1>2, <1>3 DEF RowsInv
<1>7. /\ acked' \in Seq((Row \cup {NoRow}) \X (Row \cup {NoRow}))
      /\ Len(acked') = xN
      /\ \A i \in 1..xN : acked'[i] = <<xs'[i], ys'[i]>>
  BY <1>1, ServedRows
<1>. QED
  BY <1>1, <1>4, <1>5, <1>6, <1>7 DEF RowsInv
LEMMA RowsStep == TypeInv /\ OrderInv /\ ControlInv /\ RowsInv /\ [Next]_vars => RowsInv'
<1> SUFFICES ASSUME TypeInv, OrderInv, ControlInv, RowsInv, [Next]_vars
             PROVE  RowsInv'
  OBVIOUS
<1>1. ASSUME NEW request \in {"none", "bounded"}, NEW b \in Batches \cup {<<>>},
             Open(request, b) \/ OpenRefused(request, b)
      PROVE  RowsInv'
  BY <1>1, OpenRowsStep, OpenRefusedRowsStep
<1>2. ASSUME NEW b \in Batches, AppendX(b) PROVE RowsInv'
  BY <1>2, AppendXRowsStep
<1>3. CASE AppendY
  BY <1>3, AppendYRowsStep
<1>4. CASE AppendFails
  <2>1. /\ step \in {"append_y", "commit"} /\ step' = "ready"
        /\ UNCHANGED <<xs, ys, numObs, meta, acked, mixed, xN, yN>>
    BY <1>4 DEF AppendFails, Err, Opening, Dropping, Goto, ControlInv, diskVars
  <2>2. \A n \in Nat : CountsUpTo(n) => CountsUpTo(n)'
    BY <2>1 DEF CountsUpTo
  <2>3. CASE step = "commit"
    BY <2>1, <2>2, <2>3, RowsKept
  <2>4. CASE step = "append_y"
    <3>1. xN \in Nat /\ yN \in Nat /\ Len(batch) \in Nat /\ yN + Len(batch) <= xN
      BY <2>4, CountsAreNumbers DEF TypeInv, HandleTyped, OrderInv
    <3>2. Aligned /\ CountsUpTo(xN) /\ (~mixed => CountsUpTo(yN))
      BY <2>4 DEF RowsInv
    <3>3. \A i : Whole(i)' <=> Whole(i)
      BY <2>1 DEF Whole
    <3>4. Aligned'
      BY <2>1, <2>4, <3>1, <3>2, <3>3 DEF Aligned
    <3>5. CountsUpTo(xN)' /\ (~mixed => CountsUpTo(yN)')
      BY <2>1, <3>2 DEF CountsUpTo
    <3>6. \A m \in Nat : CountsUpTo(m) <=> CountsUpTo(m)'
      BY <2>1, <2>4 DEF CountsUpTo
    <3>7. ~mixed => \A i \in Slots : ~CountsUpTo(i - 1)' => Whole(i)'
      <4>1. \A i \in Slots : i - 1 \in Nat
        BY DEF Slots
      <4>. QED
        BY <3>3, <3>6, <4>1 DEF RowsInv
    <3>. QED
      BY <2>1, <3>4, <3>5, <3>7 DEF RowsInv
  <2>. QED
    BY <2>1, <2>3, <2>4
<1>5. CASE Commit
  <2>1. op = "add"
    BY <1>5 DEF Commit, ControlInv
  <2>2. /\ step = "commit" /\ step' \in {"ready", "sidecar"} /\ numObs' = xN /\ CountWritten
        /\ UNCHANGED <<xs, ys, xN, yN, meta>>
        /\ \/ acked' = acked
           \/ acked' = [i \in 1..xN |-> <<xs[i], ys[i]>>]
    BY <1>5, <2>1 DEF Commit, Ok, Goto
  <2>3. /\ step \in {"commit", "meta_write"} /\ step' # "append_y" /\ step' # "bounds_write"
        /\ step' \in {"sidecar", "sidecar_write"} /\ op' \in {"add", "resync"} => numObs' = xN
        /\ step' \in {"bounds", "bounds_write"} /\ op' = "open" => numObs' = xN
        /\ numObs' \in {numObs, xN}
        /\ meta' = meta \/ (meta' \in Metadata /\ meta'.obs = xN)
        /\ CountWritten /\ UNCHANGED <<xs, ys, xN, yN>>
    BY <2>2
  <2>4. \/ acked' = acked
        \/ numObs' = xN /\ acked' = [i \in 1..xN |-> <<xs[i], ys[i]>>]
    BY <2>2, Zenon
  <2>. QED
    BY <2>3, <2>4, CountRowsStep
<1>6. CASE MetaWrite
  <2>1. /\ step = "meta_write" /\ step' \in {"bounds", "sidecar"}
        /\ op' \in {"open", "resync", "persist_end", "drop_end"} /\ CountWritten
        /\ op' \in {"open", "resync"} => numObs' = xN
        /\ numObs' \in {numObs, xN}
        /\ UNCHANGED <<xs, ys, xN, yN, acked>>
    BY <1>6 DEF MetaWrite, Opening, Goto, ControlInv
  <2>2. meta' \in Metadata /\ meta'.obs = xN
    BY <1>6 DEF MetaWrite, TypeInv, HandleTyped, Metadata, Counts
  <2>. QED
    BY <2>1, <2>2, CountRowsStep
<1>7. CASE SidecarWrite
  <2>1. /\ step = "sidecar_write" /\ step' \in {"meta", "ready", "pages", "bounds", "closed"}
        /\ step' = "bounds" => op' = "persist_end" \/ op = "resync"
        /\ step' # "closed" => UNCHANGED <<xN, yN>>
        /\ UNCHANGED <<xs, ys, numObs, meta, mixed>>
    BY <1>7 DEF SidecarWrite, Opening, Ok, Gone, Goto, handleVars
  <2>2. \A n \in Nat : CountsUpTo(n) => CountsUpTo(n)'
    BY <2>1 DEF CountsUpTo
  <2>3. CASE op = "add"
    <3>1. /\ step' = "ready" /\ acked' = [i \in 1..xN |-> <<xs[i], ys[i]>>]
          /\ UNCHANGED <<xN, yN>> /\ numObs = xN
      BY <1>7, <2>3 DEF SidecarWrite, Opening, Ok, Goto, handleVars, RowsInv
    <3>. QED
      BY <2>1, <2>2, <3>1, OkRowsStep
  <2>4. CASE op # "add"
    <3>1. acked' = acked
      BY <1>7, <2>4 DEF SidecarWrite, Opening, Ok
    <3>2. step' \in {"bounds", "bounds_write"} /\ op' = "open" => numObs = xN'
      BY <2>1 DEF RowsInv
    <3>. QED
      BY <2>1, <2>2, <3>1, <3>2, RowsKept
  <2>. QED
    BY <2>3, <2>4
<1>8. CASE BoundsWrite
  <2>1. /\ step = "bounds_write" /\ step' = "ready" /\ op \in {"open", "persist_end"}
        /\ meta' = [saved EXCEPT !.bounds = bounds]
        /\ UNCHANGED <<xs, ys, numObs, mixed, xN, yN>>
    BY <1>8 DEF BoundsWrite, Ok, Goto, ControlInv
  <2>2. meta'.obs = saved.obs
    BY <2>1 DEF TypeInv, HandleTyped, Metadata
  <2>3. \A n \in Nat : CountsUpTo(n) => CountsUpTo(n)'
    BY <2>1, <2>2 DEF CountsUpTo
  <2>4. CASE op = "open"
    <3>1. acked' = [i \in 1..xN |-> <<xs[i], ys[i]>>] /\ numObs = xN
      BY <1>8, <2>1, <2>4 DEF BoundsWrite, Ok, RowsInv
    <3>. QED
      BY <2>1, <2>3, <3>1, OkRowsStep
  <2>5. CASE op # "open"
    <3>1. acked' = acked
      BY <1>8, <2>1, <2>5 DEF BoundsWrite, Ok
    <3>. QED
      BY <2>1, <2>3, <3>1, RowsKept
  <2>. QED
    BY <2>4, <2>5
<1>9. CASE BoundsTruncate
  <2>1. /\ step = "bounds" /\ step' = "bounds_write" /\ op' = op
        /\ Readable(meta) /\ saved' = meta /\ meta' = Torn
        /\ UNCHANGED <<xs, ys, numObs, acked, mixed, xN, yN>>
    BY <1>9 DEF BoundsTruncate, Goto, ghostVars
  <2>2. \A n \in Nat : CountsUpTo(n) => CountsUpTo(n)'
    BY <2>1 DEF CountsUpTo, Readable
  <2>3. op' = "open" => numObs = xN'
    BY <2>1 DEF RowsInv
  <2>. QED
    BY <2>1, <2>2, <2>3, RowsKept
<1>10. CASE MetaTruncate
  <2>1. /\ step = "meta" /\ step' = "meta_write" /\ meta' = Torn
        /\ UNCHANGED <<xs, ys, numObs, acked, mixed, xN, yN>>
    BY <1>10 DEF MetaTruncate, Goto, ghostVars, handleVars
  <2>2. \A n \in Nat : CountsUpTo(n) => CountsUpTo(n)'
    BY <2>1 DEF CountsUpTo, Readable
  <2>. QED
    BY <2>1, <2>2, RowsKept
<1>11. CASE \/ Sync \/ Flush \/ SidecarTruncate \/ SidecarFails
            \/ Persist \/ DropAlone \/ PersistStart
            \/ RenamePages \/ HeaderTruncate \/ HeaderWrite \/ PagesFail \/ HeaderFails
            \/ Rollback \/ MetaFails \/ BoundsFail \/ Crash
  <2>1. UNCHANGED <<xs, ys, numObs, meta, acked, mixed>>
    BY <1>11 DEF Sync, Flush, SidecarTruncate, SidecarFails, Persist, DropAlone, PersistStart,
       RenamePages, HeaderTruncate, HeaderWrite, PagesFail, HeaderFails, Rollback, MetaFails,
       BoundsFail, Crash, diskVars, ghostVars
  <2>2. /\ step' # "append_y" /\ step' # "bounds_write"
        /\ step' = "closed" \/ (step # "closed" /\ step # "append_y")
    BY <1>11 DEF Sync, Flush, SidecarTruncate, SidecarFails, Persist, DropAlone, PersistStart,
       RenamePages, HeaderTruncate, HeaderWrite, PagesFail, HeaderFails, Rollback, MetaFails,
       BoundsFail, Crash, Err, Gone, Goto
  <2>3. \A n \in Nat : CountsUpTo(n) => CountsUpTo(n)'
    BY <2>1, <2>2 DEF CountsUpTo
  <2>4. step' # "closed" => UNCHANGED <<xN, yN>>
    BY <1>11 DEF Sync, Flush, SidecarTruncate, SidecarFails, Persist, DropAlone, PersistStart,
       RenamePages, HeaderTruncate, HeaderWrite, PagesFail, HeaderFails, Rollback, MetaFails,
       BoundsFail, Crash, Err, Gone, Goto, handleVars
  <2>5. step' = "bounds" => op' = "persist_end"
    BY <1>11 DEF Sync, Flush, SidecarTruncate, SidecarFails, Persist, DropAlone, PersistStart,
       RenamePages, HeaderTruncate, HeaderWrite, PagesFail, HeaderFails, Rollback, MetaFails,
       BoundsFail, Crash, Err, Gone, Goto
  <2>6. step' \in {"sidecar", "sidecar_write"} /\ op' \in {"add", "resync"} => numObs = xN'
    BY <1>11 DEF Sync, Flush, SidecarTruncate, SidecarFails, Persist, DropAlone, PersistStart,
       RenamePages, HeaderTruncate, HeaderWrite, PagesFail, HeaderFails, Rollback, MetaFails,
       BoundsFail, Crash, Err, Gone, Goto, RowsInv, ControlInv, handleVars
  <2>. QED
    BY <2>1, <2>2, <2>3, <2>4, <2>5, <2>6, RowsKept
<1>12. CASE UNCHANGED vars
  <2>1. RowsInv' <=> RowsInv
    BY <1>12 DEF vars, diskVars, handleVars, ghostVars, RowsInv, Aligned, CountsUpTo, Whole
  <2>. QED
    BY <2>1
<1>. QED
  BY <1>1, <1>2, <1>3, <1>4, <1>5, <1>6, <1>7, <1>8, <1>9, <1>10, <1>11, <1>12
     DEF Next, OpenStep, AddStep, SyncStep, PersistStep

----------------------------------------------------------------------------
(* Files that can be opened                                                *)

LEMMA PagesStep == TypeInv /\ ControlInv /\ PagesFirst /\ [Next]_vars => PagesFirst'
<1> SUFFICES ASSUME TypeInv, ControlInv, PagesFirst, [Next]_vars PROVE PagesFirst'
  OBVIOUS
<1>1. CASE RenamePages
  <2>1. OnDisk.cover \in Covers
    BY OnDiskType DEF Fragments
  <2>. QED
    BY <1>1, <2>1, SentinelAssumption DEF RenamePages, PagesFirst
<1>2. CASE HeaderTruncate \/ HeaderWrite \/ HeaderFails
  BY <1>2 DEF HeaderTruncate, HeaderWrite, HeaderFails, diskVars, PagesFirst
<1>3. CASE Rollback
  <2>1. pages # NoFile /\ pages' # NoFile
    BY <1>3, SentinelAssumption DEF Rollback, PagesFirst
  <2>. QED
    BY <2>1 DEF PagesFirst
<1>4. CASE UNCHANGED vars
  BY <1>4 DEF vars, diskVars, PagesFirst
<1>5. ASSUME UNCHANGED <<header, pages>>, step' \notin {"header", "header_write", "rollback"}
      PROVE  PagesFirst'
  BY <1>5 DEF PagesFirst
<1>6. ASSUME NEW request, NEW b, Open(request, b) \/ OpenRefused(request, b) \/ AppendX(b)
      PROVE  PagesFirst'
  BY <1>5, <1>6 DEF Open, OpenRefused, AppendX, Goto
<1>7. CASE AppendY \/ AppendFails \/ Commit
  BY <1>5, <1>7 DEF AppendY, AppendFails, Commit, Ok, Err, Gone, Goto, diskVars
<1>8. CASE Sync \/ Flush \/ SidecarTruncate \/ SidecarWrite \/ SidecarFails
  BY <1>5, <1>8 DEF Sync, Flush, SidecarTruncate, SidecarWrite, SidecarFails,
     Ok, Err, Gone, Goto, diskVars
<1>9. CASE Persist \/ DropAlone \/ PersistStart \/ PagesFail \/ Crash
  BY <1>5, <1>9 DEF Persist, DropAlone, PersistStart, PagesFail, Crash,
     Err, Gone, Goto, diskVars
<1>10. CASE \/ MetaTruncate \/ MetaWrite \/ MetaFails
            \/ BoundsTruncate \/ BoundsWrite \/ BoundsFail
  BY <1>5, <1>10 DEF MetaTruncate, MetaWrite, Opening, MetaFails, BoundsTruncate, BoundsWrite, BoundsFail,
     Ok, Err, Gone, Goto, ControlInv, diskVars
<1>. QED
  BY <1>1, <1>2, <1>3, <1>4, <1>6, <1>7, <1>8, <1>9, <1>10
     DEF Next, OpenStep, AddStep, SyncStep, PersistStep

----------------------------------------------------------------------------
(* The index                                                               *)

LEMMA BesideOnce ==
    ASSUME NEW k \in Nat, NEW n \in Nat, k <= n
    PROVE  Beside(Complete(k), Fragment(k, n)) = Complete(n)
<1>1. \A i \in Slots : i \in Nat /\ i >= 1
  BY DEF Slots
<1>2. k + (n - k) = n
  OBVIOUS
<1>3. \A i \in Slots : (IF i <= k THEN 1 ELSE 0) + (IF i \in (k + 1)..n THEN 1 ELSE 0)
                       = (IF i <= n THEN 1 ELSE 0)
  BY <1>1
<1>4. \A i \in Slots : /\ Once(k)[i] = (IF i <= k THEN 1 ELSE 0)
                       /\ Fragment(k, n).cover[i] = (IF i \in (k + 1)..n THEN 1 ELSE 0)
  BY DEF Once, Fragment
<1>5. [i \in Slots |-> Once(k)[i] + Fragment(k, n).cover[i]] = Once(n)
  BY <1>3, <1>4 DEF Once
<1>6. Fragment(k, n).rows = n - k
  BY DEF Fragment
<1>. QED
  BY <1>2, <1>5, <1>6 DEF Beside, Complete

LEMMA NoFragments == Merged(<<>>) = Complete(0)
<1>1. \A i \in Slots : i \in Nat /\ i >= 1
  BY DEF Slots
<1>2. Fragment(0, 0).cover = Once(0) /\ Fragment(0, 0).rows = 0
  BY <1>1 DEF Fragment, Once
<1>3. Fragment(0, 0) = Complete(0)
  BY <1>2 DEF Fragment, Complete
<1>. QED
  BY <1>3 DEF Merged

\* A sync covers the new rows, and those it has covered before no second time.
LEMMA MergedSynced ==
    ASSUME NEW fs \in Seq(Fragments), Len(fs) <= 2,
           NEW k \in Nat, NEW n \in Nat, k <= n, Merged(fs) = Complete(k)
    PROVE  Merged(Synced(fs, k, n)) = Complete(n)
<1> DEFINE g   == Fragment(k, n)
           new == Append(fs, g)
<1>1. Beside(Complete(k), g) = Complete(n)
  BY BesideOnce
<1>2. Synced(fs, k, n) = IF Len(new) > 2 THEN <<Merged(new)>> ELSE new
  BY DEF Synced
<1>3. g \in Fragments
  BY FragmentType
<1>4. /\ Len(new) = Len(fs) + 1 /\ new[Len(fs) + 1] = g
      /\ \A i \in 1..Len(fs) : new[i] = fs[i]
  <2> HIDE DEF g
  <2>. QED
    BY <1>3
<1>5. CASE Len(fs) = 0
  <2>1. fs = <<>> /\ new = <<g>>
    BY <1>5
  <2>2. k = 0
    BY <2>1, NoFragments DEF Complete
  <2>3. Synced(fs, k, n) = <<g>> /\ Merged(<<g>>) = g
    BY <1>2, <2>1 DEF Merged
  <2>4. \A i \in Slots : i \in Nat /\ i >= 1
    BY DEF Slots
  <2>5. g = Complete(n)
    BY <2>2, <2>4 DEF Fragment, Complete, Once
  <2>. QED
    BY <2>3, <2>5
<1>6. CASE Len(fs) = 1
  <2>1. Len(new) = 2 /\ new[1] = fs[1] /\ new[2] = g
    BY <1>4, <1>6
  <2>2. Merged(fs) = fs[1]
    BY <1>6 DEF Merged
  <2>3. Synced(fs, k, n) = new /\ Merged(new) = Beside(fs[1], g)
    BY <1>2, <2>1 DEF Merged
  <2>. QED
    BY <1>1, <2>2, <2>3
<1>7. CASE Len(fs) = 2
  <2>1. Len(new) = 3 /\ new[1] = fs[1] /\ new[2] = fs[2] /\ new[3] = g
    BY <1>4, <1>7
  <2>2. Merged(fs) = Beside(fs[1], fs[2])
    BY <1>7 DEF Merged
  <2>3. Merged(new) = Beside(Beside(fs[1], fs[2]), g)
    BY <2>1 DEF Merged
  <2>4. Synced(fs, k, n) = <<Merged(new)>>
    BY <1>2, <2>1
  <2>5. Merged(<<Merged(new)>>) = Merged(new)
    BY DEF Merged
  <2>. QED
    BY <1>1, <2>2, <2>3, <2>4, <2>5
<1>8. Len(fs) = 0 \/ Len(fs) = 1 \/ Len(fs) = 2
  <2>1. Len(fs) \in Nat
    OBVIOUS
  <2>2. \A m \in Nat : m <= 2 => m = 0 \/ m = 1 \/ m = 2
    OBVIOUS
  <2>. QED
    BY <2>1, <2>2, Zenon
<1>. QED
  BY <1>5, <1>6, <1>7, <1>8

\* Where the files on disk fit together and no count is behind them.
Settled == FilesMatch(header, pages) /\ NoneBehind(header)

\* Halfway through writing the counts after a rewrite.
Counting == step = "sidecar_write" /\ op \in {"persist_end", "drop_end"}

LEMMA SettledBetween ==
    ASSUME ControlInv, IndexInv, ~interrupted, ~HalfDone
    PROVE  Settled
<1>1. step \notin {"header", "header_write", "rollback"}
  BY DEF HalfDone
<1>2. step \in {"meta", "meta_write"} => Opening
  BY DEF HalfDone, Opening, ControlInv
<1>3. ~(step = "sidecar" /\ op \in {"persist_end", "drop_end"})
  BY DEF HalfDone
<1>. QED
  BY <1>1, <1>2, <1>3 DEF IndexInv, Settled

LEMMA Resettled ==
    ASSUME ControlInv', ~HalfDone', ~Counting',
           (op \in {"persist", "drop"} /\ step # "persist" => indexed = xN)',
           ~interrupted' => Merged(frags)' = Complete(indexed)' /\ Settled'
    PROVE  IndexInv'
<1>1. step' \notin {"header", "header_write", "rollback"}
  BY DEF HalfDone
<1>2. step' \in {"meta", "meta_write"} => Opening'
  BY DEF HalfDone, Opening, ControlInv
<1>3. ~(step' = "sidecar" /\ op' \in {"persist_end", "drop_end"})
  BY DEF HalfDone
<1>4. ~(step' = "sidecar_write" /\ op' \in {"persist_end", "drop_end"})
  BY DEF Counting
<1>. QED
  BY <1>1, <1>2, <1>3, <1>4 DEF IndexInv, Settled

\* The files stay, and a count that is written is not behind the header.
LEMMA SettledKept ==
    ASSUME TypeInv, TypeInv', Settled, UNCHANGED <<header, pages>>,
           numObs <= numObs',
           header \in Nat =>
               /\ \/ sidecar' = sidecar \/ ~Readable(sidecar') \/ sidecar' = 0
                  \/ header <= sidecar'
               /\ \/ meta' = meta \/ ~Readable(meta') \/ meta'.indexed = 0
                  \/ header <= meta'.indexed
               /\ step' = "bounds_write" => saved'.indexed = 0 \/ header <= saved'.indexed
               /\ step' = "closed" \/ indexed' = 0 \/ header <= indexed'
    PROVE  Settled'
<1>1. numObs \in Nat /\ numObs' \in Nat
  BY CountsAreNumbers DEF TypeInv, DiskTyped, Counts
<1>2. FilesMatch(header, pages)'
  BY <1>1 DEF Settled, FilesMatch
<1>3. NoneBehind(header)'
  BY DEF Settled, NoneBehind
<1>. QED
  BY <1>2, <1>3 DEF Settled

\* A step that leaves the index as it is, and writes no other count of indexed
\* rows than that of the index or one read from a file.
LEMMA IndexKept ==
    ASSUME TypeInv, TypeInv', ControlInv, ControlInv', IndexInv,
           ~interrupted' => ~interrupted /\ ~HalfDone,
           UNCHANGED <<header, pages>>, numObs <= numObs', ~HalfDone', ~Counting',
           sidecar' = sidecar \/ ~Readable(sidecar') \/ sidecar' = indexed,
           \/ meta' = meta \/ ~Readable(meta') \/ meta'.indexed = indexed
           \/ step = "bounds_write" /\ meta'.indexed = saved.indexed,
           step' = "bounds_write" => Readable(meta) /\ saved' = meta,
           step # "closed" \/ UNCHANGED <<sidecar, meta>>,
           op' \in {"persist", "drop"} /\ step' # "persist" => indexed' = xN',
           \/ step' = "closed" /\ frags' = <<>> /\ indexed' = 0
           \/ (step # "closed" \/ step' = "closed") /\ UNCHANGED <<frags, indexed>>
    PROVE  IndexInv'
<1>1. ~interrupted' => Merged(frags)' = Complete(indexed)' /\ Settled'
  <2> SUFFICES ASSUME ~interrupted' PROVE Merged(frags)' = Complete(indexed)' /\ Settled'
    OBVIOUS
  <2>1. Settled
    BY SettledBetween
  <2>2. header \in Nat =>
          /\ step # "closed" => indexed = 0 \/ header <= indexed
          /\ Readable(meta) => meta.indexed = 0 \/ header <= meta.indexed
          /\ step = "bounds_write" => saved.indexed = 0 \/ header <= saved.indexed
    BY <2>1 DEF Settled, NoneBehind
  <2>3. header \in Nat =>
          /\ \/ sidecar' = sidecar \/ ~Readable(sidecar') \/ sidecar' = 0
             \/ header <= sidecar'
          /\ \/ meta' = meta \/ ~Readable(meta') \/ meta'.indexed = 0
             \/ header <= meta'.indexed
          /\ step' = "bounds_write" => saved'.indexed = 0 \/ header <= saved'.indexed
          /\ step' = "closed" \/ indexed' = 0 \/ header <= indexed'
    BY <2>2
  <2>4. Settled'
    BY <2>1, <2>3, SettledKept
  <2>5. Merged(frags)' = Complete(indexed)'
    <3>1. Merged(frags) = Complete(indexed)
      BY DEF IndexInv
    <3>2. CASE step' = "closed" /\ frags' = <<>> /\ indexed' = 0
      BY <3>2, NoFragments
    <3>3. CASE UNCHANGED <<frags, indexed>>
      BY <3>1, <3>3 DEF Merged, Complete, Once
    <3>. QED
      BY <3>2, <3>3
  <2>. QED
    BY <2>4, <2>5
<1>. QED
  BY <1>1, Resettled

\* A step that extends the index in memory to all rows.
LEMMA IndexSynced ==
    ASSUME TypeInv, TypeInv', OrderInv, ControlInv, ControlInv', RowsInv, IndexInv,
           ~interrupted' => ~interrupted, ~HalfDone, step # "closed",
           UNCHANGED <<header, pages>>, numObs <= numObs',
           meta' = meta \/ meta'.indexed = indexed,
           ~HalfDone', ~Counting', step' \notin {"bounds_write", "closed"},
           xN' = xN, sidecar' = sidecar \/ sidecar' = xN,
           indexed' = xN, frags' = Synced(frags, indexed, xN)
    PROVE  IndexInv'
<1>1. xN \in Nat /\ indexed \in Nat /\ indexed <= xN /\ numObs \in Nat /\ numObs <= xN
  BY CountsAreNumbers DEF TypeInv, DiskTyped, HandleTyped, OrderInv, RowsInv, CountsUpTo
<1>2. ~interrupted' => Merged(frags)' = Complete(indexed)' /\ Settled'
  <2> SUFFICES ASSUME ~interrupted' PROVE Merged(frags)' = Complete(indexed)' /\ Settled'
    OBVIOUS
  <2>1. Settled
    BY SettledBetween
  <2>2. header \in Nat => header <= xN
    <3>1. header \in Nat => header # NoFile /\ header <= numObs
      BY <2>1, SentinelAssumption DEF Settled, FilesMatch
    <3>. QED
      BY <1>1, <3>1
  <2>3. Settled'
    <3>1. header \in Nat => indexed = 0 \/ header <= indexed
      BY <2>1 DEF Settled, NoneBehind
    <3>. QED
      BY <2>1, <2>2, <3>1, SettledKept
  <2>4. frags \in Seq(Fragments) /\ Len(frags) <= 2 /\ Merged(frags) = Complete(indexed)
    BY DEF TypeInv, HandleTyped, IndexInv
  <2>5. Merged(frags)' = Merged(Synced(frags, indexed, xN)) /\ Complete(indexed)' = Complete(xN)
    BY DEF Merged, Complete, Once
  <2>. QED
    BY <1>1, <2>3, <2>4, <2>5, MergedSynced
<1>. QED
  BY <1>2, Resettled

\* An open takes the index from its files, and extends it to the rows that
\* were counted as indexed.
LEMMA OpenIndexStep ==
    ASSUME TypeInv, TypeInv', ControlInv, ControlInv', IndexInv,
           NEW request \in {"none", "bounded"}, NEW b \in Batches \cup {<<>>},
           Open(request, b)
    PROVE  IndexInv'
<1> DEFINE k == OpenIndexed(b)
           onDisk == IF IndexOpened(b) THEN <<[rows |-> header, cover |-> pages]>> ELSE <<>>
           persisted == IF IndexOpened(b) THEN header ELSE 0
<1>1. /\ step = "closed" /\ step' \in {"sidecar", "meta"} /\ op' \in {"open", "reopen"}
      /\ indexed' = k /\ ~IndexRefused(b)
      /\ UNCHANGED <<numObs, meta, sidecar, header, pages, interrupted>>
      /\ frags' = (IF persisted < k THEN Synced(onDisk, persisted, k) ELSE onDisk)
  BY DEF Open, OpenAs, Goto, ghostVars
<1>2. /\ k \in Nat /\ numObs \in Nat /\ numObs <= OpenRows(b) /\ OpenRows(b) \in Nat
      /\ LoadIndexed \in Nat /\ numObs \in Nat
      /\ k = IF LoadIndexed < OpenRows(b) THEN LoadIndexed ELSE OpenRows(b)
  <2>1. b \in Seq(Row) /\ Len(b) <= MaxBatch
    BY BatchType
  <2>2. /\ LoadNumObs \in Counts /\ LoadIndexed \in Counts /\ numObs <= LoadNumObs
        /\ OpenRows(b) \in Counts /\ LoadNumObs <= OpenRows(b) /\ OpenIndexed(b) \in Counts
    BY <2>1, LoadedCounts
  <2>3. k = IF LoadIndexed < OpenRows(b) THEN LoadIndexed ELSE OpenRows(b)
    BY DEF OpenIndexed, Lesser
  <2>4. numObs \in Counts
    BY DEF TypeInv, DiskTyped
  <2>. QED
    BY <2>2, <2>3, <2>4, CountsAreNumbers
<1>3. ~HalfDone' /\ ~Counting'
  BY <1>1 DEF HalfDone, Counting
<1>4. ~interrupted' => Merged(frags)' = Complete(indexed)' /\ Settled'
  <2> SUFFICES ASSUME ~interrupted' PROVE Merged(frags)' = Complete(indexed)' /\ Settled'
    OBVIOUS
  <2>1. Settled
    <3>1. ~interrupted /\ ~HalfDone
      BY <1>1 DEF HalfDone, ControlInv
    <3>. QED
      BY <3>1, SettledBetween
  <2>2. header \in Nat => k = 0 \/ header <= k
    <3> SUFFICES ASSUME header \in Nat, k # 0 PROVE header <= k
      OBVIOUS
    <3>1. header <= numObs
      BY <2>1, SentinelAssumption DEF Settled, FilesMatch
    <3>2. LoadIndexed # 0 => header <= LoadIndexed
      BY <2>1 DEF Settled, NoneBehind, LoadIndexed
    <3>. QED
      BY <1>2, <3>1, <3>2
  <2>3. Settled'
    <3>1. numObs <= numObs' /\ step' # "bounds_write"
      BY <1>1, <1>2
    <3>. QED
      BY <1>1, <2>1, <2>2, <3>1, SettledKept
  <2>4. CASE IndexOpened(b)
    <3>1. /\ header \in Nat /\ pages \in Covers /\ pages = Once(header)
      <4>1. header \in Nat /\ pages \in Covers
        BY <1>1, <2>4 DEF IndexRefused, Readable, TypeInv, DiskTyped, FileOf
      <4>2. pages = Once(header)
        BY <2>1, <4>1, SentinelAssumption DEF Settled, FilesMatch
      <4>. QED
        BY <4>1, <4>2
    <3>2. header <= k
      BY <2>2, <2>4, <3>1, <1>2 DEF IndexOpened
    <3>3. onDisk = <<Complete(header)>> /\ persisted = header
      BY <2>4, <3>1 DEF Complete
    <3>4. Complete(header) \in Fragments
      BY <3>1 DEF Complete, Fragments
    <3>5. Merged(<<Complete(header)>>) = Complete(header)
      BY DEF Merged
    <3> HIDE DEF onDisk, persisted, k
    <3>6. Merged(frags') = Complete(k)
      <4>1. CASE header < k
        <5>1. onDisk \in Seq(Fragments) /\ Len(onDisk) <= 2
          BY <3>3, <3>4
        <5>2. Merged(Synced(onDisk, persisted, k)) = Complete(k)
          BY <1>2, <3>1, <3>2, <3>3, <3>5, <5>1, MergedSynced
        <5>. QED
          BY <1>1, <3>3, <4>1, <5>2
      <4>2. CASE ~(header < k)
        <5>1. header = k
          BY <1>2, <3>1, <3>2, <4>2
        <5>. QED
          BY <1>1, <3>3, <3>5, <4>2, <5>1
      <4>. QED
        BY <4>1, <4>2
    <3>. QED
      BY <1>1, <2>3, <3>6 DEF Merged, Complete, Once
  <2>5. CASE ~IndexOpened(b)
    <3>1. onDisk = <<>> /\ persisted = 0
      BY <2>5
    <3> HIDE DEF onDisk, persisted, k
    <3>2. Merged(frags') = Complete(k)
      <4>1. CASE 0 < k
        <5>1. <<>> \in Seq(Fragments) /\ Len(<<>>) <= 2
          OBVIOUS
        <5>2. 0 \in Nat /\ k \in Nat /\ 0 <= k
          BY <1>2
        <5>3. Merged(Synced(<<>>, 0, k)) = Complete(k)
          BY <5>1, <5>2, NoFragments, MergedSynced, Zenon
        <5>. QED
          BY <1>1, <3>1, <4>1, <5>3
      <4>2. CASE ~(0 < k)
        <5>1. k = 0
          BY <1>2, <4>2
        <5>. QED
          BY <1>1, <3>1, <4>2, <5>1, NoFragments
      <4>. QED
        BY <4>1, <4>2
    <3>. QED
      BY <1>1, <2>3, <3>2 DEF Merged, Complete, Once
  <2>. QED
    BY <2>4, <2>5
<1>. QED
  BY <1>1, <1>3, <1>4, Resettled

\* The files are rewritten from pages.bin to indexed_rows.bin.
LEMMA RewriteStep ==
    ASSUME TypeInv, TypeInv', OrderInv, ControlInv, ControlInv', RowsInv, IndexInv,
           \/ RenamePages \/ HeaderTruncate \/ HeaderWrite \/ HeaderFails \/ Rollback
           \/ ~Opening /\ (MetaTruncate \/ MetaWrite)
           \/ op \in {"persist_end", "drop_end"} /\ SidecarTruncate
    PROVE  IndexInv'
<1>1. op \in {"persist", "drop"} /\ step # "persist" => indexed = xN
  BY DEF IndexInv
<1>2. ~interrupted => Merged(frags) = Complete(indexed)
  BY DEF IndexInv
<1>3. OnDisk = Complete(indexed) => OnDisk.rows = indexed /\ OnDisk.cover = Once(indexed)
  BY DEF Complete
<1>4. CASE RenamePages
  <2>1. /\ step = "pages" /\ step' = "header" /\ op \in {"persist", "drop"} /\ op' = op
        /\ saved' = pages /\ pages' = OnDisk.cover
        /\ UNCHANGED <<numObs, meta, sidecar, header, frags, indexed, xN, interrupted>>
    BY <1>4 DEF RenamePages, Goto, ControlInv, ghostVars
  <2>2. ~interrupted => Settled
    BY <2>1, SettledBetween DEF HalfDone
  <2>3. ~interrupted => FilesMatch(header, saved)' /\ NoneBehind(header)'
    BY <2>1, <2>2 DEF Settled, FilesMatch, NoneBehind, Once
  <2>4. ~interrupted => pages' = Once(xN')
    BY <1>1, <1>2, <1>3, <2>1 DEF OnDisk
  <2>5. ~interrupted' => Merged(frags)' = Complete(indexed)'
    BY <1>2, <2>1 DEF Merged, Complete, Once
  <2>6. indexed' = xN' /\ step' = "header"
    BY <1>1, <2>1
  <2>. QED
    BY <2>1, <2>3, <2>4, <2>5, <2>6 DEF IndexInv
<1>5. CASE HeaderTruncate
  <2>1. /\ step = "header" /\ step' = "header_write" /\ op' = op /\ header' = Torn
        /\ UNCHANGED <<pages, frags, indexed, xN, interrupted>>
    BY <1>5 DEF HeaderTruncate, Goto, ghostVars, handleVars
  <2>2. op \in {"persist", "drop"}
    BY <2>1 DEF ControlInv
  <2>3. ~interrupted => pages = Once(xN)
    BY <2>1 DEF IndexInv
  <2>4. ~interrupted' => Merged(frags)' = Complete(indexed)'
    BY <1>2, <2>1 DEF Merged, Complete, Once
  <2>5. indexed' = xN'
    BY <1>1, <2>1, <2>2
  <2>6. ~interrupted' => header' = Torn /\ pages' = Once(xN)'
    BY <2>1, <2>3 DEF Once
  <2>. QED
    BY <2>1, <2>4, <2>5, <2>6 DEF IndexInv
<1>6. CASE HeaderWrite
  <2>1. /\ step = "header_write" /\ step' = "meta" /\ op' = op /\ header' = OnDisk.rows
        /\ UNCHANGED <<pages, frags, indexed, xN, interrupted>>
    BY <1>6 DEF HeaderWrite, Goto, ghostVars
  <2>2. op \in {"persist", "drop"}
    BY <2>1 DEF ControlInv
  <2>3. ~interrupted => pages = Once(xN) /\ header' = indexed
    BY <1>2, <1>3, <2>1 DEF IndexInv, OnDisk
  <2>4. ~interrupted' => Merged(frags)' = Complete(indexed)'
    BY <1>2, <2>1 DEF Merged, Complete, Once
  <2>5. indexed' = xN'
    BY <1>1, <2>1, <2>2
  <2>6. ~interrupted' => Rewritten'
    BY <2>1, <2>3, <2>5 DEF Once, Rewritten
  <2>. QED
    BY <2>1, <2>2, <2>4, <2>5, <2>6 DEF IndexInv, Opening
<1>7. CASE HeaderFails
  <2>1. /\ step \in {"header", "header_write"} /\ step' = "rollback" /\ op' = op
        /\ UNCHANGED <<diskVars, handleVars, interrupted>>
    BY <1>7 DEF HeaderFails, Goto
  <2>2. op \in {"persist", "drop"} /\ indexed' = xN'
    BY <1>1, <2>1 DEF ControlInv, handleVars
  <2>3. ~interrupted /\ header # Torn => FilesMatch(header, saved) /\ NoneBehind(header)
    BY <2>1 DEF IndexInv
  <2>4. ~interrupted' /\ header' # Torn => FilesMatch(header, saved)' /\ NoneBehind(header)'
    BY <2>1, <2>3 DEF FilesMatch, NoneBehind, Once, diskVars, handleVars
  <2>5. ~interrupted' => Merged(frags)' = Complete(indexed)'
    BY <1>2, <2>1 DEF Merged, Complete, Once, handleVars
  <2>. QED
    BY <2>1, <2>2, <2>4, <2>5 DEF IndexInv
<1>8. CASE Rollback
  <2>1. /\ step = "rollback" /\ step' \in {"ready", "closed"} /\ op' = "none"
        /\ UNCHANGED <<numObs, meta, sidecar, header>>
        /\ ~interrupted' => ~interrupted /\ header # Torn /\ pages' = saved
        /\ \/ step' = "closed" /\ frags' = <<>> /\ indexed' = 0
           \/ UNCHANGED <<frags, indexed>>
    BY <1>8 DEF Rollback, Gone, Goto
  <2>2. ~interrupted' => FilesMatch(header, saved) /\ NoneBehind(header)
    BY <2>1 DEF IndexInv
  <2>3. ~interrupted' => Settled'
    BY <2>1, <2>2 DEF Settled, FilesMatch, NoneBehind, Once
  <2>4. ~interrupted' => Merged(frags)' = Complete(indexed)'
    <3>1. CASE step' = "closed" /\ frags' = <<>> /\ indexed' = 0
      BY <3>1, NoFragments
    <3>2. CASE UNCHANGED <<frags, indexed>>
      BY <1>2, <2>1, <3>2 DEF Merged, Complete, Once
    <3>. QED
      BY <2>1, <3>1, <3>2
  <2>5. ~HalfDone' /\ ~Counting'
    BY <2>1 DEF HalfDone, Counting
  <2>. QED
    BY <2>1, <2>3, <2>4, <2>5, Resettled
<1>9. CASE ~Opening /\ MetaTruncate
  <2>1. /\ step = "meta" /\ step' = "meta_write" /\ op' = op
        /\ UNCHANGED <<header, pages, frags, indexed, xN, interrupted>>
    BY <1>9 DEF MetaTruncate, Goto, ghostVars, handleVars
  <2>2. op \in {"persist", "drop"} /\ indexed' = xN'
    BY <1>1, <1>9, <2>1 DEF Opening, ControlInv
  <2>3. ~interrupted => Rewritten
    BY <1>9, <2>1 DEF IndexInv, Opening
  <2>4. ~interrupted' => Rewritten' /\ Merged(frags)' = Complete(indexed)'
    BY <1>2, <2>1, <2>3 DEF Rewritten, Merged, Complete, Once
  <2>. QED
    BY <2>1, <2>2, <2>4 DEF IndexInv, Opening
<1>10. CASE ~Opening /\ MetaWrite
  <2>1. /\ step = "meta_write" /\ op \in {"persist", "drop"}
    BY <1>10 DEF MetaWrite, Opening, ControlInv
  <2>2. /\ step' = "sidecar" /\ op' \in {"persist_end", "drop_end"}
        /\ meta' = [obs |-> xN, indexed |-> indexed, bounds |-> "absent"]
        /\ ~interrupted' => ~interrupted /\ xN = numObs
        /\ UNCHANGED <<numObs, header, pages, frags, indexed, xN>>
    BY <1>10, <2>1 DEF MetaWrite, Opening, ReopenSyncs, Goto
  <2>3. ~interrupted => Rewritten
    BY <2>1 DEF IndexInv, Opening
  <2>4. meta' \in Metadata /\ meta'.indexed = indexed
    BY <2>2 DEF TypeInv, HandleTyped, Metadata, Counts
  <2>5. Readable(meta')
    BY <2>4, SentinelAssumption DEF Readable
  <2>6. ~interrupted' => /\ Rewritten' /\ xN' = numObs' /\ Readable(meta') /\ meta'.indexed = xN'
                         /\ Merged(frags)' = Complete(indexed)'
    BY <1>2, <2>2, <2>3, <2>4, <2>5 DEF Rewritten, Merged, Complete, Once
  <2>7. step' = "sidecar" /\ op' \in {"persist_end", "drop_end"} /\ Readable(meta)' = Readable(meta')
    BY <2>2 DEF Readable
  <2>. QED
    BY <2>6, <2>7 DEF IndexInv
<1>11. CASE op \in {"persist_end", "drop_end"} /\ SidecarTruncate
  <2>1. /\ step = "sidecar" /\ step' = "sidecar_write" /\ op' = op /\ sidecar' = Torn
        /\ UNCHANGED <<numObs, meta, header, pages, frags, indexed, xN, saved, interrupted>>
    BY <1>11 DEF SidecarTruncate, Goto, ghostVars, handleVars
  <2>2. ~interrupted => Rewritten /\ xN = numObs /\ Readable(meta) /\ meta.indexed = xN
    BY <1>11, <2>1 DEF IndexInv
  <2>3. xN \in Nat
    BY CountsAreNumbers DEF TypeInv, HandleTyped
  <2>4. ~interrupted' => Rewritten' /\ Merged(frags)' = Complete(indexed)'
    BY <1>2, <2>1, <2>2 DEF Rewritten, Merged, Complete, Once
  <2>5. ~interrupted' => FilesMatch(header, pages)'
    <3>1. ~interrupted => header \in Nat /\ pages \in Covers /\ header <= numObs /\ pages = Once(header)
      BY <2>2, <2>3 DEF Rewritten, Once, Covers
    <3>. QED
      BY <2>1, <3>1, SentinelAssumption DEF FilesMatch, Once
  <2>6. ~interrupted' => NoneBehind(header)'
    BY <2>1, <2>2, <2>3 DEF Rewritten, NoneBehind, Readable
  <2>. QED
    BY <1>11, <2>1, <2>4, <2>5, <2>6 DEF IndexInv
<1>. QED
  BY <1>4, <1>5, <1>6, <1>7, <1>8, <1>9, <1>10, <1>11

LEMMA IndexStep ==
    /\ TypeInv /\ OrderInv /\ ControlInv /\ RowsInv /\ IndexInv
    /\ TypeInv' /\ ControlInv' /\ [Next]_vars
    => IndexInv'
<1> SUFFICES ASSUME TypeInv, OrderInv, ControlInv, RowsInv, IndexInv,
                    TypeInv', ControlInv', [Next]_vars
             PROVE  IndexInv'
  OBVIOUS
<1>0. /\ numObs \in Nat /\ indexed \in Nat /\ xN \in Nat /\ indexed <= xN
      /\ step # "closed" => numObs <= xN
  BY CountsAreNumbers DEF TypeInv, DiskTyped, HandleTyped, OrderInv, RowsInv, CountsUpTo
<1>1. op \in {"persist", "drop"} /\ step # "persist" => indexed = xN
  BY DEF IndexInv
<1>2. ASSUME NEW request \in {"none", "bounded"}, NEW b \in Batches \cup {<<>>},
             Open(request, b)
      PROVE  IndexInv'
  BY <1>2, OpenIndexStep
<1>3. ASSUME NEW request, NEW b, OpenRefused(request, b)
      PROVE  IndexInv'
  <2>1. /\ step = "closed" /\ op = "none" /\ step' = "closed" /\ op' = "none"
        /\ UNCHANGED <<numObs, meta, sidecar, header, pages, frags, indexed, interrupted>>
    BY <1>3 DEF OpenRefused, ControlInv, handleVars, ghostVars
  <2>2. ~HalfDone /\ ~HalfDone' /\ ~Counting'
    BY <2>1 DEF HalfDone, Counting
  <2>3. numObs <= numObs'
    BY <1>0, <2>1
  <2>. QED
    BY <2>1, <2>2, <2>3, IndexKept
<1>4. ASSUME NEW b, AppendX(b)
      PROVE  IndexInv'
  <2>1. /\ step = "ready" /\ step' = "append_y" /\ op' = "add"
        /\ UNCHANGED <<numObs, meta, sidecar, header, pages, frags, indexed, interrupted>>
    BY <1>4 DEF AppendX, Goto, ghostVars
  <2>2. ~HalfDone /\ ~HalfDone' /\ ~Counting' /\ numObs <= numObs'
    BY <1>0, <2>1 DEF HalfDone, Counting, ControlInv
  <2>. QED
    BY <2>1, <2>2, IndexKept
<1>5. CASE AppendY \/ AppendFails
  <2>1. /\ step \in {"append_y", "commit"} /\ step' \in {"commit", "ready"} /\ op = "add"
        /\ op' \in {"add", "none"}
        /\ UNCHANGED <<numObs, meta, sidecar, header, pages, frags, indexed, interrupted>>
    BY <1>5 DEF AppendY, AppendFails, Err, Opening, Dropping, Goto, ControlInv, diskVars, ghostVars
  <2>2. ~HalfDone /\ ~HalfDone' /\ ~Counting' /\ numObs <= numObs'
    BY <1>0, <2>1 DEF HalfDone, Counting
  <2>. QED
    BY <2>1, <2>2, IndexKept
<1>6. CASE Commit
  <2>1. /\ step = "commit" /\ op = "add" /\ numObs' = xN
        /\ UNCHANGED <<meta, sidecar, header, pages, interrupted, xN>>
        /\ \/ step' = "ready" /\ op' = "none" /\ UNCHANGED <<frags, indexed>>
           \/ /\ step' = "sidecar" /\ op' = "add"
              /\ indexed' = xN /\ frags' = Synced(frags, indexed, xN)
    BY <1>6 DEF Commit, Ok, Goto, ControlInv
  <2>2. ~HalfDone /\ ~HalfDone' /\ ~Counting' /\ numObs <= numObs'
    BY <1>0, <2>1 DEF HalfDone, Counting
  <2>3. CASE UNCHANGED <<frags, indexed>>
    BY <2>1, <2>2, <2>3, IndexKept
  <2>4. CASE indexed' = xN /\ frags' = Synced(frags, indexed, xN)
    BY <2>1, <2>2, <2>4, IndexSynced
  <2>. QED
    BY <2>1, <2>3, <2>4
<1>7. CASE Sync
  <2>1. /\ step = "ready" /\ step' = "sidecar" /\ op' = "sync"
        /\ indexed' = xN /\ frags' = Synced(frags, indexed, xN)
        /\ UNCHANGED <<numObs, meta, sidecar, header, pages, interrupted, xN>>
    BY <1>7 DEF Sync, Goto, diskVars, ghostVars
  <2>2. ~HalfDone /\ ~HalfDone' /\ ~Counting' /\ numObs <= numObs'
    BY <1>0, <2>1 DEF HalfDone, Counting, ControlInv
  <2>. QED
    BY <2>1, <2>2, IndexSynced
<1>8. CASE Flush \/ Persist \/ DropAlone
  <2>1. /\ step = "ready" /\ op = "none"
        /\ UNCHANGED <<numObs, meta, sidecar, header, pages, interrupted>>
        /\ \/ /\ op' = "flush" /\ step' = "sidecar" /\ UNCHANGED <<frags, indexed>>
           \/ /\ op' \in {"persist", "drop"} /\ step' = "persist" /\ UNCHANGED <<frags, indexed>>
           \/ op' = "none" /\ step' = "closed" /\ frags' = <<>> /\ indexed' = 0
    BY <1>8 DEF Flush, Persist, DropAlone, Gone, Goto, ControlInv, diskVars, ghostVars, handleVars
  <2>2. ~HalfDone /\ ~HalfDone' /\ ~Counting' /\ numObs <= numObs'
    BY <1>0, <2>1 DEF HalfDone, Counting
  <2>. QED
    BY <2>1, <2>2, IndexKept
<1>9. CASE PersistStart
  <2>1. /\ step = "persist" /\ op \in {"persist", "drop"}
        /\ UNCHANGED <<numObs, meta, sidecar, header, pages, interrupted>>
        /\ \/ op' = "none" /\ step' = "closed" /\ frags' = <<>> /\ indexed' = 0
           \/ /\ op' = "persist_end" /\ step' = "bounds" /\ UNCHANGED <<frags, indexed>>
           \/ /\ op' = op /\ step' = "sidecar" /\ UNCHANGED xN
              /\ indexed' = xN /\ frags' = Synced(frags, indexed, xN)
           \/ /\ op' = op /\ step' = "pages" /\ UNCHANGED <<xN, frags, indexed>>
              /\ ~(indexed < xN)
    BY <1>9 DEF PersistStart, Gone, Goto, ControlInv, diskVars, ghostVars
  <2>2. ~HalfDone /\ ~HalfDone' /\ ~Counting' /\ numObs <= numObs'
    BY <1>0, <2>1 DEF HalfDone, Counting
  <2>3. CASE indexed' = xN /\ frags' = Synced(frags, indexed, xN) /\ step' = "sidecar" /\ xN' = xN
    BY <2>1, <2>2, <2>3, IndexSynced
  <2>4. CASE op' = op /\ step' = "pages" /\ UNCHANGED <<xN, frags, indexed>> /\ ~(indexed < xN)
    <3>1. indexed' = xN'
      BY <1>0, <2>4
    <3>. QED
      BY <2>1, <2>2, <2>4, <3>1, IndexKept
  <2>5. CASE op' = "none" /\ step' = "closed" /\ frags' = <<>> /\ indexed' = 0
    BY <2>1, <2>2, <2>5, IndexKept
  <2>6. CASE op' = "persist_end" /\ step' = "bounds" /\ UNCHANGED <<frags, indexed>>
    BY <2>1, <2>2, <2>6, IndexKept
  <2>. QED
    BY <2>1, <2>3, <2>4, <2>5, <2>6
<1>10. CASE SidecarTruncate
  <2>1. CASE op \in {"persist_end", "drop_end"}
    BY <1>10, <2>1, RewriteStep
  <2>2. CASE op \notin {"persist_end", "drop_end"}
    <3>1. /\ step = "sidecar" /\ step' = "sidecar_write" /\ op' = op /\ ~Readable(sidecar')
          /\ UNCHANGED <<numObs, meta, header, pages, frags, indexed, xN, interrupted>>
      BY <1>10 DEF SidecarTruncate, Goto, Readable, ghostVars, handleVars
    <3>2. ~HalfDone /\ ~HalfDone' /\ ~Counting' /\ numObs <= numObs'
      BY <1>0, <2>2, <3>1 DEF HalfDone, Counting
    <3>3. op' \in {"persist", "drop"} /\ step' # "persist" => indexed' = xN'
      BY <1>1, <3>1
    <3>. QED
      BY <3>1, <3>2, <3>3, IndexKept
  <2>. QED
    BY <2>1, <2>2
<1>11. CASE SidecarWrite
  <2>1. /\ step = "sidecar_write"
        /\ sidecar' = IF op = "flush" THEN xN ELSE indexed
        /\ UNCHANGED <<numObs, meta, header, pages, interrupted>>
        /\ step' \in {"meta", "ready", "pages", "bounds", "closed"}
        /\ step' = "meta" => op' \in {"open", "reopen"}
        /\ op' \in {"persist", "drop"} => op = op' /\ UNCHANGED xN /\ UNCHANGED indexed
        /\ op # "flush" => \/ step' = "closed" /\ frags' = <<>> /\ indexed' = 0
                           \/ UNCHANGED <<frags, indexed>>
    BY <1>11 DEF SidecarWrite, Opening, Ok, Gone, Goto, handleVars
  <2>2. ~HalfDone /\ ~HalfDone' /\ ~Counting' /\ numObs <= numObs'
    BY <1>0, <2>1 DEF HalfDone, Counting
  <2>3. op' \in {"persist", "drop"} => indexed' = xN'
    BY <1>1, <2>1
  <2>4. CASE op = "flush"
    <3>1. /\ step' = "ready" /\ op' = "none" /\ xN' = xN /\ indexed' = xN /\ sidecar' = xN
          /\ frags' = Synced(frags, indexed, xN)
      BY <1>11, <2>4 DEF SidecarWrite, Opening, Ok, Goto
    <3>. QED
      BY <2>1, <2>2, <3>1, IndexSynced
  <2>5. CASE op # "flush"
    BY <2>1, <2>2, <2>3, <2>5, IndexKept
  <2>. QED
    BY <2>4, <2>5
<1>12. CASE SidecarFails \/ MetaFails \/ PagesFail \/ Crash
  <2>1. /\ step # "closed"
        /\ \/ op' = "none" /\ step' \in {"ready", "closed"}
           \/ op' = "drop" /\ step' = "persist"
        /\ UNCHANGED <<numObs, meta, sidecar, header, pages>>
        /\ ~interrupted' => ~interrupted /\ ~HalfDone
        /\ \/ step' = "closed" /\ frags' = <<>> /\ indexed' = 0
           \/ UNCHANGED <<frags, indexed>>
    <3>1. CASE SidecarFails
      BY <3>1 DEF SidecarFails, Err, Gone, Goto, diskVars, handleVars
    <3>2. CASE MetaFails
      BY <3>2 DEF MetaFails, Err, Gone, Goto, diskVars
    <3>3. CASE PagesFail
      BY <3>3 DEF PagesFail, HalfDone, Err, Gone, Goto, diskVars
    <3>4. CASE Crash
      BY <3>4 DEF Crash, Gone, Goto, diskVars
    <3>. QED
      BY <1>12, <3>1, <3>2, <3>3, <3>4
  <2>2. ~HalfDone' /\ ~Counting' /\ numObs <= numObs'
    BY <1>0, <2>1 DEF HalfDone, Counting
  <2>. QED
    BY <2>1, <2>2, IndexKept
<1>13. CASE RenamePages \/ HeaderTruncate \/ HeaderWrite \/ HeaderFails \/ Rollback
  BY <1>13, RewriteStep
<1>14. CASE MetaTruncate \/ MetaWrite
  <2>1. CASE ~Opening
    BY <1>14, <2>1, RewriteStep
  <2>2. CASE Opening
    <3>1. /\ step \in {"meta", "meta_write"} /\ step' \in {"meta_write", "bounds", "sidecar"}
          /\ op' \in {"open", "reopen", "resync"}
          /\ numObs' \in {numObs, xN}
          /\ ~interrupted' => ~interrupted
          /\ ~Readable(meta') \/ meta'.indexed = indexed
          /\ \/ UNCHANGED <<frags, indexed>>
             \/ /\ indexed' = xN /\ frags' = Synced(frags, indexed, xN)
                /\ meta'.indexed = indexed
          /\ UNCHANGED <<sidecar, header, pages, xN>>
      <4>1. CASE MetaTruncate
        BY <2>2, <4>1 DEF MetaTruncate, Opening, Goto, Readable, handleVars, ghostVars
      <4>2. CASE MetaWrite
        BY <2>2, <4>2 DEF MetaWrite, Opening, ReopenSyncs, Goto
      <4>. QED
        BY <1>14, <4>1, <4>2
    <3>2. ~HalfDone /\ ~HalfDone' /\ ~Counting' /\ numObs <= numObs'
      BY <1>0, <2>2, <3>1 DEF HalfDone, Opening, Counting
    <3>3. CASE UNCHANGED <<frags, indexed>>
      BY <3>1, <3>2, <3>3, IndexKept
    <3>4. CASE /\ indexed' = xN /\ frags' = Synced(frags, indexed, xN)
               /\ meta'.indexed = indexed
      BY <3>1, <3>2, <3>4, IndexSynced
    <3>. QED
      BY <3>1, <3>3, <3>4
  <2>. QED
    BY <2>1, <2>2
<1>15. CASE BoundsTruncate \/ BoundsWrite
  <2>1. /\ step \in {"bounds", "bounds_write"} /\ op \in {"open", "persist_end"}
        /\ UNCHANGED <<numObs, sidecar, header, pages, frags, indexed, interrupted>>
        /\ \/ /\ step' = "bounds_write" /\ op' = op /\ Readable(meta) /\ saved' = meta
              /\ ~Readable(meta')
           \/ /\ step = "bounds_write" /\ step' = "ready" /\ op' = "none"
              /\ meta' = [saved EXCEPT !.bounds = bounds]
    BY <1>15 DEF BoundsTruncate, BoundsWrite, Ok, Goto, Readable, ControlInv, ghostVars
  <2>2. ~Readable(meta') \/ (step = "bounds_write" /\ meta'.indexed = saved.indexed)
    <3>1. step = "bounds_write" => saved \in Metadata
      BY DEF TypeInv, HandleTyped
    <3>. QED
      BY <2>1, <3>1 DEF Metadata
  <2>3. ~HalfDone /\ ~HalfDone' /\ ~Counting' /\ numObs <= numObs'
    BY <1>0, <2>1 DEF HalfDone, Counting
  <2>. QED
    BY <2>1, <2>2, <2>3, IndexKept
<1>16. CASE BoundsFail
  <2>1. /\ step \in {"bounds", "bounds_write"} /\ op \in {"open", "persist_end"}
        /\ UNCHANGED <<numObs, meta, sidecar, header, pages, frags, indexed, interrupted>>
        /\ \/ step' = "persist" /\ op' = "drop"
           \/ step' = "ready" /\ op' = "none"
    BY <1>16 DEF BoundsFail, Goto, ControlInv, diskVars
  <2>2. ~HalfDone /\ ~HalfDone' /\ ~Counting' /\ numObs <= numObs'
    BY <1>0, <2>1 DEF HalfDone, Counting
  <2>. QED
    BY <2>1, <2>2, IndexKept
<1>17. CASE UNCHANGED vars
  <2>1. IndexInv' <=> IndexInv
    BY <1>17 DEF vars, diskVars, handleVars, ghostVars, IndexInv, Settled, FilesMatch, NoneBehind,
       Rewritten, Complete, Once, Merged
  <2>. QED
    BY <2>1
<1>. QED
  BY <1>2, <1>3, <1>4, <1>5, <1>6, <1>7, <1>8, <1>9, <1>10, <1>11, <1>12, <1>13, <1>14,
     <1>15, <1>16, <1>17
     DEF Next, OpenStep, AddStep, SyncStep, PersistStep

----------------------------------------------------------------------------
(* What is kept                                                            *)

LEMMA InitInv == Init => DiskInv
<1> SUFFICES ASSUME Init PROVE DiskInv
  OBVIOUS
<1>1. /\ 0 \in Counts /\ MaxBatch \in Nat /\ 0 <= MaxBatch /\ 0 <= 2
      /\ <<>> \in Seq(Row) /\ <<>> \in Seq(Fragments) /\ Len(<<>>) = 0
  BY CountsAreNumbers
<1>2. TypeInv
  <2>1. DiskTyped
    BY <1>1 DEF Init, DiskTyped, Stores, FileOf
  <2>2. HandleTyped
    BY <1>1 DEF Init, HandleTyped, Bounds
  <2>. QED
    BY <2>1, <2>2 DEF TypeInv
<1>3. OrderInv /\ ControlInv
  BY <1>1 DEF Init, OrderInv, ControlInv
<1>4. RowsInv
  <2>1. \A i \in Slots : CountsUpTo(i - 1)
    BY DEF Init, CountsUpTo, Readable, Slots
  <2>2. <<>> \in Seq((Row \cup {NoRow}) \X (Row \cup {NoRow}))
    OBVIOUS
  <2>. QED
    BY <1>1, <2>1, <2>2 DEF Init, RowsInv
<1>5. IndexInv
  <2>1. Merged(frags) = Complete(indexed)
    BY NoFragments DEF Init
  <2>2. FilesMatch(header, pages) /\ NoneBehind(header)
    BY SentinelAssumption DEF Init, FilesMatch, NoneBehind
  <2>3. step = "closed" /\ op = "none"
    BY DEF Init
  <2>. QED
    BY <2>1, <2>2, <2>3 DEF IndexInv
<1>6. PagesFirst
  BY DEF Init, PagesFirst
<1>. QED
  BY <1>2, <1>3, <1>4, <1>5, <1>6 DEF DiskInv

LEMMA NextInv == DiskInv /\ [Next]_vars => DiskInv'
<1> SUFFICES ASSUME DiskInv, [Next]_vars PROVE DiskInv'
  OBVIOUS
<1>1. ControlInv'
  BY ControlStep DEF DiskInv
<1>2. TypeInv' /\ OrderInv'
  BY TypeStep DEF DiskInv
<1>3. RowsInv'
  BY RowsStep DEF DiskInv
<1>4. IndexInv'
  BY <1>1, <1>2, IndexStep DEF DiskInv
<1>5. PagesFirst'
  BY PagesStep DEF DiskInv
<1>. QED
  BY <1>1, <1>2, <1>3, <1>4, <1>5 DEF DiskInv

\* Whatever fails and whenever the process dies, the directory and its handle
\* keep the invariant.
THEOREM Invariance == Spec => []DiskInv
  BY InitInv, NextInv, PTL DEF Spec

\* Files and fields hold what they are declared to hold.
THEOREM TypeCorrect == Spec => []TypeOK
<1>1. DiskInv => TypeOK
  BY DEF DiskInv, TypeInv, DiskTyped, HandleTyped, TypeOK, Stores, Counts
<1>. QED
  BY <1>1, Invariance, PTL

\* An add or open that returned Ok is never undone: the next handle serves its
\* rows (BpannBackend::add commits num_obs.bin last), and every row it serves
\* has its x and its own y, unless a count was written over an x without y.
THEOREM AcknowledgedRowsStay == Spec => []DurableRows
<1>1. DiskInv => DurableRows
  <2> SUFFICES ASSUME DiskInv, ~mixed
               PROVE  /\ IsPrefixOf(acked, Stored)
                      /\ \A i \in 1..LoadNumObs : xs[i] = ys[i] /\ xs[i] # NoRow
    BY DEF DurableRows
  <2>1. /\ numObs \in Nat /\ MaxRows \in Nat
        /\ Readable(meta) => meta.obs \in Nat /\ meta.obs <= MaxRows
        /\ numObs <= MaxRows
    BY CountsAreNumbers DEF DiskInv, TypeInv, DiskTyped, FileOf, Readable, Metadata
  <2>2. LoadNumObs \in Nat /\ numObs <= LoadNumObs /\ LoadNumObs <= MaxRows
    BY <2>1 DEF LoadNumObs
  <2>3. \A i \in 1..LoadNumObs : Whole(i)
    <3> SUFFICES ASSUME NEW i \in 1..LoadNumObs PROVE Whole(i)
      OBVIOUS
    <3>1. i \in Slots
      BY <2>1, <2>2 DEF Slots
    <3>2. ~CountsUpTo(i - 1)
      BY <2>1, <2>2 DEF CountsUpTo, LoadNumObs
    <3>. QED
      BY <3>1, <3>2 DEF DiskInv, RowsInv
  <2> DEFINE R == (Row \cup {NoRow}) \X (Row \cup {NoRow})
             n == LoadNumObs
             r == [i \in 1..n |-> <<xs[i], ys[i]>>]
  <2>4. /\ acked \in Seq(R) /\ Len(acked) <= n /\ Len(acked) \in Nat
        /\ \A i \in 1..Len(acked) : acked[i] = <<xs[i], ys[i]>>
    BY <2>1, <2>2 DEF DiskInv, RowsInv
  <2>5. r \in Seq(R) /\ Len(r) = n /\ \A i \in 1..n : r[i] = <<xs[i], ys[i]>>
    BY <2>1, <2>2, ServedRows, CountsAreNumbers DEF DiskInv
  <2>6. Stored = r
    BY DEF Stored
  <2> HIDE DEF R, n, r
  <2>7. IsPrefixOf(acked, r)
    <3>1. n \in Nat
      BY <2>2 DEF n
    <3>2. SubSeq(r, 1, Len(acked)) \in Seq(R) /\ Len(SubSeq(r, 1, Len(acked))) = Len(acked)
      BY <2>4, <2>5, <3>1
    <3>3. \A i \in 1..Len(acked) : SubSeq(r, 1, Len(acked))[i] = acked[i]
      <4>1. \A m \in 0..n : \A i \in 1..m : SubSeq(r, 1, m)[i] = r[i]
        BY <2>5, <3>1
      <4>2. \A i \in 1..Len(acked) : i \in 1..n
        BY <2>4, <3>1
      <4>3. \A i \in 1..Len(acked) : r[i] = acked[i]
        BY <2>4, <2>5, <4>2, Zenon
      <4>. QED
        BY <2>4, <3>1, <4>1, <4>3
    <3>4. SubSeq(r, 1, Len(acked)) = acked
      BY <2>4, <3>2, <3>3
    <3>. QED
      BY <2>4, <2>5, <3>4 DEF IsPrefixOf
  <2>. QED
    BY <2>3, <2>6, <2>7 DEF Whole
<1>. QED
  BY <1>1, Invariance, PTL

\* ensure_sync, compaction, BpannIndex::open and persist_index_files together
\* lose no row below indexed_rows and take none in twice.
THEOREM RowsCoveredOnce == Spec => []IndexCoversOnce
<1>1. DiskInv => IndexCoversOnce
  <2> SUFFICES ASSUME DiskInv, step = "ready", ~interrupted
               PROVE  Covered(frags) = [i \in Slots |-> IF i <= indexed THEN 1 ELSE 0]
    BY DEF IndexCoversOnce
  <2>1. Merged(frags) = Complete(indexed)
    BY DEF DiskInv, IndexInv
  <2>. QED
    BY <2>1 DEF Covered, Complete, Once
<1>. QED
  BY <1>1, Invariance, PTL

\* needs_disk_rewrite looks at enough: where it lets persist or drop skip the
\* rewrite, header.json and pages.bin hold the index of every row.
THEOREM SkipIsSafe == Spec => []SkippedRewriteIsSafe
<1>1. DiskInv => SkippedRewriteIsSafe
  <2> SUFFICES ASSUME DiskInv, step = "ready", ~interrupted, xN > 0, ~NeedsRewrite
               PROVE  /\ header = xN
                      /\ pages = [i \in Slots |-> IF i <= xN THEN 1 ELSE 0]
    BY DEF SkippedRewriteIsSafe
  <2>1. FilesMatch(header, pages)
    BY DEF DiskInv, IndexInv
  <2>2. xN \in Nat
    BY CountsAreNumbers DEF DiskInv, TypeInv, HandleTyped
  <2>3. header # NoFile /\ header = xN
    BY <2>2 DEF NeedsRewrite
  <2>. QED
    BY <2>1, <2>3 DEF FilesMatch, Once
<1>. QED
  BY <1>1, Invariance, PTL

\* pages.bin is renamed before header.json is written, and put back before the
\* call returns: there is no header without pages, and `reopen` succeeds.
THEOREM WholeFilesAlwaysOpen == Spec => []WholeFilesOpen
<1>1. DiskInv => WholeFilesOpen
  BY DEF DiskInv, PagesFirst, WholeFilesOpen, Refused, IndexRefused, IndexOpened, Readable
<1>. QED
  BY <1>1, Invariance, PTL

=============================================================================
