------------------------------ MODULE DiskStore ------------------------------
(***************************************************************************)
(* The work directory of a disk model, one file operation at a time:       *)
(* BpannBackend (bpann/src/backend.rs), the sidecars (observation.rs), the *)
(* index files (index/persist_atomic.rs) and the y_bounds that             *)
(* EpistemicNearestNeighbors keeps in metadata.json (ennx/src/model.rs).   *)
(*                                                                         *)
(* One handle works on the directory at a time.  The process may die       *)
(* between any two file operations; what was written to a file or to a     *)
(* shared mapping survives it.  Any file operation may fail instead, and   *)
(* the call returns Err from there.  fs::write truncates, then writes: a   *)
(* file caught in between is Torn.                                         *)
(*                                                                         *)
(* Rows stand for their contents.  Left out: the growth of the row files,  *)
(* yvar (its append may fail), skip_edges.bin (renamed right after         *)
(* pages.bin), and when a sync is due (FlushController).                   *)
(***************************************************************************)
EXTENDS Integers, Sequences

CONSTANTS
    Row,        \* contents of a row
    NoRow,      \* a slot of a row file that was never written
    NoFile,     \* the file does not exist
    Torn,       \* the file was truncated and not written
    MaxRows,    \* bound: slots of a row file
    MaxBatch,   \* bound: most rows one add appends, or an open brings
    MaxFaults,  \* bound: failing file operations
    MaxCrashes  \* bound: deaths of the process

ASSUME BoundAssumption ==
    /\ MaxRows \in Nat
    /\ MaxBatch \in 0..MaxRows
    /\ MaxFaults \in Nat
    /\ MaxCrashes \in Nat

VARIABLES
    xs, ys,      \* train_x.bin, train_y.bin
    numObs,      \* num_obs.bin, a shared mapping
    meta,        \* metadata.json
    sidecar,     \* indexed_rows.bin
    header,      \* index/header.json: its indexed_rows
    pages,       \* index/pages.bin: how often each row is in a leaf
    step,        \* where the handle is; "closed" without one
    op,          \* the operation it runs
    batch,       \* the rows being added
    xN, yN,      \* nrows of train_x and train_y
    frags,       \* index.indices
    indexed,     \* index.indexed_rows
    dirty,       \* index_dirty
    bounds,      \* y_bounds of the model, kept as a ghost once it is closed
    saved,       \* contents read from a file that is being replaced
    acked,       \* ghost: the rows at the last open or add that returned Ok
    mixed,       \* ghost: a count was written that covers an x without its y
    interrupted, \* ghost: a persist died or failed with its files half done,
                 \* or took in rows that a failed add had left behind
    faults, crashes

diskVars   == <<xs, ys, numObs, meta, sidecar, header, pages>>
handleVars == <<batch, xN, yN, frags, indexed, dirty, bounds, saved>>
ghostVars  == <<acked, mixed, interrupted, faults, crashes>>
vars == <<diskVars, step, op, handleVars, ghostVars>>

Slots == 1..MaxRows

\* A model without bounded outputs has identity bounds.
Bounds == {"identity", "bounded"}

\* What metadata.json and pages.bin say.
Metadata == [obs : 0..MaxRows, indexed : 0..MaxRows, bounds : Bounds \cup {"absent"}]
Covers   == [Slots -> Nat]

ASSUME SentinelAssumption ==
    /\ NoRow \notin Row
    /\ NoFile # Torn
    /\ \A f \in {NoFile, Torn} : f \notin Nat /\ f \notin Metadata /\ f \notin Covers

Init ==
    /\ xs = [i \in Slots |-> NoRow]
    /\ ys = [i \in Slots |-> NoRow]
    /\ numObs = 0
    /\ meta = NoFile
    /\ sidecar = NoFile
    /\ header = NoFile
    /\ pages = NoFile
    /\ step = "closed"
    /\ op = "none"
    /\ batch = <<>>
    /\ xN = 0 /\ yN = 0
    /\ frags = <<>>
    /\ indexed = 0
    /\ dirty = FALSE
    /\ bounds = "identity"
    /\ saved = NoFile
    /\ acked = <<>>
    /\ mixed = FALSE
    /\ interrupted = FALSE
    /\ faults = 0
    /\ crashes = 0

----------------------------------------------------------------------------
(* What the files say                                                      *)

Readable(file) == file \notin {NoFile, Torn}

\* bpann_load_num_obs: the larger of the counter and the metadata.
LoadNumObs ==
    IF Readable(meta) /\ meta.obs > numObs THEN meta.obs ELSE numObs

\* bpann_load_indexed_rows: the sidecar, else the metadata, else 0.
LoadIndexed ==
    IF Readable(sidecar) THEN sidecar
    ELSE IF Readable(meta) THEN meta.indexed ELSE 0

\* load_bounds_metadata.
LoadBounds == IF Readable(meta) THEN meta.bounds ELSE "absent"

\* The rows a handle opened now would serve.
Stored == [i \in 1..LoadNumObs |-> <<xs[i], ys[i]>>]

\* slots with the rows b written from position n + 1 on.
Written(slots, n, b) ==
    [i \in Slots |-> IF i \in (n + 1)..(n + Len(b)) THEN b[i - n] ELSE slots[i]]

Lesser(a, b) == IF a < b THEN a ELSE b

----------------------------------------------------------------------------
(* The index in memory                                                     *)

\* A fragment over the rows from + 1 .. to.
Fragment(from, to) ==
    [rows |-> to - from, cover |-> [i \in Slots |-> IF i \in (from + 1)..to THEN 1 ELSE 0]]

\* concat_merge of two: the headers add up, the leaves are put side by side.
Beside(f, g) ==
    [rows |-> f.rows + g.rows, cover |-> [i \in Slots |-> f.cover[i] + g.cover[i]]]

\* Of all fragments; with the new one of a sync there are up to three.
Merged(fs) == CASE Len(fs) = 0 -> Fragment(0, 0)
                [] Len(fs) = 1 -> fs[1]
                [] Len(fs) = 2 -> Beside(fs[1], fs[2])
                [] Len(fs) = 3 -> Beside(Beside(fs[1], fs[2]), fs[3])

Covered(fs) == Merged(fs).cover

\* Mutant: the new fragment starts at the first row again.
SyncedFromStart(fs, from, to) ==
    LET new == Append(fs, Fragment(0, to))
    IN  IF Len(new) > 2 THEN <<Merged(new)>> ELSE new

\* ensure_sync: a fragment for the new rows, then compaction.  With up to
\* 1000 rows more than two fragments are merged into one.
Synced(fs, from, to) ==
    LET new == Append(fs, Fragment(from, to))
    IN  IF Len(new) > 2 THEN <<Merged(new)>> ELSE new

\* Mutant: only index_dirty is looked at.
NeedsRewriteWhenDirty == dirty

\* needs_disk_rewrite.
NeedsRewrite ==
    \/ Len(frags) > 1
    \/ dirty
    \/ header = Torn
    \/ (IF header = NoFile THEN 0 ELSE header) # xN
    \/ frags # <<>> /\ pages # frags[1].cover
    \/ frags = <<>> /\ xN # 0

----------------------------------------------------------------------------
(* Where a call goes                                                       *)

Goto(o, s) == op' = o /\ step' = s

\* The handle is gone; y_bounds stay behind as a ghost.
Gone ==
    /\ Goto("none", "closed")
    /\ batch' = <<>> /\ xN' = 0 /\ yN' = 0
    /\ frags' = <<>> /\ indexed' = 0 /\ dirty' = FALSE
    /\ saved' = NoFile
    /\ UNCHANGED bounds

Opening  == op \in {"open", "reopen"}
Dropping == op \in {"drop", "drop_end"}

\* An add or an open that returns Ok acknowledges every row served by now.
Ok ==
    /\ Goto("none", "ready")
    /\ acked' = IF op \in {"open", "add"}
                THEN [i \in 1..xN |-> <<xs[i], ys[i]>>] ELSE acked

\* The call returns Err where it stands.  A backend that fails to open is not
\* handed out, a drop only reports the error.
Err ==
    IF Opening \/ Dropping THEN Gone
    ELSE /\ Goto("none", "ready")
         /\ batch' = <<>>
         /\ UNCHANGED <<xN, yN, frags, indexed, dirty, bounds, saved>>

\* The index files on disk no longer belong together.
HalfDone ==
    \/ step \in {"header", "header_write", "rollback"}
    \/ op \in {"persist", "drop"} /\ step \in {"meta", "meta_write"}
    \/ op \in {"persist_end", "drop_end"} /\ step = "sidecar"

Fault ==
    /\ faults < MaxFaults
    /\ faults' = faults + 1
    /\ UNCHANGED crashes

\* A count that covers xN rows is written.
CountWritten == mixed' = (mixed \/ xN # yN)

----------------------------------------------------------------------------
(* Opening                                                                 *)

\* The rows the caller brings are used only if there are none yet; with
\* another number of rows than the caller's the model is reopened.
Fresh(b)       == IF LoadNumObs = 0 THEN b ELSE <<>>
OpenRows(b)    == LoadNumObs + Len(Fresh(b))
OpenIndexed(b) == Lesser(LoadIndexed, OpenRows(b))
OpenAs(b)      == IF OpenRows(b) = Len(b) THEN "open" ELSE "reopen"

\* The index is opened if there is one and any row is said to be in it.
IndexOpened(b) == header # NoFile /\ OpenIndexed(b) > 0

\* Other bounds than the stored ones; `reopen`, taken when the caller brings
\* no rows and there is a metadata file, cannot parse it.
Refused(request, b) ==
    \/ request # "none" /\ LoadBounds \notin {"absent", request}
    \/ b = <<>> /\ meta = Torn

\* BpannIndex::open parses the header and reads the pages.
IndexRefused(b) == IndexOpened(b) /\ ~(Readable(header) /\ Readable(pages))

StoreFresh(b) ==
    /\ xs' = Written(xs, LoadNumObs, Fresh(b))
    /\ ys' = Written(ys, LoadNumObs, Fresh(b))

\* The index is extended at once if its header counts fewer rows.
Open(request, b) ==
    /\ step = "closed"
    /\ ~Refused(request, b)
    /\ ~IndexRefused(b)
    /\ StoreFresh(b)
    /\ xN' = OpenRows(b) /\ yN' = OpenRows(b)
    /\ indexed' = OpenIndexed(b)
    /\ dirty' = (OpenIndexed(b) < OpenRows(b))
    /\ bounds' = IF LoadBounds # "absent" THEN LoadBounds
                 ELSE IF request # "none" THEN request ELSE "identity"
    /\ LET onDisk    == IF IndexOpened(b) THEN <<[rows |-> header, cover |-> pages]>> ELSE <<>>
           persisted == IF IndexOpened(b) THEN header ELSE 0
       IN  IF persisted < OpenIndexed(b)
           THEN /\ frags' = Synced(onDisk, persisted, OpenIndexed(b))
                /\ Goto(OpenAs(b), "sidecar")
           ELSE /\ frags' = onDisk
                /\ Goto(OpenAs(b), "meta")
    /\ UNCHANGED <<numObs, meta, sidecar, header, pages, batch, saved, ghostVars>>

\* The rows of the caller are in the files by the time the index is refused.
OpenRefused(request, b) ==
    /\ step = "closed"
    /\ IF Refused(request, b) THEN UNCHANGED <<xs, ys>>
       ELSE IndexRefused(b) /\ StoreFresh(b)
    /\ UNCHANGED <<numObs, meta, sidecar, header, pages, step, op, handleVars, ghostVars>>

----------------------------------------------------------------------------
(* Adding rows                                                             *)

\* Mutant: the counter is set before y is written.
AppendXCounts(b) ==
    /\ step = "ready"
    /\ xN + Len(b) <= MaxRows
    /\ xs' = Written(xs, xN, b)
    /\ xN' = xN + Len(b)
    /\ numObs' = xN + Len(b)
    /\ batch' = b
    /\ Goto("add", "append_y")
    /\ UNCHANGED <<ys, meta, sidecar, header, pages,
                   yN, frags, indexed, dirty, bounds, saved, ghostVars>>

\* mmap_append of x: nothing counts the rows yet.
AppendX(b) ==
    /\ step = "ready"
    /\ xN + Len(b) <= MaxRows
    /\ xs' = Written(xs, xN, b)
    /\ xN' = xN + Len(b)
    /\ batch' = b
    /\ Goto("add", "append_y")
    /\ UNCHANGED <<ys, numObs, meta, sidecar, header, pages,
                   yN, frags, indexed, dirty, bounds, saved, ghostVars>>

AppendY ==
    /\ step = "append_y"
    /\ ys' = Written(ys, yN, batch)
    /\ yN' = yN + Len(batch)
    /\ Goto(op, "commit")
    /\ UNCHANGED <<xs, numObs, meta, sidecar, header, pages,
                   batch, xN, frags, indexed, dirty, bounds, saved, ghostVars>>

\* y, or a yvar that comes with it, cannot be stored: the rows written so far
\* stay, and train_x may be longer than train_y from now on.
AppendFails ==
    /\ step \in {"append_y", "commit"}
    /\ Fault
    /\ Err
    /\ UNCHANGED <<diskVars, acked, mixed, interrupted>>

\* num_obs.bin counts the rows; at the hard threshold they are synced at once.
Commit ==
    /\ step = "commit"
    /\ numObs' = xN
    /\ dirty' = TRUE
    /\ batch' = <<>>
    /\ CountWritten
    /\ \/ Ok /\ UNCHANGED <<frags, indexed>>
       \/ /\ indexed < xN
          /\ frags' = Synced(frags, indexed, xN)
          /\ indexed' = xN
          /\ Goto(op, "sidecar")
          /\ UNCHANGED acked
    /\ UNCHANGED <<xs, ys, meta, sidecar, header, pages, xN, yN, bounds, saved,
                   interrupted, faults, crashes>>

----------------------------------------------------------------------------
(* Syncing                                                                 *)

\* ensure_index_sync: the index is extended in place, then counted on disk.
Sync ==
    /\ step = "ready"
    /\ indexed < xN
    /\ frags' = Synced(frags, indexed, xN)
    /\ indexed' = xN
    /\ Goto("sync", "sidecar")
    /\ UNCHANGED <<diskVars, batch, xN, yN, dirty, bounds, saved, ghostVars>>

\* soft_sync_build: a clone is extended and counted, then published.
Flush ==
    /\ step = "ready"
    /\ indexed < xN
    /\ Goto("flush", "sidecar")
    /\ UNCHANGED <<diskVars, handleVars, ghostVars>>

\* persist_index_to_disk, and the drop that calls it unless wait_for_flush
\* reports an error.
Persist ==
    /\ step = "ready"
    /\ \E o \in {"persist", "drop"} : Goto(o, "persist")
    /\ UNCHANGED <<diskVars, handleVars, ghostVars>>

DropAlone ==
    /\ step = "ready"
    /\ Gone
    /\ UNCHANGED <<diskVars, ghostVars>>

\* Nothing to rewrite, nothing to write, or a sync and then the index files.
PersistStart ==
    /\ step = "persist"
    /\ \/ /\ ~NeedsRewrite \/ xN = 0
          /\ IF Dropping THEN Gone
             ELSE /\ Goto("persist_end", "bounds")
                  /\ dirty' = FALSE
                  /\ UNCHANGED <<batch, xN, yN, frags, indexed, bounds, saved>>
       \/ /\ NeedsRewrite /\ xN > 0
          /\ IF indexed < xN
             THEN /\ frags' = Synced(frags, indexed, xN)
                  /\ indexed' = xN
                  /\ Goto(op, "sidecar")
             ELSE /\ Goto(op, "pages")
                  /\ UNCHANGED <<frags, indexed>>
          /\ UNCHANGED <<batch, xN, yN, dirty, bounds, saved>>
    /\ UNCHANGED <<diskVars, ghostVars>>

SidecarTruncate ==
    /\ step = "sidecar"
    /\ sidecar' = Torn
    /\ Goto(op, "sidecar_write")
    /\ UNCHANGED <<xs, ys, numObs, meta, header, pages, handleVars, ghostVars>>

SidecarWrite ==
    /\ step = "sidecar_write"
    /\ sidecar' = IF op = "flush" THEN xN ELSE indexed
    /\ \/ /\ Opening
          /\ Goto(op, "meta")
          /\ UNCHANGED <<handleVars, acked>>
       \/ /\ op = "resync"
          /\ Goto("open", "bounds")
          /\ UNCHANGED <<handleVars, acked>>
       \/ /\ op \in {"add", "sync"}
          /\ Ok
          /\ UNCHANGED handleVars
       \/ /\ op = "flush"
          /\ frags' = Synced(frags, indexed, xN)
          /\ indexed' = xN
          /\ Ok
          /\ UNCHANGED <<batch, xN, yN, dirty, bounds, saved>>
       \/ /\ op \in {"persist", "drop"}
          /\ Goto(op, "pages")
          /\ UNCHANGED <<handleVars, acked>>
       \/ /\ op = "persist_end"
          /\ dirty' = FALSE
          /\ Goto(op, "bounds")
          /\ UNCHANGED <<batch, xN, yN, frags, indexed, bounds, saved, acked>>
       \/ /\ op = "drop_end"
          /\ Gone
          /\ UNCHANGED acked
    /\ UNCHANGED <<xs, ys, numObs, meta, header, pages, mixed, interrupted, faults, crashes>>

\* A sync that cannot write the sidecar; the index in memory stays extended,
\* that of a flush is thrown away.  A model that fails to open drops its
\* backend, which persists.
SidecarFails ==
    /\ step \in {"sidecar", "sidecar_write"}
    /\ Fault
    /\ IF op = "resync" THEN Goto("drop", "persist") /\ UNCHANGED handleVars ELSE Err
    /\ interrupted' = (interrupted \/ HalfDone)
    /\ UNCHANGED <<diskVars, acked, mixed>>

----------------------------------------------------------------------------
(* persist_index_files                                                     *)

\* All fragments go to disk as one; in memory they stay apart.
OnDisk == Merged(frags)

\* Mutant: pages.bin is not replaced.
RenameNothing ==
    /\ step = "pages"
    /\ saved' = pages
    /\ Goto(op, "header")
    /\ UNCHANGED <<xs, ys, numObs, meta, sidecar, header, pages,
                   batch, xN, yN, frags, indexed, dirty, bounds, ghostVars>>

RenamePages ==
    /\ step = "pages"
    /\ saved' = pages
    /\ pages' = OnDisk.cover
    /\ Goto(op, "header")
    /\ UNCHANGED <<xs, ys, numObs, meta, sidecar, header,
                   batch, xN, yN, frags, indexed, dirty, bounds, ghostVars>>

HeaderTruncate ==
    /\ step = "header"
    /\ header' = Torn
    /\ Goto(op, "header_write")
    /\ UNCHANGED <<xs, ys, numObs, meta, sidecar, pages, handleVars, ghostVars>>

HeaderWrite ==
    /\ step = "header_write"
    /\ header' = OnDisk.rows
    /\ saved' = NoFile
    /\ Goto(op, "meta")
    /\ UNCHANGED <<xs, ys, numObs, meta, sidecar, pages,
                   batch, xN, yN, frags, indexed, dirty, bounds, ghostVars>>

\* The temporary files cannot be written: no file has been replaced.
PagesFail ==
    /\ step = "pages"
    /\ Fault
    /\ Err
    /\ UNCHANGED <<diskVars, acked, mixed, interrupted>>

HeaderFails ==
    /\ step \in {"header", "header_write"}
    /\ Fault
    /\ Goto(op, "rollback")
    /\ UNCHANGED <<diskVars, handleVars, acked, mixed, interrupted>>

\* pages.bin is put back, if that works; the header is not.
Rollback ==
    /\ step = "rollback"
    /\ \/ /\ pages' = IF saved = NoFile THEN pages ELSE saved
          /\ interrupted' = (interrupted \/ saved = NoFile \/ header = Torn)
          /\ UNCHANGED <<faults, crashes>>
       \/ /\ saved # NoFile
          /\ Fault
          /\ pages' \in {pages, Torn}
          /\ interrupted' = TRUE
    /\ IF Dropping THEN Gone
       ELSE /\ Goto("none", "ready")
            /\ saved' = NoFile
            /\ UNCHANGED <<batch, xN, yN, frags, indexed, dirty, bounds>>
    /\ UNCHANGED <<xs, ys, numObs, meta, sidecar, header, acked, mixed>>

----------------------------------------------------------------------------
(* metadata.json                                                           *)

MetaTruncate ==
    /\ step = "meta"
    /\ meta' = Torn
    /\ Goto(op, "meta_write")
    /\ UNCHANGED <<xs, ys, numObs, sidecar, header, pages, handleVars, ghostVars>>

\* ensure_index_sync of a model that is reopened.
ReopenSyncs == op = "reopen" /\ indexed < xN

\* bpann_write_metadata knows nothing of y_bounds.  A model that is reopened
\* syncs its index next, sync_obs_stats_from_backend.
MetaWrite ==
    /\ step = "meta_write"
    /\ meta' = [obs |-> xN, indexed |-> indexed, bounds |-> "absent"]
    /\ CountWritten
    /\ IF ReopenSyncs
       THEN /\ frags' = Synced(frags, indexed, xN)
            /\ indexed' = xN
       ELSE UNCHANGED <<frags, indexed>>
    /\ CASE Opening        -> /\ numObs' = xN
                              /\ IF ReopenSyncs
                                 THEN Goto("resync", "sidecar") ELSE Goto("open", "bounds")
         [] op = "persist" -> UNCHANGED numObs /\ Goto("persist_end", "sidecar")
         [] op = "drop"    -> UNCHANGED numObs /\ Goto("drop_end", "sidecar")
    /\ interrupted' = (interrupted \/ (~Opening /\ xN # numObs))
    /\ UNCHANGED <<xs, ys, sidecar, header, pages,
                   batch, xN, yN, dirty, bounds, saved, acked, faults, crashes>>

MetaFails ==
    /\ step \in {"meta", "meta_write"}
    /\ Fault
    /\ Err
    /\ interrupted' = (interrupted \/ HalfDone)
    /\ UNCHANGED <<diskVars, acked, mixed>>

\* persist_bounds_metadata reads the file and replaces it; a file without a
\* closing brace is an error.
BoundsTruncate ==
    /\ step = "bounds"
    /\ Readable(meta)
    /\ saved' = meta
    /\ meta' = Torn
    /\ Goto(op, "bounds_write")
    /\ UNCHANGED <<xs, ys, numObs, sidecar, header, pages,
                   batch, xN, yN, frags, indexed, dirty, bounds, ghostVars>>

BoundsWrite ==
    /\ step = "bounds_write"
    /\ meta' = [saved EXCEPT !.bounds = bounds]
    /\ saved' = NoFile
    /\ Ok
    /\ UNCHANGED <<xs, ys, numObs, sidecar, header, pages,
                   batch, xN, yN, frags, indexed, dirty, bounds,
                   mixed, interrupted, faults, crashes>>

\* A model that fails to open drops its backend, which persists.
BoundsFail ==
    /\ \/ /\ step \in {"bounds", "bounds_write"}
          /\ Fault
       \/ /\ step = "bounds"
          /\ ~Readable(meta)
          /\ UNCHANGED <<faults, crashes>>
    /\ IF op = "open" THEN Goto("drop", "persist") ELSE Goto("none", "ready")
    /\ saved' = NoFile
    /\ UNCHANGED <<diskVars, batch, xN, yN, frags, indexed, dirty, bounds,
                   acked, mixed, interrupted>>

----------------------------------------------------------------------------

\* The process dies between two file operations.
Crash ==
    /\ step # "closed"
    /\ crashes < MaxCrashes
    /\ crashes' = crashes + 1
    /\ interrupted' = (interrupted \/ HalfDone)
    /\ Gone
    /\ UNCHANGED <<diskVars, acked, mixed, faults>>

Batches == UNION {[1..n -> Row] : n \in 1..MaxBatch}

OpenStep ==
    \E request \in {"none", "bounded"}, b \in Batches \cup {<<>>} :
        Open(request, b) \/ OpenRefused(request, b)

AddStep  == (\E b \in Batches : AppendX(b)) \/ AppendY \/ AppendFails \/ Commit
SyncStep == Sync \/ Flush \/ SidecarTruncate \/ SidecarWrite \/ SidecarFails
PersistStep ==
    \/ Persist \/ DropAlone \/ PersistStart
    \/ RenamePages \/ HeaderTruncate \/ HeaderWrite
    \/ PagesFail \/ HeaderFails \/ Rollback
    \/ MetaTruncate \/ MetaWrite \/ MetaFails
    \/ BoundsTruncate \/ BoundsWrite \/ BoundsFail

Next == OpenStep \/ AddStep \/ SyncStep \/ PersistStep \/ Crash

Spec == Init /\ [][Next]_vars

----------------------------------------------------------------------------
(* Properties                                                              *)

\* A count on disk, or no file, or a torn one.
FileOf(S) == S \cup {NoFile, Torn}

\* Every variable holds a value of its type.
TypeOK ==
    /\ xs \in [Slots -> Row \cup {NoRow}]
    /\ ys \in [Slots -> Row \cup {NoRow}]
    /\ numObs \in 0..MaxRows
    /\ meta \in FileOf(Metadata)
    /\ sidecar \in FileOf(0..MaxRows)
    /\ header \in FileOf(Nat)
    /\ pages \in FileOf(Covers)
    /\ xN \in 0..MaxRows /\ yN \in 0..MaxRows
    /\ indexed \in 0..MaxRows
    /\ dirty \in BOOLEAN
    /\ bounds \in Bounds
    /\ Len(batch) <= MaxBatch

IsPrefixOf(s, t) == Len(s) <= Len(t) /\ SubSeq(t, 1, Len(s)) = s

\* Every row that an Ok acknowledged is served by the next handle, whatever
\* died or failed since, and every counted row has its x and its own y.
DurableRows ==
    ~mixed =>
        /\ IsPrefixOf(acked, Stored)
        /\ \A i \in 1..LoadNumObs : xs[i] = ys[i] /\ xs[i] # NoRow

\* Between calls, and unless a persist was interrupted, every row below
\* indexed_rows is in exactly one leaf of one fragment and no other row is in
\* any: what was read back from header, pages and sidecar fits together.
IndexCoversOnce ==
    step = "ready" /\ ~interrupted =>
        Covered(frags) = [i \in Slots |-> IF i <= indexed THEN 1 ELSE 0]

\* When persist or drop skips the rewrite, the files already hold the index
\* of every row; index_dirty alone does not tell, an index extended while it
\* was opened is ahead of its files with index_dirty unset.
SkippedRewriteIsSafe ==
    step = "ready" /\ ~interrupted /\ xN > 0 /\ ~NeedsRewrite =>
        /\ header = xN
        /\ pages = [i \in Slots |-> IF i <= xN THEN 1 ELSE 0]

\* No crash between two files and no failed rewrite leaves a header without
\* its pages: a directory whose files are whole can always be opened.
WholeFilesOpen ==
    step = "closed" /\ Torn \notin {meta, header, pages} =>
        ~Refused("none", <<>>) /\ ~IndexRefused(<<>>)

\* assert_eq!(reopened.y_bounds(), &bounds): a model that is opened again has
\* the bounds it was built with (test disk_bounds_reopen).
BoundsReopen ==
    step = "closed" /\ acked # <<>> /\ bounds = "bounded" => LoadBounds = "bounded"

=============================================================================
