------------------------------ MODULE IndexedLog ------------------------------
(***************************************************************************)
(* What the disk backend promises of its two row counts, whoever flushes   *)
(* and when: rows are only ever added, and the indexed prefix moves only   *)
(* by jumping to the end of the rows stored at that moment.                *)
(***************************************************************************)
EXTENDS Integers

VARIABLES len, indexed

logVars == <<len, indexed>>

LogInit == len \in Nat /\ indexed \in 0..len

\* New rows, indexed by the call that stored them or left pending.
Add == /\ len' \in Nat
       /\ len' > len
       /\ indexed' \in {indexed, len'}

\* A soft sync: everything stored becomes indexed.
Sync == indexed' = len /\ UNCHANGED len

LogNext == Add \/ Sync

LogSpec == LogInit /\ [][LogNext]_logVars
=============================================================================
