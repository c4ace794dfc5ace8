---------------------------- MODULE MCDiskStore ----------------------------
(* DiskStore on small instances.                                           *)
EXTENDS DiskStore, TLC

RowSymmetry == Permutations(Row)
=============================================================================
