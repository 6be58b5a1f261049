------------------------- MODULE MCSnapshotCache -------------------------
(***************************************************************************)
(* Small instances of SnapshotCache for TLC.                               *)
(***************************************************************************)
EXTENDS SnapshotCache, TLC

CONSTANTS t1, t2

ThreadSymmetry == Permutations(Threads)
==========================================================================
