------------------------- MODULE MCCommitmentDesk -------------------------
(***************************************************************************)
(* Small instances of CommitmentDesk for TLC.                              *)
(***************************************************************************)
EXTENDS CommitmentDesk, TLC

CONSTANTS s1, h0, h1, t1, t2

\* Day 1 is before the term and day 6 after it; day 3 is between two weeks.
ThreeWeekStarts == <<2, 4, 5>>
ThreeWeekEnds == <<2, 4, 5>>

NoRows == <<>>

ThreadSymmetry == Permutations(Threads)
============================================================================
