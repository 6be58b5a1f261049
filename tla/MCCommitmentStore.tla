------------------------ MODULE MCCommitmentStore ------------------------
(***************************************************************************)
(* Small instances of CommitmentStore for TLC.                             *)
(***************************************************************************)
EXTENDS CommitmentStore, TLC

CONSTANTS s1, s2, h0, h1

NoRows == <<>>

\* No operation tells students apart, and none is seeded.
StudentSymmetry == Permutations(Students)
==========================================================================
