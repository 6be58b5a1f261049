---------------------- MODULE MCCommitmentRefinement ----------------------
(***************************************************************************)
(* Small instances of CommitmentRefinement for TLC.                        *)
(***************************************************************************)
EXTENDS CommitmentRefinement

CONSTANTS s1, s2, h0, h1

\* A new database seeded like the toy classes: a baseline that counts, and a
\* week with one edit in force and one reversed before the seed was taken.
SeededBaselines ==
    << [student |-> s1, hours |-> h1, status |-> "approved", effectiveFrom |-> 1] >>

SeededUpdates ==
    << [student |-> s1, week |-> 1, hours |-> h0, reversed |-> TRUE, supersededBy |-> 0],
       [student |-> s1, week |-> 1, hours |-> h0, reversed |-> FALSE, supersededBy |-> 0] >>

NoRows == <<>>
==========================================================================
