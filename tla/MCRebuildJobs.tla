--------------------------- MODULE MCRebuildJobs ---------------------------
(* An ordinary job, one of a deletion and one of a rollback.               *)
EXTENDS RebuildJobs, TLC

CONSTANTS w1, w2

MCSymmetry == Permutations(Worker)
=============================================================================
