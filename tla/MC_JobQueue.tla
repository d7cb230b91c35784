---------------------------- MODULE MC_JobQueue ----------------------------
(* TLC instance of JobQueue: one upstream of one repository.                *)
EXTENDS JobQueue, TLC

CONSTANTS u1, r1

MCRepoOf == u1 :> r1
Symmetry == Permutations(JobIds) \union Permutations(Workers)
=============================================================================
