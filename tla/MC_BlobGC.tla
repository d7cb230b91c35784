----------------------------- MODULE MC_BlobGC -----------------------------
(* TLC instance of BlobGC and of Snapshots.  They meet in the rows that     *)
(* prune_snapshots deletes, which are any rows in BlobGC; otherwise they    *)
(* share no state, and a run is of one of them while the other stays at its *)
(* initial state.                                                           *)
EXTENDS BlobGC, Snapshots, TLC

VARIABLE part

MCInit ==
    /\ part \in {"blobs", "snapshots"}
    /\ Init
    /\ SnapshotsInit

MCNext ==
    \/ part = "blobs" /\ Next /\ UNCHANGED <<snapshotsVars, part>>
    \/ part = "snapshots" /\ SnapshotsNext /\ UNCHANGED <<vars, part>>

MCSpec == MCInit /\ [][MCNext]_<<vars, snapshotsVars, part>>

(* The parts use the same values, so that one set of permutations does for  *)
(* both: Blobs = Variants, Writers = Uploads and Collectors = Prunes.       *)
Symmetry == Permutations(Blobs) \union Permutations(Writers)
              \union Permutations(Collectors) \union Permutations(Repos)
=============================================================================
