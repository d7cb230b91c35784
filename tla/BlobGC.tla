------------------------------- MODULE BlobGC -------------------------------
(***************************************************************************)
(* The content-addressed object store, the Postgres tables that refer to   *)
(* it, and the garbage collector `sconce gc` that sweeps both.             *)
(*                                                                         *)
(* A writer (a mirror job, a publish, a snapshot upload) stores an object  *)
(* (BlobStore::put), records a row for it (upsert_blob) and only then      *)
(* inserts the row that references it.  The collector scans for rows that  *)
(* nothing references, deletes each row under a re-checked guard and then  *)
(* deletes the object.  The store and the database share no transaction:   *)
(* every call below is a step of its own, and either side may die between  *)
(* two of its steps.                                                       *)
(***************************************************************************)
EXTENDS Integers, FiniteSets

CONSTANTS
    Blobs,        \* sha256 identities of objects
    Repos,        \* repositories
    Keys,         \* (package, normalized_version) keys inside a repository
    SnapshotIds,  \* ids of snapshot rows inside a repository
    Writers,      \* tasks that store content
    Collectors,   \* `sconce gc` processes
    Grace,        \* the --grace-hours window, in ticks
    MaxTime,      \* bound: the clock stops here
    NoBlob        \* absence of a blob

ASSUME BlobGCAssumption ==
    /\ NoBlob \notin Blobs
    /\ IsFiniteSet(Repos \X Keys)
    /\ IsFiniteSet(Repos \X SnapshotIds)
    /\ Grace \in Nat
    /\ MaxTime \in Nat

Versions  == Repos \X Keys
Snapshots == Repos \X SnapshotIds

VARIABLES
    objects,      \* identities present in the object store
    blobs,        \* keys of the rows of table blobs
    refcount,     \* blobs.refcount; 0 where there is no row
    lastSeen,     \* blobs.last_seen_at; 0 where there is no row
    versions,     \* package_versions.dist_blob_sha256, NoBlob where no row
    snapshots,    \* snapshots.blob_sha256, NoBlob where no row
    writer,       \* what each writer has done so far
    collector,    \* the scan result a collector still has to go through
    now,          \* the database clock
    overlapped    \* history: blobs some put of which overlapped a collection

table == <<blobs, refcount, lastSeen>>
vars  == <<objects, table, versions, snapshots, writer, collector, now,
           overlapped>>

Time    == 0 .. MaxTime
BlobOpt == Blobs \union {NoBlob}

(* at: "idle"; "writing" once put() saw no object and writes one; "stored"  *)
(* once put() returned; "seen" once upsert_blob returned, at time `seen`.   *)
WriterState    == [at: {"idle", "writing", "stored", "seen"},
                   blob: BlobOpt, seen: Time]
(* unlink is the blob whose row is deleted and whose object is next.        *)
CollectorState == [todo: SUBSET Blobs, unlink: BlobOpt]

IdleWriter    == [at |-> "idle", blob |-> NoBlob, seen |-> 0]
IdleCollector == [todo |-> {}, unlink |-> NoBlob]

TypeOK ==
    /\ objects \subseteq Blobs
    /\ blobs \subseteq Blobs
    /\ refcount \in [Blobs -> Int]
    /\ lastSeen \in [Blobs -> Time]
    /\ versions \in [Versions -> BlobOpt]
    /\ snapshots \in [Snapshots -> BlobOpt]
    /\ writer \in [Writers -> WriterState]
    /\ collector \in [Collectors -> CollectorState]
    /\ now \in Time
    /\ overlapped \subseteq Blobs

Init ==
    /\ objects = {}
    /\ blobs = {}
    /\ refcount = [b \in Blobs |-> 0]
    /\ lastSeen = [b \in Blobs |-> 0]
    /\ versions = [v \in Versions |-> NoBlob]
    /\ snapshots = [s \in Snapshots |-> NoBlob]
    /\ writer = [w \in Writers |-> IdleWriter]
    /\ collector = [c \in Collectors |-> IdleCollector]
    /\ now = 0
    /\ overlapped = {}

Unlinking(b) == \E c \in Collectors : collector[c].unlink = b

(* A put of b returns: if b's row is gone and its object is about to go,   *)
(* the writer has overlapped the collection.                               *)
MarkPut(b) ==
    overlapped' = IF Unlinking(b) THEN overlapped \union {b} ELSE overlapped

-----------------------------------------------------------------------------
(* Writers.                                                                *)

(* BlobStore::put, first half: the object is there, so put is a no-op.     *)
PutPresent(w, b) ==
    /\ writer[w].at = "idle"
    /\ b \in objects
    /\ writer' = [writer EXCEPT ![w] = [at |-> "stored", blob |-> b, seen |-> 0]]
    /\ MarkPut(b)
    /\ UNCHANGED <<objects, table, versions, snapshots, collector, now>>

(* BlobStore::put, first half: no object; a temporary file gets the bytes. *)
PutAbsent(w, b) ==
    /\ writer[w].at = "idle"
    /\ b \notin objects
    /\ writer' = [writer EXCEPT ![w] = [at |-> "writing", blob |-> b, seen |-> 0]]
    /\ UNCHANGED <<objects, table, versions, snapshots, collector, now, overlapped>>

(* BlobStore::put, second half: the rename (or S3 PUT) publishes the bytes. *)
PutRename(w) ==
    /\ writer[w].at = "writing"
    /\ objects' = objects \union {writer[w].blob}
    /\ writer' = [writer EXCEPT ![w].at = "stored"]
    /\ MarkPut(writer[w].blob)
    /\ UNCHANGED <<table, versions, snapshots, collector, now>>

(* Mutant of UpsertBlob: a known row keeps its old last_seen_at.            *)
UpsertBlob_KeepsSeen(w) ==
    LET b == writer[w].blob IN
    /\ writer[w].at = "stored"
    /\ blobs' = blobs \union {b}
    /\ lastSeen' = IF b \in blobs THEN lastSeen ELSE [lastSeen EXCEPT ![b] = now]
    /\ writer' = [writer EXCEPT ![w].at = "seen", ![w].seen = now]
    /\ UNCHANGED <<objects, refcount, versions, snapshots, collector, now, overlapped>>

(* Catalog::upsert_blob: insert the row, or bump last_seen_at.              *)
UpsertBlob(w) ==
    LET b == writer[w].blob IN
    /\ writer[w].at = "stored"
    /\ blobs' = blobs \union {b}
    /\ lastSeen' = [lastSeen EXCEPT ![b] = now]
    /\ writer' = [writer EXCEPT ![w].at = "seen", ![w].seen = now]
    /\ UNCHANGED <<objects, refcount, versions, snapshots, collector, now, overlapped>>

(* insert_version_once on a free key: the foreign key holds, the row is     *)
(* inserted and trg_blob_refcount counts it, all in one statement.          *)
InsertVersion(w, v) ==
    LET b == writer[w].blob IN
    /\ writer[w].at = "seen"
    /\ versions[v] = NoBlob
    /\ b \in blobs
    /\ versions' = [versions EXCEPT ![v] = b]
    /\ refcount' = [refcount EXCEPT ![b] = @ + 1]
    /\ writer' = [writer EXCEPT ![w] = IdleWriter]
    /\ UNCHANGED <<objects, blobs, lastSeen, snapshots, collector, now, overlapped>>

(* insert_version_once on a taken key: ON CONFLICT DO NOTHING.              *)
KeepVersion(w, v) ==
    /\ writer[w].at = "seen"
    /\ versions[v] # NoBlob
    /\ writer' = [writer EXCEPT ![w] = IdleWriter]
    /\ UNCHANGED <<objects, table, versions, snapshots, collector, now, overlapped>>

(* Mutant of RepointVersion: the trigger forgets to uncount the old bytes.  *)
RepointVersion_KeepsCount(w, v) ==
    LET old == versions[v]
        new == writer[w].blob IN
    /\ writer[w].at = "seen"
    /\ old # NoBlob
    /\ new \in blobs
    /\ versions' = [versions EXCEPT ![v] = new]
    /\ refcount' = IF old = new THEN refcount ELSE [refcount EXCEPT ![new] = @ + 1]
    /\ writer' = [writer EXCEPT ![w] = IdleWriter]
    /\ UNCHANGED <<objects, blobs, lastSeen, snapshots, collector, now, overlapped>>

(* upsert_package_version (git mirror) on a taken key: the version may be   *)
(* repointed, and the trigger moves the count when the bytes differ.        *)
RepointVersion(w, v) ==
    LET old == versions[v]
        new == writer[w].blob IN
    /\ writer[w].at = "seen"
    /\ old # NoBlob
    /\ new \in blobs
    /\ versions' = [versions EXCEPT ![v] = new]
    /\ refcount' = IF old = new THEN refcount
                   ELSE [refcount EXCEPT ![old] = @ - 1, ![new] = @ + 1]
    /\ writer' = [writer EXCEPT ![w] = IdleWriter]
    /\ UNCHANGED <<objects, blobs, lastSeen, snapshots, collector, now, overlapped>>

(* create_snapshot: a fresh id, counted by trg_snapshot_blob_refcount.      *)
CreateSnapshot(w, s) ==
    LET b == writer[w].blob IN
    /\ writer[w].at = "seen"
    /\ snapshots[s] = NoBlob
    /\ b \in blobs
    /\ snapshots' = [snapshots EXCEPT ![s] = b]
    /\ refcount' = [refcount EXCEPT ![b] = @ + 1]
    /\ writer' = [writer EXCEPT ![w] = IdleWriter]
    /\ UNCHANGED <<objects, blobs, lastSeen, versions, collector, now, overlapped>>

(* The foreign key refuses the reference: the row went away since UpsertBlob. *)
ReferenceRefused(w) ==
    /\ writer[w].at = "seen"
    /\ writer[w].blob \notin blobs
    /\ writer' = [writer EXCEPT ![w] = IdleWriter]
    /\ UNCHANGED <<objects, table, versions, snapshots, collector, now, overlapped>>

(* The task stops where it is: a crash, an I/O or database error, or a      *)
(* chunk of an upload, which is put and upserted but never referenced.      *)
Abandon(w) ==
    /\ writer[w].at # "idle"
    /\ writer' = [writer EXCEPT ![w] = IdleWriter]
    /\ UNCHANGED <<objects, table, versions, snapshots, collector, now, overlapped>>

-----------------------------------------------------------------------------
(* References go away.                                                      *)

(* delete_repo: the cascade deletes the version and snapshot rows and the   *)
(* triggers uncount each of them.                                           *)
DeleteRepo(r) ==
    LET ofRepo(refs, b) == {x \in DOMAIN refs : x[1] = r /\ refs[x] = b}
        dropped(refs)   == [x \in DOMAIN refs |->
                              IF x[1] = r THEN NoBlob ELSE refs[x]] IN
    /\ versions' = dropped(versions)
    /\ snapshots' = dropped(snapshots)
    /\ refcount' = [b \in Blobs |-> refcount[b]
                       - Cardinality(ofRepo(versions, b))
                       - Cardinality(ofRepo(snapshots, b))]
    /\ UNCHANGED <<objects, blobs, lastSeen, writer, collector, now, overlapped>>

(* prune_snapshots, one row of its delete (which rows: module Snapshots).   *)
PruneSnapshot(s) ==
    /\ snapshots[s] # NoBlob
    /\ snapshots' = [snapshots EXCEPT ![s] = NoBlob]
    /\ refcount' = [refcount EXCEPT ![snapshots[s]] = @ - 1]
    /\ UNCHANGED <<objects, blobs, lastSeen, versions, writer, collector, now, overlapped>>

-----------------------------------------------------------------------------
(* The collector.                                                           *)

(* The predicate both orphan_blobs and delete_blob_if_orphan evaluate.      *)
IsOrphan(b) ==
    /\ b \in blobs
    /\ refcount[b] = 0
    /\ lastSeen[b] < now - Grace

Scan(c) ==
    LET orphans == {b \in Blobs : IsOrphan(b)} IN
    /\ collector[c] = IdleCollector
    /\ orphans # {}
    /\ collector' = [collector EXCEPT ![c].todo = orphans]
    /\ UNCHANGED <<objects, table, versions, snapshots, writer, now, overlapped>>

(* delete_blob_if_orphan deletes the row; the object is deleted next.       *)
(* A put that returned before this and is not recorded yet is overlapped.   *)
DeleteRow(c, b) ==
    /\ b \in collector[c].todo
    /\ collector[c].unlink = NoBlob
    /\ IsOrphan(b)
    /\ blobs' = blobs \ {b}
    /\ lastSeen' = [lastSeen EXCEPT ![b] = 0]
    /\ collector' = [collector EXCEPT ![c].todo = @ \ {b}, ![c].unlink = b]
    /\ overlapped' = IF \E w \in Writers : writer[w].at = "stored" /\ writer[w].blob = b
                     THEN overlapped \union {b} ELSE overlapped
    /\ UNCHANGED <<objects, refcount, versions, snapshots, writer, now>>

(* Mutant of SkipRow: the object of a skipped blob is deleted all the same. *)
SkipRow_Unlinks(c, b) ==
    /\ b \in collector[c].todo
    /\ collector[c].unlink = NoBlob
    /\ ~ IsOrphan(b)
    /\ collector' = [collector EXCEPT ![c].todo = @ \ {b}, ![c].unlink = b]
    /\ UNCHANGED <<objects, table, versions, snapshots, writer, now, overlapped>>

(* delete_blob_if_orphan finds the guard false: the blob is skipped.        *)
SkipRow(c, b) ==
    /\ b \in collector[c].todo
    /\ collector[c].unlink = NoBlob
    /\ ~ IsOrphan(b)
    /\ collector' = [collector EXCEPT ![c].todo = @ \ {b}]
    /\ UNCHANGED <<objects, table, versions, snapshots, writer, now, overlapped>>

(* BlobStore::delete, idempotent.                                           *)
DeleteObject(c) ==
    /\ collector[c].unlink # NoBlob
    /\ objects' = objects \ {collector[c].unlink}
    /\ collector' = [collector EXCEPT ![c].unlink = NoBlob]
    /\ UNCHANGED <<table, versions, snapshots, writer, now, overlapped>>

(* BlobStore::delete fails; the error is logged and the sweep goes on.      *)
DeleteObjectFails(c) ==
    /\ collector[c].unlink # NoBlob
    /\ collector' = [collector EXCEPT ![c].unlink = NoBlob]
    /\ UNCHANGED <<objects, table, versions, snapshots, writer, now, overlapped>>

(* The process dies, or a database error ends the sweep.                    *)
CollectorCrash(c) ==
    /\ collector[c] # IdleCollector
    /\ collector' = [collector EXCEPT ![c] = IdleCollector]
    /\ UNCHANGED <<objects, table, versions, snapshots, writer, now, overlapped>>

Tick ==
    /\ now < MaxTime
    /\ now' = now + 1
    /\ UNCHANGED <<objects, table, versions, snapshots, writer, collector, overlapped>>

-----------------------------------------------------------------------------
WriterStep(w) ==
    \/ \E b \in Blobs : PutPresent(w, b) \/ PutAbsent(w, b)
    \/ PutRename(w)
    \/ UpsertBlob(w)
    \/ \E v \in Versions : InsertVersion(w, v) \/ KeepVersion(w, v) \/ RepointVersion(w, v)
    \/ \E s \in Snapshots : CreateSnapshot(w, s)
    \/ ReferenceRefused(w)
    \/ Abandon(w)

CollectorStep(c) ==
    \/ Scan(c)
    \/ \E b \in Blobs : DeleteRow(c, b) \/ SkipRow(c, b)
    \/ DeleteObject(c)
    \/ DeleteObjectFails(c)
    \/ CollectorCrash(c)

Next ==
    \/ \E w \in Writers : WriterStep(w)
    \/ \E c \in Collectors : CollectorStep(c)
    \/ \E r \in Repos : DeleteRepo(r)
    \/ \E s \in Snapshots : PruneSnapshot(s)
    \/ Tick

Spec == Init /\ [][Next]_vars

-----------------------------------------------------------------------------
VersionRefs(b)  == {v \in Versions : versions[v] = b}
SnapshotRefs(b) == {s \in Snapshots : snapshots[s] = b}
Referenced(b)   == VersionRefs(b) # {} \/ SnapshotRefs(b) # {}

(* "so the count can never drift" (migration 0036): through every insert,   *)
(* repoint, prune and cascade the count is the number of referencing rows,  *)
(* and a row that was collected and recorded again starts at none.          *)
RefcountExact ==
    \A b \in Blobs :
        refcount[b] = Cardinality(VersionRefs(b)) + Cardinality(SnapshotRefs(b))

(* The guard of delete_blob_if_orphan is enough: no sweep, however stale    *)
(* its scan, removes the row of a blob that a version or snapshot holds,    *)
(* so the foreign key never has to refuse the collector's delete.           *)
ReferencedHasRow == \A b \in Blobs : Referenced(b) => b \in blobs

(* The grace window does what upsert_blob's comment wants of it: a writer   *)
(* that references its blob within the window finds the row still there.    *)
GraceProtects ==
    \A w \in Writers :
        writer[w].at = "seen" /\ now <= writer[w].seen + Grace
            => writer[w].blob \in blobs

(* A row stands without its object only where a put overlapped the          *)
(* collection of the same blob: outside that window a sweep loses nothing,  *)
(* whatever crashes, retries or concurrent sweeps there are.                *)
LossNeedsOverlap == \A b \in blobs : b \in objects \/ b \in overlapped
=============================================================================
