--------------------------- MODULE BlobGC_proofs ---------------------------
(* Type correctness and the safety invariants of BlobGC, for every set of   *)
(* blobs, repositories, writers and collectors, every grace and every       *)
(* length of time.                                                          *)
EXTENDS BlobGC, FiniteSetTheorems, TLAPS

-----------------------------------------------------------------------------
(* Counting the rows that hold a blob.  T stands for a table, a function    *)
(* from row keys S to what each row holds.                                  *)

(* When the rows E of F are deleted, as many fewer hold the blob.           *)
LEMMA CountDropped ==
    ASSUME NEW F, IsFiniteSet(F), NEW E, E \subseteq F, NEW G, G = F \ E
    PROVE  /\ Cardinality(F) \in Nat
           /\ Cardinality(E) \in Nat
           /\ Cardinality(G) = Cardinality(F) - Cardinality(E)
<1>1. IsFiniteSet(E) /\ F \intersect E = E
  BY FS_Subset
<1>2. Cardinality(F) \in Nat /\ Cardinality(E) \in Nat
  BY <1>1, FS_CardinalityType
<1>3. Cardinality(F \ E) = Cardinality(F) - Cardinality(F \intersect E)
  BY FS_Difference
<1>. QED
  BY <1>1, <1>2, <1>3

-----------------------------------------------------------------------------
(* Types.  A writer that is not idle has a blob, which the types of what    *)
(* upsert_blob and the rename add depend on.                                *)
WriterHasBlob == \A w \in Writers : writer[w].at # "idle" => writer[w].blob \in Blobs

TypeInv == TypeOK /\ WriterHasBlob

LEMMA InitType == Init => TypeInv
BY BlobGCAssumption DEF Init, TypeInv, TypeOK, WriterHasBlob, IdleWriter,
   IdleCollector, WriterState, CollectorState, Time, BlobOpt

LEMMA WriterType ==
    ASSUME TypeInv, NEW w \in Writers, WriterStep(w)
    PROVE  TypeInv'
<1>. USE DEF TypeInv, TypeOK, WriterHasBlob, WriterState, BlobOpt, Time, table, MarkPut
<1>1. ASSUME NEW b \in Blobs, PutPresent(w, b) PROVE TypeInv'
  BY <1>1, BlobGCAssumption DEF PutPresent
<1>2. ASSUME NEW b \in Blobs, PutAbsent(w, b) PROVE TypeInv'
  BY <1>2, BlobGCAssumption DEF PutAbsent
<1>3. CASE PutRename(w)
  BY <1>3 DEF PutRename
<1>4. CASE UpsertBlob(w)
  BY <1>4 DEF UpsertBlob
<1>5. ASSUME NEW v \in Versions, InsertVersion(w, v) PROVE TypeInv'
  BY <1>5, BlobGCAssumption DEF InsertVersion, IdleWriter
<1>6. ASSUME NEW v \in Versions, KeepVersion(w, v) PROVE TypeInv'
  BY <1>6, BlobGCAssumption DEF KeepVersion, IdleWriter
<1>7. ASSUME NEW v \in Versions, RepointVersion(w, v) PROVE TypeInv'
  BY <1>7, BlobGCAssumption DEF RepointVersion, IdleWriter
<1>8. ASSUME NEW s \in Snapshots, CreateSnapshot(w, s) PROVE TypeInv'
  BY <1>8, BlobGCAssumption DEF CreateSnapshot, IdleWriter
<1>9. CASE ReferenceRefused(w)
  BY <1>9, BlobGCAssumption DEF ReferenceRefused, IdleWriter
<1>10. CASE Abandon(w)
  BY <1>10, BlobGCAssumption DEF Abandon, IdleWriter
<1>. QED
  BY <1>1, <1>2, <1>3, <1>4, <1>5, <1>6, <1>7, <1>8, <1>9, <1>10 DEF WriterStep

LEMMA CollectorType ==
    ASSUME TypeInv, NEW c \in Collectors, CollectorStep(c)
    PROVE  TypeInv'
<1>. USE DEF TypeInv, TypeOK, WriterHasBlob, CollectorState, BlobOpt, Time, table
<1>1. CASE Scan(c)
  BY <1>1 DEF Scan
<1>2. ASSUME NEW b \in Blobs, DeleteRow(c, b) PROVE TypeInv'
  BY <1>2, BlobGCAssumption DEF DeleteRow
<1>3. ASSUME NEW b \in Blobs, SkipRow(c, b) PROVE TypeInv'
  BY <1>3 DEF SkipRow
<1>4. CASE DeleteObject(c)
  BY <1>4 DEF DeleteObject
<1>5. CASE DeleteObjectFails(c)
  BY <1>5 DEF DeleteObjectFails
<1>6. CASE CollectorCrash(c)
  BY <1>6 DEF CollectorCrash, IdleCollector
<1>. QED
  BY <1>1, <1>2, <1>3, <1>4, <1>5, <1>6 DEF CollectorStep

LEMMA TablesType ==
    ASSUME TypeInv,
           \/ \E r \in Repos : DeleteRepo(r)
           \/ \E s \in Snapshots : PruneSnapshot(s)
           \/ Tick
    PROVE  TypeInv'
<1>. USE DEF TypeInv, TypeOK, WriterHasBlob, BlobOpt, Time, table
<1>1. ASSUME NEW r \in Repos, DeleteRepo(r) PROVE TypeInv'
  <2>1. ASSUME NEW b \in Blobs
        PROVE  /\ Cardinality({x \in Versions : x[1] = r /\ versions[x] = b}) \in Nat
               /\ Cardinality({x \in Snapshots : x[1] = r /\ snapshots[x] = b}) \in Nat
    <3>1. /\ IsFiniteSet(Versions) /\ IsFiniteSet(Snapshots)
          /\ {x \in Versions : x[1] = r /\ versions[x] = b} \in SUBSET Versions
          /\ {x \in Snapshots : x[1] = r /\ snapshots[x] = b} \in SUBSET Snapshots
      BY BlobGCAssumption DEF Versions, Snapshots
    <3>. QED
      BY ONLY <3>1, FS_Subset, FS_CardinalityType
  <2>2. refcount' \in [Blobs -> Int]
    BY <1>1, <2>1 DEF DeleteRepo
  <2>. QED
    BY <1>1, <2>2 DEF DeleteRepo
<1>2. ASSUME NEW s \in Snapshots, PruneSnapshot(s) PROVE TypeInv'
  BY <1>2, BlobGCAssumption DEF PruneSnapshot
<1>3. CASE Tick
  BY <1>3, BlobGCAssumption DEF Tick
<1>. QED
  BY <1>1, <1>2, <1>3

LEMMA StutterType == ASSUME TypeInv, UNCHANGED vars PROVE TypeInv'
BY DEF TypeInv, TypeOK, WriterHasBlob, vars, table

LEMMA TypeInvariant == Spec => []TypeInv
<1>1. Init => TypeInv
  BY InitType
<1>2. TypeInv /\ [Next]_vars => TypeInv'
  BY WriterType, CollectorType, TablesType, StutterType DEF Next
<1>. QED
  BY <1>1, <1>2, PTL DEF Spec

(* Every reachable state has the types the tables declare.                  *)
THEOREM TypeCorrect == Spec => []TypeOK
BY TypeInvariant, PTL DEF TypeInv

-----------------------------------------------------------------------------
(* The reference count.                                                     *)

LEMMA RefsFinite ==
    \A b : IsFiniteSet(VersionRefs(b)) /\ IsFiniteSet(SnapshotRefs(b))
<1>1. IsFiniteSet(Versions) /\ IsFiniteSet(Snapshots)
  BY BlobGCAssumption DEF Versions, Snapshots
<1>2. \A b : VersionRefs(b) \in SUBSET Versions /\ SnapshotRefs(b) \in SUBSET Snapshots
  BY DEF VersionRefs, SnapshotRefs
<1>. QED
  BY ONLY <1>1, <1>2, FS_Subset

LEMMA CountUnchanged ==
    ASSUME RefcountExact, UNCHANGED <<refcount, versions, snapshots>>
    PROVE  RefcountExact'
BY DEF RefcountExact, VersionRefs, SnapshotRefs

LEMMA InitCount == Init => RefcountExact
<1>. SUFFICES ASSUME Init, NEW b \in Blobs
              PROVE  refcount[b] = Cardinality(VersionRefs(b)) + Cardinality(SnapshotRefs(b))
  BY DEF RefcountExact
<1>1. VersionRefs(b) = {} /\ SnapshotRefs(b) = {}
  BY BlobGCAssumption DEF Init, VersionRefs, SnapshotRefs
<1>. QED
  BY <1>1, FS_EmptySet DEF Init

(* A version row comes to hold b, whatever it held before.                  *)
LEMMA CountVersion ==
    ASSUME TypeOK, RefcountExact, NEW v \in Versions, NEW b \in Blobs,
           versions' = [versions EXCEPT ![v] = b],
           refcount' = IF versions[v] = b THEN refcount
                       ELSE IF versions[v] = NoBlob
                       THEN [refcount EXCEPT ![b] = @ + 1]
                       ELSE [refcount EXCEPT ![versions[v]] = @ - 1, ![b] = @ + 1],
           snapshots' = snapshots
    PROVE  RefcountExact'
<1>. SUFFICES ASSUME NEW d \in Blobs
              PROVE  refcount'[d] = Cardinality(VersionRefs(d)') + Cardinality(SnapshotRefs(d)')
  BY DEF RefcountExact
<1>1. /\ Cardinality(VersionRefs(d)) \in Nat
      /\ Cardinality(VersionRefs(d)') = Cardinality(VersionRefs(d))
           + (IF b = d THEN (IF versions[v] = d THEN 0 ELSE 1)
                       ELSE (IF versions[v] = d THEN -1 ELSE 0))
  <2>1. /\ IsFiniteSet(VersionRefs(d)) /\ Cardinality(VersionRefs(d)) \in Nat
        /\ v \in VersionRefs(d) <=> versions[v] = d
    BY RefsFinite, FS_CardinalityType DEF VersionRefs
  <2>2. CASE b = d
    <3>1. VersionRefs(d)' = VersionRefs(d) \union {v}
      BY <2>2 DEF VersionRefs, TypeOK
    <3>2. Cardinality(VersionRefs(d) \union {v}) =
            IF v \in VersionRefs(d) THEN Cardinality(VersionRefs(d)) ELSE Cardinality(VersionRefs(d)) + 1
      BY ONLY <2>1, FS_AddElement
    <3>. QED
      BY ONLY <2>1, <2>2, <3>1, <3>2
  <2>3. CASE b # d
    <3>1. VersionRefs(d)' = VersionRefs(d) \ {v}
      BY <2>3 DEF VersionRefs, TypeOK
    <3>2. Cardinality(VersionRefs(d) \ {v}) =
            IF v \in VersionRefs(d) THEN Cardinality(VersionRefs(d)) - 1 ELSE Cardinality(VersionRefs(d))
      BY ONLY <2>1, FS_RemoveElement
    <3>. QED
      BY ONLY <2>1, <2>3, <3>1, <3>2
  <2>. QED
    BY <2>2, <2>3
<1>2. Cardinality(SnapshotRefs(d)') = Cardinality(SnapshotRefs(d))
  BY DEF SnapshotRefs
<1>3. Cardinality(SnapshotRefs(d)) \in Nat
  BY RefsFinite, FS_CardinalityType
<1>4. refcount[d] = Cardinality(VersionRefs(d)) + Cardinality(SnapshotRefs(d))
  BY DEF RefcountExact
<1>5. refcount'[d] = refcount[d] + (IF b = d THEN (IF versions[v] = d THEN 0 ELSE 1)
                                   ELSE (IF versions[v] = d THEN -1 ELSE 0))
  BY BlobGCAssumption DEF TypeOK, BlobOpt
<1>. QED
  BY <1>1, <1>2, <1>3, <1>4, <1>5

(* A snapshot row comes to hold `new`: it appears (old is NoBlob) or goes.  *)
LEMMA CountSnapshot ==
    ASSUME TypeOK, RefcountExact, NEW s \in Snapshots, NEW new \in BlobOpt,
           (new = NoBlob) # (snapshots[s] = NoBlob),
           snapshots' = [snapshots EXCEPT ![s] = new],
           refcount' = IF new = NoBlob
                       THEN [refcount EXCEPT ![snapshots[s]] = @ - 1]
                       ELSE [refcount EXCEPT ![new] = @ + 1],
           versions' = versions
    PROVE  RefcountExact'
<1>. SUFFICES ASSUME NEW d \in Blobs
              PROVE  refcount'[d] = Cardinality(VersionRefs(d)') + Cardinality(SnapshotRefs(d)')
  BY DEF RefcountExact
<1>1. /\ Cardinality(SnapshotRefs(d)) \in Nat
      /\ Cardinality(SnapshotRefs(d)') = Cardinality(SnapshotRefs(d))
           + (IF new = d THEN (IF snapshots[s] = d THEN 0 ELSE 1)
                       ELSE (IF snapshots[s] = d THEN -1 ELSE 0))
  <2>1. /\ IsFiniteSet(SnapshotRefs(d)) /\ Cardinality(SnapshotRefs(d)) \in Nat
        /\ s \in SnapshotRefs(d) <=> snapshots[s] = d
    BY RefsFinite, FS_CardinalityType DEF SnapshotRefs
  <2>2. CASE new = d
    <3>1. SnapshotRefs(d)' = SnapshotRefs(d) \union {s}
      BY <2>2 DEF SnapshotRefs, TypeOK
    <3>2. Cardinality(SnapshotRefs(d) \union {s}) =
            IF s \in SnapshotRefs(d) THEN Cardinality(SnapshotRefs(d)) ELSE Cardinality(SnapshotRefs(d)) + 1
      BY ONLY <2>1, FS_AddElement
    <3>. QED
      BY ONLY <2>1, <2>2, <3>1, <3>2
  <2>3. CASE new # d
    <3>1. SnapshotRefs(d)' = SnapshotRefs(d) \ {s}
      BY <2>3 DEF SnapshotRefs, TypeOK
    <3>2. Cardinality(SnapshotRefs(d) \ {s}) =
            IF s \in SnapshotRefs(d) THEN Cardinality(SnapshotRefs(d)) - 1 ELSE Cardinality(SnapshotRefs(d))
      BY ONLY <2>1, FS_RemoveElement
    <3>. QED
      BY ONLY <2>1, <2>3, <3>1, <3>2
  <2>. QED
    BY <2>2, <2>3
<1>2. Cardinality(VersionRefs(d)') = Cardinality(VersionRefs(d))
  BY DEF VersionRefs
<1>3. Cardinality(VersionRefs(d)) \in Nat
  BY RefsFinite, FS_CardinalityType
<1>4. refcount[d] = Cardinality(VersionRefs(d)) + Cardinality(SnapshotRefs(d))
  BY DEF RefcountExact
<1>5. refcount'[d] = refcount[d] + (IF new = d THEN (IF snapshots[s] = d THEN 0 ELSE 1)
                                   ELSE (IF snapshots[s] = d THEN -1 ELSE 0))
  BY BlobGCAssumption DEF TypeOK, BlobOpt
<1>. QED
  BY <1>1, <1>2, <1>3, <1>4, <1>5

(* The cascade of delete_repo.                                              *)
LEMMA CountDeleteRepo ==
    ASSUME TypeOK, RefcountExact, NEW r \in Repos, DeleteRepo(r)
    PROVE  RefcountExact'
<1>. SUFFICES ASSUME NEW d \in Blobs
              PROVE  refcount'[d] = Cardinality(VersionRefs(d)') + Cardinality(SnapshotRefs(d)')
  BY DEF RefcountExact
<1>. DEFINE VDropped == {x \in Versions : x[1] = r /\ versions[x] = d}
            SDropped == {x \in Snapshots : x[1] = r /\ snapshots[x] = d}
<1>1. d # NoBlob
  BY BlobGCAssumption
<1>2. /\ VDropped \subseteq VersionRefs(d)
      /\ VersionRefs(d)' = VersionRefs(d) \ VDropped
  BY <1>1 DEF DeleteRepo, TypeOK, VersionRefs
<1>3. /\ SDropped \subseteq SnapshotRefs(d)
      /\ SnapshotRefs(d)' = SnapshotRefs(d) \ SDropped
  BY <1>1 DEF DeleteRepo, TypeOK, SnapshotRefs
<1>4. /\ Cardinality(VersionRefs(d)) \in Nat
      /\ Cardinality(VDropped) \in Nat
      /\ Cardinality(VersionRefs(d)') = Cardinality(VersionRefs(d)) - Cardinality(VDropped)
  BY ONLY <1>2, RefsFinite, CountDropped
<1>5. /\ Cardinality(SnapshotRefs(d)) \in Nat
      /\ Cardinality(SDropped) \in Nat
      /\ Cardinality(SnapshotRefs(d)') = Cardinality(SnapshotRefs(d)) - Cardinality(SDropped)
  BY ONLY <1>3, RefsFinite, CountDropped
<1>6. refcount'[d] = refcount[d] - Cardinality(VDropped) - Cardinality(SDropped)
  BY DEF DeleteRepo, TypeOK
<1>7. refcount[d] = Cardinality(VersionRefs(d)) + Cardinality(SnapshotRefs(d))
  BY DEF RefcountExact
<1>. QED
  BY <1>4, <1>5, <1>6, <1>7

LEMMA NextCount ==
    ASSUME TypeInv, RefcountExact, [Next]_vars
    PROVE  RefcountExact'
<1>. USE DEF TypeInv
<1>1. ASSUME NEW w \in Writers, WriterStep(w) PROVE RefcountExact'
  <2>1. ASSUME NEW v \in Versions, InsertVersion(w, v) PROVE RefcountExact'
    BY <2>1, CountVersion, BlobGCAssumption DEF InsertVersion, WriterHasBlob
  <2>2. ASSUME NEW v \in Versions, RepointVersion(w, v) PROVE RefcountExact'
    BY <2>2, CountVersion, BlobGCAssumption DEF RepointVersion, WriterHasBlob
  <2>3. ASSUME NEW s \in Snapshots, CreateSnapshot(w, s) PROVE RefcountExact'
    BY <2>3, CountSnapshot, BlobGCAssumption DEF CreateSnapshot, WriterHasBlob, BlobOpt
  <2>4. ASSUME \/ \E b \in Blobs : PutPresent(w, b) \/ PutAbsent(w, b)
               \/ PutRename(w) \/ UpsertBlob(w)
               \/ \E v \in Versions : KeepVersion(w, v)
               \/ ReferenceRefused(w) \/ Abandon(w)
        PROVE  RefcountExact'
    BY <2>4, CountUnchanged DEF PutPresent, PutAbsent, PutRename, UpsertBlob,
       KeepVersion, ReferenceRefused, Abandon, table
  <2>. QED
    BY <1>1, <2>1, <2>2, <2>3, <2>4 DEF WriterStep
<1>2. ASSUME NEW c \in Collectors, CollectorStep(c) PROVE RefcountExact'
  BY <1>2, CountUnchanged DEF CollectorStep, Scan, DeleteRow, SkipRow,
     DeleteObject, DeleteObjectFails, CollectorCrash, table
<1>3. ASSUME NEW r \in Repos, DeleteRepo(r) PROVE RefcountExact'
  BY <1>3, CountDeleteRepo
<1>4. ASSUME NEW s \in Snapshots, PruneSnapshot(s) PROVE RefcountExact'
  BY <1>4, CountSnapshot DEF PruneSnapshot, BlobOpt
<1>5. ASSUME Tick \/ UNCHANGED vars PROVE RefcountExact'
  BY <1>5, CountUnchanged DEF Tick, vars, table
<1>. QED
  BY <1>1, <1>2, <1>3, <1>4, <1>5 DEF Next

(* blobs.refcount is the number of version and snapshot rows that hold the  *)
(* blob, in every reachable state: the triggers never let it drift.         *)
THEOREM CountCorrect == Spec => []RefcountExact
<1>1. Init => RefcountExact
  BY InitCount
<1>2. TypeInv /\ RefcountExact /\ [Next]_vars => RefcountExact'
  BY NextCount
<1>. QED
  BY <1>1, <1>2, TypeInvariant, PTL DEF Spec

-----------------------------------------------------------------------------
(* Rows of referenced blobs.  The collector's guard reads the count, so     *)
(* exactness of the count is what makes the guard sufficient.               *)

LEMMA OrphanUnreferenced ==
    ASSUME RefcountExact, NEW b \in Blobs, IsOrphan(b)
    PROVE  ~ Referenced(b)
<1>1. /\ IsFiniteSet(VersionRefs(b)) /\ Cardinality(VersionRefs(b)) \in Nat
      /\ IsFiniteSet(SnapshotRefs(b)) /\ Cardinality(SnapshotRefs(b)) \in Nat
  BY RefsFinite, FS_CardinalityType
<1>2. Cardinality(VersionRefs(b)) + Cardinality(SnapshotRefs(b)) = 0
  BY DEF RefcountExact, IsOrphan
<1>3. Cardinality(VersionRefs(b)) = 0 /\ Cardinality(SnapshotRefs(b)) = 0
  BY <1>1, <1>2
<1>. QED
  BY <1>1, <1>3, FS_EmptySet DEF Referenced

LEMMA NextRow ==
    ASSUME TypeInv, RefcountExact, ReferencedHasRow, [Next]_vars
    PROVE  ReferencedHasRow'
<1>. USE DEF ReferencedHasRow, Referenced, VersionRefs, SnapshotRefs
<1>1. ASSUME NEW w \in Writers, WriterStep(w) PROVE ReferencedHasRow'
  <2>1. ASSUME NEW v \in Versions, InsertVersion(w, v) \/ RepointVersion(w, v)
        PROVE  ReferencedHasRow'
    BY <2>1 DEF InsertVersion, RepointVersion, TypeInv, TypeOK
  <2>2. ASSUME NEW s \in Snapshots, CreateSnapshot(w, s) PROVE ReferencedHasRow'
    BY <2>2 DEF CreateSnapshot, TypeInv, TypeOK
  <2>3. ASSUME \/ \E b \in Blobs : PutPresent(w, b) \/ PutAbsent(w, b)
               \/ PutRename(w) \/ UpsertBlob(w)
               \/ \E v \in Versions : KeepVersion(w, v)
               \/ ReferenceRefused(w) \/ Abandon(w)
        PROVE  ReferencedHasRow'
    BY <2>3 DEF PutPresent, PutAbsent, PutRename, UpsertBlob, KeepVersion,
       ReferenceRefused, Abandon, table
  <2>. QED
    BY <1>1, <2>1, <2>2, <2>3 DEF WriterStep
<1>2. ASSUME NEW c \in Collectors, CollectorStep(c) PROVE ReferencedHasRow'
  <2>1. ASSUME NEW b \in Blobs, DeleteRow(c, b) PROVE ReferencedHasRow'
    <3>1. ~ Referenced(b)
      BY <2>1, OrphanUnreferenced DEF DeleteRow
    <3>. QED
      BY <2>1, <3>1 DEF DeleteRow
  <2>2. ASSUME \/ Scan(c) \/ \E b \in Blobs : SkipRow(c, b)
               \/ DeleteObject(c) \/ DeleteObjectFails(c) \/ CollectorCrash(c)
        PROVE  ReferencedHasRow'
    BY <2>2 DEF Scan, SkipRow, DeleteObject, DeleteObjectFails, CollectorCrash, table
  <2>. QED
    BY <1>2, <2>1, <2>2 DEF CollectorStep
<1>3. ASSUME NEW r \in Repos, DeleteRepo(r) PROVE ReferencedHasRow'
  BY <1>3, BlobGCAssumption DEF DeleteRepo, TypeInv, TypeOK
<1>4. ASSUME NEW s \in Snapshots, PruneSnapshot(s) PROVE ReferencedHasRow'
  BY <1>4, BlobGCAssumption DEF PruneSnapshot, TypeInv, TypeOK
<1>5. ASSUME Tick \/ UNCHANGED vars PROVE ReferencedHasRow'
  BY <1>5 DEF Tick, vars, table
<1>. QED
  BY <1>1, <1>2, <1>3, <1>4, <1>5 DEF Next

(* A blob that some version or snapshot holds keeps its row through every   *)
(* sweep, by the collector's own guard and without help of the foreign key. *)
THEOREM RowsKept == Spec => []ReferencedHasRow
<1>1. Init => ReferencedHasRow
  BY BlobGCAssumption DEF Init, ReferencedHasRow, Referenced, VersionRefs, SnapshotRefs
<1>2. TypeInv /\ RefcountExact /\ ReferencedHasRow /\ [Next]_vars => ReferencedHasRow'
  BY NextRow
<1>. QED
  BY <1>1, <1>2, TypeInvariant, CountCorrect, PTL DEF Spec

-----------------------------------------------------------------------------
(* The grace window.  A writer's upsert stamps the row with its own time    *)
(* and later upserts only move the stamp forward, so the row can go only    *)
(* after the writer's window closed.                                        *)
SeenInv ==
    \A w \in Writers : writer[w].at = "seen" =>
        /\ writer[w].seen <= now
        /\ \/ writer[w].blob \in blobs /\ writer[w].seen <= lastSeen[writer[w].blob]
           \/ now > writer[w].seen + Grace

LEMMA NextSeen ==
    ASSUME TypeInv, SeenInv, [Next]_vars
    PROVE  SeenInv'
<1>. USE BlobGCAssumption DEF TypeInv, TypeOK, WriterHasBlob, WriterState, Time, SeenInv, table
<1>1. ASSUME NEW w \in Writers, WriterStep(w) PROVE SeenInv'
  <2>1. CASE UpsertBlob(w)
    BY <2>1 DEF UpsertBlob
  <2>2. ASSUME UNCHANGED <<blobs, lastSeen, now>>, NEW new,
               writer' = [writer EXCEPT ![w] = new], new.at # "seen"
        PROVE  SeenInv'
    BY <2>2
  <2>3. CASE PutRename(w)
    BY <2>3 DEF PutRename
  <2>. QED
    BY <1>1, <2>1, <2>2, <2>3 DEF WriterStep, PutPresent, PutAbsent, InsertVersion,
       KeepVersion, RepointVersion, CreateSnapshot, ReferenceRefused, Abandon, IdleWriter
<1>2. ASSUME NEW c \in Collectors, CollectorStep(c) PROVE SeenInv'
  <2>1. ASSUME NEW b \in Blobs, DeleteRow(c, b) PROVE SeenInv'
    <3>1. now > lastSeen[b] + Grace
      BY <2>1 DEF DeleteRow, IsOrphan
    <3>. QED
      BY <2>1, <3>1 DEF DeleteRow
  <2>2. ASSUME UNCHANGED <<blobs, lastSeen, now, writer>> PROVE SeenInv'
    BY <2>2
  <2>. QED
    BY <1>2, <2>1, <2>2 DEF CollectorStep, Scan, SkipRow, DeleteObject,
       DeleteObjectFails, CollectorCrash
<1>3. CASE Tick
  BY <1>3 DEF Tick
<1>4. ASSUME \/ \E r \in Repos : DeleteRepo(r)
             \/ \E s \in Snapshots : PruneSnapshot(s)
             \/ UNCHANGED vars
      PROVE  SeenInv'
  BY <1>4 DEF DeleteRepo, PruneSnapshot, vars
<1>. QED
  BY <1>1, <1>2, <1>3, <1>4 DEF Next

(* A writer that inserts its reference within Grace of its upsert_blob      *)
(* finds the row, whatever the collectors do meanwhile.                     *)
THEOREM GraceCorrect == Spec => []GraceProtects
<1>1. Init => SeenInv
  BY DEF Init, SeenInv, IdleWriter
<1>2. TypeInv /\ SeenInv /\ [Next]_vars => SeenInv'
  BY NextSeen
<1>3. TypeInv /\ SeenInv => GraceProtects
  BY BlobGCAssumption DEF TypeInv, TypeOK, WriterState, Time, SeenInv, GraceProtects
<1>. QED
  BY <1>1, <1>2, <1>3, TypeInvariant, PTL DEF Spec

-----------------------------------------------------------------------------
(* Where an object can be lost.  An object is at risk while a collector     *)
(* that deleted its row has yet to delete it; a put returning, or waiting   *)
(* to be recorded, at such a moment is what `overlapped` records.           *)
StoredPut(b) == \E w \in Writers : writer[w].at = "stored" /\ writer[w].blob = b

OverlapInv ==
    \A b \in Blobs : b \in blobs \/ StoredPut(b) =>
        /\ b \in objects \/ b \in overlapped
        /\ Unlinking(b) => b \in overlapped

LEMMA NextOverlap ==
    ASSUME TypeInv, OverlapInv, [Next]_vars
    PROVE  OverlapInv'
<1>. USE BlobGCAssumption
     DEF TypeInv, TypeOK, WriterHasBlob, OverlapInv, StoredPut, Unlinking, BlobOpt, table
<1>1. ASSUME NEW w \in Writers, WriterStep(w) PROVE OverlapInv'
  <2>1. ASSUME NEW b \in Blobs, PutPresent(w, b) PROVE OverlapInv'
    BY <2>1 DEF PutPresent, MarkPut
  <2>2. CASE PutRename(w)
    BY <2>2 DEF PutRename, MarkPut, WriterState
  <2>3. CASE UpsertBlob(w)
    BY <2>3 DEF UpsertBlob, WriterState
  <2>4. ASSUME UNCHANGED <<objects, blobs, collector, overlapped>>, NEW new,
               writer' = [writer EXCEPT ![w] = new], new.at # "stored"
        PROVE  OverlapInv'
    BY <2>4
  <2>. QED
    BY <1>1, <2>1, <2>2, <2>3, <2>4 DEF WriterStep, PutAbsent, InsertVersion,
       KeepVersion, RepointVersion, CreateSnapshot, ReferenceRefused, Abandon, IdleWriter
<1>2. ASSUME NEW c \in Collectors, CollectorStep(c) PROVE OverlapInv'
  <2>1. ASSUME NEW b \in Blobs, DeleteRow(c, b) PROVE OverlapInv'
    BY <2>1 DEF DeleteRow, CollectorState
  <2>2. CASE DeleteObject(c)
    BY <2>2 DEF DeleteObject, CollectorState
  <2>3. ASSUME NEW new, UNCHANGED <<objects, blobs, writer, overlapped>>,
               collector' = [collector EXCEPT ![c] = new],
               new.unlink \in {collector[c].unlink, NoBlob}
        PROVE  OverlapInv'
    BY <2>3
  <2>4. CASE Scan(c)
    BY <2>3, <2>4 DEF Scan, CollectorState
  <2>5. ASSUME NEW b \in Blobs, SkipRow(c, b) PROVE OverlapInv'
    BY <2>3, <2>5 DEF SkipRow, CollectorState
  <2>6. CASE DeleteObjectFails(c) \/ CollectorCrash(c)
    BY <2>3, <2>6 DEF DeleteObjectFails, CollectorCrash, CollectorState, IdleCollector
  <2>. QED
    BY <1>2, <2>1, <2>2, <2>4, <2>5, <2>6 DEF CollectorStep
<1>3. ASSUME \/ \E r \in Repos : DeleteRepo(r)
             \/ \E s \in Snapshots : PruneSnapshot(s)
             \/ Tick \/ UNCHANGED vars
      PROVE  OverlapInv'
  BY <1>3 DEF DeleteRepo, PruneSnapshot, Tick, vars
<1>. QED
  BY <1>1, <1>2, <1>3 DEF Next

(* A recorded blob is without its object only if a put of it overlapped its *)
(* own collection: crashes, failed deletes, concurrent sweeps and stale     *)
(* scans alone lose nothing.                                                *)
THEOREM LossConfined == Spec => []LossNeedsOverlap
<1>1. Init => OverlapInv
  BY DEF Init, OverlapInv, StoredPut, IdleWriter
<1>2. TypeInv /\ OverlapInv /\ [Next]_vars => OverlapInv'
  BY NextOverlap
<1>3. TypeInv /\ OverlapInv => LossNeedsOverlap
  BY DEF TypeInv, TypeOK, OverlapInv, LossNeedsOverlap
<1>. QED
  BY <1>1, <1>2, <1>3, TypeInvariant, PTL DEF Spec
=============================================================================
