-------------------------- MODULE Snapshots_proofs --------------------------
(* The safety properties of the snapshot pointer and of retention, for any  *)
(* number of repositories, variants, uploads, prunes and rows.              *)
EXTENDS Snapshots, FiniteSetTheorems, TLAPS

(* Rows are only ever inserted behind all others, and what an upload or a   *)
(* prune remembers is a row of its channel, or one deleted since.           *)
Placed ==
    /\ \A s \in Ids : s > created => row[s] = NoChannel
    /\ \A u \in Uploads : upload[u].id # None =>
          /\ upload[u].channel \in Channels
          /\ upload[u].id <= created
          /\ row[upload[u].id] \in {upload[u].channel, NoChannel}
    /\ \A p \in Prunes : \A v \in prune[p].victims :
          /\ prune[p].channel \in Channels
          /\ v <= created
          /\ row[v] \in {prune[p].channel, NoChannel}

(* A channel of a live repository that was never pruned to nothing has a    *)
(* newest row unless it has none, and a row newer than all that any one     *)
(* prune has decided to delete.                                             *)
HasNewest(c) == RowsOf(c) = {} \/ \E t \in RowsOf(c) : \A s \in RowsOf(c) : s <= t

Outlived(c, p) ==
    prune[p].channel = c => \E t \in RowsOf(c) : \A v \in prune[p].victims : v < t

Retained ==
    \A c \in Channels \ emptied : RepoOf(c) \in live =>
        HasNewest(c) /\ \A p \in Prunes : Outlived(c, p)

(* Where no upload was overtaken either, the rows newer than the pointer    *)
(* are those of uploads in flight, and no prune has chosen the pointer's.   *)
Named(c, s) == s <= latest[c] \/ \E u \in Uploads : upload[u] = [channel |-> c, id |-> s]

PointerSafe ==
    \A c \in Channels \ (overtaken \union emptied) : RepoOf(c) \in live =>
        /\ \A s \in RowsOf(c) : Named(c, s)
        /\ \A p \in Prunes : prune[p].channel = c => latest[c] \notin prune[p].victims

IInv == SnapshotsTypes /\ Placed /\ LatestOfChannel /\ Retained /\ PointerSafe /\ LossNeedsOvertake

LEMMA InitIInv == SnapshotsInit => IInv
<1>. SUFFICES ASSUME SnapshotsInit PROVE IInv
  OBVIOUS
<1>1. SnapshotsTypes
  BY SnapshotsAssumption DEF SnapshotsInit, SnapshotsTypes, UploadState, PruneState, IdleUpload, IdlePrune
<1>2. \A c \in Channels : RowsOf(c) = {}
  BY SnapshotsAssumption DEF SnapshotsInit, RowsOf, Channels
<1>3. Placed /\ LatestOfChannel /\ LossNeedsOvertake
  BY DEF SnapshotsInit, Placed, LatestOfChannel, LossNeedsOvertake, IdleUpload, IdlePrune
<1>4. Retained /\ PointerSafe
  BY <1>2, SnapshotsAssumption DEF SnapshotsInit, Retained, PointerSafe, HasNewest, Outlived, IdlePrune, Channels
<1>. QED
  BY <1>1, <1>3, <1>4 DEF IInv

-----------------------------------------------------------------------------
(* The row create_snapshot inserts is newer than every row there is.        *)
LEMMA CreateIInv ==
    ASSUME IInv, NEW u \in Uploads, NEW d \in Channels, Create(u, d)
    PROVE  IInv'
<1>. USE SnapshotsAssumption DEF IInv, Create, history
<1>. DEFINE new == created + 1
<1>1. new \in Ids /\ new # None /\ row[new] = NoChannel /\ d # NoChannel
  BY DEF SnapshotsTypes, Placed, Ids, None, Channels
<1>2. SnapshotsTypes'
  BY <1>1 DEF SnapshotsTypes, UploadState
<1>3. RowsOf(d)' = RowsOf(d) \union {new} /\ \A s \in RowsOf(d) : s < new
  BY <1>1 DEF SnapshotsTypes, RowsOf, Placed, Ids, Channels
<1>4. \A c \in Channels \ {d} : RowsOf(c)' = RowsOf(c)
  BY <1>1 DEF SnapshotsTypes, RowsOf, Channels
<1>5. Placed'
  BY <1>1 DEF SnapshotsTypes, Placed, Ids, UploadState, PruneState
<1>6. LatestOfChannel'
  BY <1>1 DEF SnapshotsTypes, LatestOfChannel, Channels
<1>7. LossNeedsOvertake'
  BY DEF LossNeedsOvertake
<1>8. Retained'
  <2>. SUFFICES ASSUME NEW c \in Channels \ emptied, RepoOf(c) \in live
                PROVE  HasNewest(c)' /\ \A p \in Prunes : Outlived(c, p)'
    BY DEF Retained
  <2>1. CASE c = d
    BY <2>1, <1>3, <1>1 DEF Retained, HasNewest, Outlived, SnapshotsTypes, RowsOf, Ids
  <2>2. CASE c # d
    BY <2>2, <1>4 DEF Retained, HasNewest, Outlived
  <2>. QED
    BY <2>1, <2>2
<1>9. PointerSafe'
  <2>. SUFFICES ASSUME NEW c \in Channels \ (overtaken \union emptied), RepoOf(c) \in live
                PROVE  /\ \A s \in RowsOf(c)' : Named(c, s)'
                       /\ \A p \in Prunes : prune[p].channel = c => latest[c] \notin prune[p].victims
    BY DEF PointerSafe
  <2>1. ASSUME NEW s \in RowsOf(c) PROVE Named(c, s)'
    <3>1. s <= latest[c] \/ \E w \in Uploads : upload[w] = [channel |-> c, id |-> s]
      BY <2>1 DEF PointerSafe, Named
    <3>2. s # None
      BY <2>1 DEF RowsOf, Ids, None
    <3>3. ASSUME NEW w \in Uploads, upload[w] = [channel |-> c, id |-> s]
          PROVE  upload'[w] = upload[w]
      BY <3>2, <3>3 DEF SnapshotsTypes, IdleUpload
    <3>. QED
      BY <3>1, <3>3 DEF Named
  <2>2. upload'[u] = [channel |-> d, id |-> new]
    BY DEF SnapshotsTypes
  <2>3. \A s \in RowsOf(c)' : Named(c, s)'
    BY <2>1, <2>2, <1>3, <1>4 DEF Named
  <2>. QED
    BY <2>3 DEF PointerSafe
<1>. QED
  BY <1>2, <1>5, <1>6, <1>7, <1>8, <1>9

(* advance_latest: unless a newer row is there, which makes the channel     *)
(* overtaken, the row is the newest, and so no prune has chosen it.         *)
LEMMA AdvanceIInv ==
    ASSUME IInv, NEW u \in Uploads, Advance(u)
    PROVE  IInv'
<1>. DEFINE d == upload[u].channel
            s == upload[u].id
<1>. USE SnapshotsAssumption DEF IInv, Advance
<1>1. d \in Channels /\ s \in Ids /\ s # None /\ row[s] = d
  BY DEF SnapshotsTypes, Placed, UploadState
<1>2. SnapshotsTypes'
  BY <1>1 DEF SnapshotsTypes, UploadState, IdleUpload
<1>3. \A c \in Channels : RowsOf(c)' = RowsOf(c)
  BY DEF RowsOf
<1>4. Placed'
  BY DEF SnapshotsTypes, Placed, IdleUpload
<1>5. LatestOfChannel' /\ latest'[d] = s /\ \A c \in Channels \ {d} : latest'[c] = latest[c]
  BY <1>1 DEF SnapshotsTypes, LatestOfChannel
<1>6. LossNeedsOvertake'
  BY <1>1, <1>5 DEF LossNeedsOvertake, SnapshotsTypes
<1>7. Retained'
  BY <1>3 DEF Retained, HasNewest, Outlived
<1>8. PointerSafe'
  <2>. SUFFICES ASSUME NEW c \in Channels \ (overtaken \union emptied), c \notin overtaken',
                       RepoOf(c) \in live
                PROVE  /\ \A x \in RowsOf(c) : Named(c, x)'
                       /\ \A p \in Prunes : prune[p].channel = c => latest'[c] \notin prune[p].victims
    BY <1>3 DEF PointerSafe
  <2>1. CASE c = d
    <3>1. \A t \in RowsOf(c) : t <= s
      BY <2>1, <1>1 DEF RowsOf, Ids
    <3>2. \A p \in Prunes : prune[p].channel = c => s \notin prune[p].victims
      BY <3>1, <1>1 DEF Retained, Outlived, RowsOf, Ids
    <3>. QED
      BY <2>1, <3>1, <3>2, <1>5 DEF Named
  <2>2. CASE c # d
    <3>1. ASSUME NEW x \in RowsOf(c), NEW w \in Uploads, upload[w] = [channel |-> c, id |-> x]
          PROVE  upload'[w] = upload[w]
      BY <3>1, <2>2 DEF SnapshotsTypes
    <3>. QED
      BY <2>2, <3>1, <1>5 DEF PointerSafe, Named
  <2>. QED
    BY <2>1, <2>2
<1>. QED
  BY <1>2, <1>4, <1>5, <1>6, <1>7, <1>8

(* The refused upload's row is gone, so no row is left unnamed by it.       *)
LEMMA AdvanceRefusedIInv ==
    ASSUME IInv, NEW u \in Uploads, AdvanceRefused(u)
    PROVE  IInv'
<1>. USE SnapshotsAssumption DEF IInv, AdvanceRefused, history
<1>1. SnapshotsTypes'
  BY DEF SnapshotsTypes, UploadState, IdleUpload
<1>2. Placed' /\ LatestOfChannel' /\ LossNeedsOvertake'
  BY DEF SnapshotsTypes, Placed, LatestOfChannel, LossNeedsOvertake, IdleUpload
<1>3. Retained'
  BY DEF Retained, HasNewest, Outlived, RowsOf
<1>4. PointerSafe'
  <2>1. ASSUME NEW c \in Channels, NEW s \in RowsOf(c), NEW w \in Uploads,
               upload[w] = [channel |-> c, id |-> s]
        PROVE  upload'[w] = upload[w]
    BY <2>1 DEF SnapshotsTypes, RowsOf, Channels
  <2>. QED
    BY <2>1 DEF PointerSafe, Named, RowsOf
<1>. QED
  BY <1>1, <1>2, <1>3, <1>4

LEMMA UploadDiesIInv ==
    ASSUME IInv, NEW u \in Uploads, UploadDies(u)
    PROVE  IInv'
<1>. USE SnapshotsAssumption DEF IInv, UploadDies
<1>1. SnapshotsTypes'
  BY DEF SnapshotsTypes, Placed, UploadState, IdleUpload
<1>2. Placed' /\ LatestOfChannel' /\ LossNeedsOvertake'
  BY DEF SnapshotsTypes, Placed, LatestOfChannel, LossNeedsOvertake, IdleUpload
<1>3. Retained'
  BY DEF Retained, HasNewest, Outlived, RowsOf
<1>4. PointerSafe'
  <2>1. ASSUME NEW c \in Channels \ {upload[u].channel}, NEW s, NEW w \in Uploads,
               upload[w] = [channel |-> c, id |-> s]
        PROVE  upload'[w] = upload[w]
    BY <2>1 DEF SnapshotsTypes
  <2>. QED
    BY <2>1 DEF PointerSafe, Named, RowsOf
<1>. QED
  BY <1>1, <1>2, <1>3, <1>4

-----------------------------------------------------------------------------
(* What prune_snapshots chooses leaves the newest row and the pointer's.    *)
LEMMA PruneScanIInv ==
    ASSUME IInv, NEW q \in Prunes, NEW d \in Channels, NEW keep \in Keeps, PruneScan(q, d, keep)
    PROVE  IInv'
<1>. USE SnapshotsAssumption DEF IInv, PruneScan
<1>1. Victims(d, keep) \subseteq RowsOf(d) /\ latest[d] \notin Victims(d, keep)
  BY DEF Victims
<1>2. SnapshotsTypes'
  BY <1>1 DEF SnapshotsTypes, PruneState, RowsOf
<1>3. Placed'
  BY <1>1 DEF SnapshotsTypes, Placed, RowsOf, Ids, Channels
<1>4. LatestOfChannel' /\ LossNeedsOvertake'
  BY DEF LatestOfChannel, LossNeedsOvertake
<1>5. Retained'
  <2>. SUFFICES ASSUME NEW c \in Channels \ emptied, c \notin emptied', RepoOf(c) \in live,
                       NEW p \in Prunes, prune'[p].channel = c
                PROVE  \E t \in RowsOf(c) : \A v \in prune'[p].victims : v < t
    BY DEF Retained, HasNewest, Outlived, RowsOf
  <2>1. CASE p = q
    <3>1. c = d /\ prune'[p].victims = Victims(d, keep)
      BY <2>1 DEF SnapshotsTypes
    <3>2. keep \in Int /\ keep > 0
      BY <3>1 DEF SnapshotsTypes
    <3>3. PICK t \in RowsOf(d) : \A s \in RowsOf(d) : s <= t
      BY <3>1, <1>1 DEF Retained, HasNewest
    <3>4. {x \in RowsOf(d) : x > t} = {}
      BY <3>3 DEF RowsOf, Ids
    <3>5. t \in Newest(d, keep)
      BY <3>2, <3>3, <3>4, FS_EmptySet DEF Newest
    <3>. QED
      BY <3>1, <3>3, <3>5, <1>1 DEF Victims, RowsOf, Ids
  <2>2. CASE p # q
    BY <2>2 DEF Retained, Outlived, SnapshotsTypes
  <2>. QED
    BY <2>1, <2>2
<1>6. PointerSafe'
  BY <1>1 DEF PointerSafe, Named, RowsOf, SnapshotsTypes
<1>. QED
  BY <1>2, <1>3, <1>4, <1>5, <1>6

(* Rows go: the channels they are not of keep all they had.                 *)
LEMMA DeleteRowsOthers ==
    ASSUME IInv, NEW victims, NEW c \in Channels, DeleteRows(victims),
           \A v \in victims : row[v] # c
    PROVE  RowsOf(c)' = RowsOf(c) /\ latest'[c] = latest[c]
BY SnapshotsAssumption DEF IInv, SnapshotsTypes, DeleteRows, RowsOf, LatestOfChannel, Channels

LEMMA DeleteRowsSafe ==
    ASSUME IInv, NEW victims, DeleteRows(victims)
    PROVE  /\ row' \in [Ids -> Channels \union {NoChannel}]
           /\ latest' \in [Channels -> Ids \union {None}]
           /\ \A s \in Ids : row'[s] \in {row[s], NoChannel}
           /\ LatestOfChannel'
           /\ \A c \in Channels : RowsOf(c)' = RowsOf(c) \ victims
BY SnapshotsAssumption DEF IInv, SnapshotsTypes, DeleteRows, LatestOfChannel, RowsOf, Channels

(* What a prune deletes is older than some row of its channel, and than the *)
(* newest row in any case, which therefore stays.                           *)
LEMMA PruneKeepsNewest ==
    ASSUME IInv, NEW q \in Prunes, PruneDelete(q),
           NEW c \in Channels \ emptied, RepoOf(c) \in live,
           NEW t \in RowsOf(c), \A s \in RowsOf(c) : s <= t
    PROVE  t \in RowsOf(c)'
<1>. USE SnapshotsAssumption DEF IInv, PruneDelete
<1>1. RowsOf(c)' = RowsOf(c) \ prune[q].victims
  BY DeleteRowsSafe
<1>2. t \notin prune[q].victims
  <2>1. CASE prune[q].channel = c
    BY <2>1 DEF Retained, Outlived, SnapshotsTypes, PruneState, RowsOf, Ids
  <2>2. CASE prune[q].channel # c
    BY <2>2 DEF Placed, RowsOf, Channels
  <2>. QED
    BY <2>1, <2>2
<1>. QED
  BY <1>1, <1>2

LEMMA PruneDeleteIInv ==
    ASSUME IInv, NEW q \in Prunes, PruneDelete(q)
    PROVE  IInv'
<1>. USE SnapshotsAssumption DEF IInv, PruneDelete, history
<1>. DEFINE victims == prune[q].victims
<1>1. /\ row' \in [Ids -> Channels \union {NoChannel}]
      /\ latest' \in [Channels -> Ids \union {None}]
      /\ \A s \in Ids : row'[s] \in {row[s], NoChannel}
      /\ LatestOfChannel'
      /\ \A c \in Channels : RowsOf(c)' = RowsOf(c) \ victims
  BY DeleteRowsSafe
<1>2. SnapshotsTypes'
  BY <1>1 DEF SnapshotsTypes, PruneState, IdlePrune
<1>3. Placed'
  BY <1>1 DEF SnapshotsTypes, Placed, IdlePrune, UploadState, PruneState
<1>4. \A p \in Prunes : prune'[p] = prune[p] \/ prune'[p] = IdlePrune
  BY DEF SnapshotsTypes
<1>5. Retained'
  <2>. SUFFICES ASSUME NEW c \in Channels \ emptied, RepoOf(c) \in live
                PROVE  HasNewest(c)' /\ \A p \in Prunes : Outlived(c, p)'
    BY DEF Retained
  <2>0. c # NoChannel
    BY DEF Channels
  <2>1. CASE RowsOf(c) = {}
    <3>1. \A p \in Prunes : prune[p].channel # c
      BY <2>1 DEF Retained, Outlived
    <3>. QED
      BY <2>0, <2>1, <3>1, <1>1, <1>4 DEF HasNewest, Outlived, IdlePrune
  <2>2. CASE RowsOf(c) # {}
    <3>1. PICK t \in RowsOf(c) : \A s \in RowsOf(c) : s <= t
      BY <2>2 DEF Retained, HasNewest
    <3>2. t \in RowsOf(c)'
      BY <3>1, PruneKeepsNewest
    <3>3. HasNewest(c)'
      BY <3>1, <3>2, <1>1 DEF HasNewest
    <3>4. ASSUME NEW p \in Prunes, prune'[p].channel = c
          PROVE  \A v \in prune'[p].victims : v < t
      BY <3>1, <3>4, <2>0, <1>4 DEF Retained, Outlived, IdlePrune, SnapshotsTypes, PruneState, RowsOf, Ids
    <3>. QED
      BY <3>2, <3>3, <3>4 DEF Outlived
  <2>. QED
    BY <2>1, <2>2
<1>6. ASSUME NEW c \in Channels \ (overtaken \union emptied), RepoOf(c) \in live
      PROVE  latest'[c] = latest[c]
  <2>1. latest[c] \notin victims
    <3>1. CASE prune[q].channel = c
      BY <1>6, <3>1 DEF PointerSafe
    <3>2. CASE prune[q].channel # c
      BY <3>2 DEF Placed, LatestOfChannel, Channels, SnapshotsTypes, PruneState, Ids, None
    <3>. QED
      BY <3>1, <3>2
  <2>. QED
    BY <2>1 DEF DeleteRows
<1>7. PointerSafe'
  <2>. SUFFICES ASSUME NEW c \in Channels \ (overtaken \union emptied), RepoOf(c) \in live
                PROVE  /\ \A s \in RowsOf(c)' : Named(c, s)'
                       /\ \A p \in Prunes : prune'[p].channel = c => latest'[c] \notin prune'[p].victims
    BY DEF PointerSafe
  <2>1. latest'[c] = latest[c] /\ RowsOf(c)' \subseteq RowsOf(c)
    BY <1>1, <1>6
  <2>. QED
    BY <2>1, <1>4 DEF PointerSafe, Named, IdlePrune
<1>8. LossNeedsOvertake'
  BY <1>6 DEF LossNeedsOvertake, SnapshotsTypes
<1>. QED
  BY <1>1, <1>2, <1>3, <1>5, <1>7, <1>8

LEMMA PruneDiesIInv ==
    ASSUME IInv, NEW q \in Prunes, PruneDies(q)
    PROVE  IInv'
<1>. USE SnapshotsAssumption DEF IInv, PruneDies, history
<1>1. \A p \in Prunes : prune'[p] = prune[p] \/ prune'[p] = IdlePrune
  BY DEF SnapshotsTypes
<1>2. SnapshotsTypes'
  BY DEF SnapshotsTypes, PruneState, IdlePrune
<1>3. Placed' /\ LatestOfChannel' /\ LossNeedsOvertake'
  BY <1>1 DEF Placed, LatestOfChannel, LossNeedsOvertake, IdlePrune
<1>4. Retained'
  BY <1>1 DEF Retained, HasNewest, Outlived, RowsOf, IdlePrune, Channels
<1>5. PointerSafe'
  BY <1>1 DEF PointerSafe, Named, RowsOf, IdlePrune
<1>. QED
  BY <1>2, <1>3, <1>4, <1>5

(* The cascade of a repository touches no channel of another.               *)
LEMMA DeleteRepoIInv ==
    ASSUME IInv, NEW r \in Repositories, DeleteRepository(r)
    PROVE  IInv'
<1>. USE SnapshotsAssumption DEF IInv, DeleteRepository, history
<1>. DEFINE victims == {s \in Ids : \E c \in Channels : row[s] = c /\ RepoOf(c) = r}
<1>1. /\ row' \in [Ids -> Channels \union {NoChannel}]
      /\ latest' \in [Channels -> Ids \union {None}]
      /\ \A s \in Ids : row'[s] \in {row[s], NoChannel}
      /\ LatestOfChannel'
  BY DeleteRowsSafe
<1>2. ASSUME NEW c \in Channels, RepoOf(c) \in live'
      PROVE  RowsOf(c)' = RowsOf(c) /\ latest'[c] = latest[c] /\ RepoOf(c) \in live
  <2>1. \A v \in victims : row[v] # c
    BY <1>2
  <2>. QED
    BY <1>2, <2>1, DeleteRowsOthers
<1>3. SnapshotsTypes'
  BY <1>1 DEF SnapshotsTypes
<1>4. Placed'
  BY <1>1 DEF SnapshotsTypes, Placed, UploadState, PruneState
<1>5. LossNeedsOvertake'
  BY <1>2 DEF LossNeedsOvertake, SnapshotsTypes
<1>6. Retained'
  BY <1>2 DEF Retained, HasNewest, Outlived
<1>7. PointerSafe'
  BY <1>2 DEF PointerSafe, Named
<1>. QED
  BY <1>1, <1>3, <1>4, <1>5, <1>6, <1>7

-----------------------------------------------------------------------------
LEMMA NextIInv == IInv /\ [SnapshotsNext]_snapshotsVars => IInv'
<1>. SUFFICES ASSUME IInv, [SnapshotsNext]_snapshotsVars PROVE IInv'
  OBVIOUS
<1>1. CASE UNCHANGED snapshotsVars
  BY <1>1 DEF IInv, SnapshotsTypes, Placed, LatestOfChannel, Retained, HasNewest, Outlived, PointerSafe,
     Named, LossNeedsOvertake, RowsOf, snapshotsVars
<1>2. CASE SnapshotsNext
  BY <1>2, CreateIInv, AdvanceIInv, AdvanceRefusedIInv, UploadDiesIInv, PruneScanIInv,
     PruneDeleteIInv, PruneDiesIInv, DeleteRepoIInv DEF SnapshotsNext
<1>. QED
  BY <1>1, <1>2

LEMMA Invariant == SnapshotsSpec => []IInv
<1>. QED
  BY InitIInv, NextIInv, PTL DEF SnapshotsSpec

(* Every variable keeps its type.                                           *)
THEOREM TypeCorrect == SnapshotsSpec => []SnapshotsTypes
<1>1. IInv => SnapshotsTypes
  BY DEF IInv
<1>. QED
  BY Invariant, <1>1, PTL

(* The pointer of a channel, whose foreign key only asks for some row,      *)
(* names a row of that channel.                                             *)
THEOREM PointerInChannel == SnapshotsSpec => []LatestOfChannel
<1>1. IInv => LatestOfChannel
  BY DEF IInv
<1>. QED
  BY Invariant, <1>1, PTL

(* register_snapshot's two statements leave the pointer at the newest row   *)
(* when no upload was overtaken, died between them or met --keep 0.         *)
THEOREM PointerIsNewest == SnapshotsSpec => []LatestIsNewest
<1>1. IInv => LatestIsNewest
  <2>. SUFFICES ASSUME IInv, NEW c \in Channels \ (overtaken \union emptied), RepoOf(c) \in live,
                       ~ Uploading(c), NEW s \in RowsOf(c)
                PROVE  s <= latest[c]
    BY DEF LatestIsNewest
  <2>1. Named(c, s)
    BY DEF IInv, PointerSafe
  <2>2. \A u \in Uploads : upload[u] # [channel |-> c, id |-> s]
    BY DEF Uploading
  <2>. QED
    BY <2>1, <2>2 DEF Named
<1>. QED
  BY Invariant, <1>1, PTL

(* prune_snapshots takes the pointer with it in no other case.              *)
THEOREM PointerKept == SnapshotsSpec => []LossNeedsOvertake
<1>1. IInv => LossNeedsOvertake
  BY DEF IInv
<1>. QED
  BY Invariant, <1>1, PTL

LEMMA StepKeepsNewest ==
    ASSUME IInv, [SnapshotsNext]_snapshotsVars, NEW c \in Channels \ emptied, RepoOf(c) \in live',
           NEW s \in RowsOf(c)
    PROVE  \E t \in RowsOf(c)' : t >= s
<1>. USE SnapshotsAssumption DEF IInv
<1>0. s \in Ids /\ s \in Int
  BY DEF RowsOf, Ids
<1>1. CASE row' = row
  BY <1>0, <1>1 DEF RowsOf
<1>2. ASSUME NEW u \in Uploads, NEW d \in Channels, Create(u, d)
      PROVE  s \in RowsOf(c)'
  BY <1>2 DEF Create, RowsOf, SnapshotsTypes, Placed, Channels, Ids
<1>3. ASSUME NEW q \in Prunes, PruneDelete(q)
      PROVE  \E t \in RowsOf(c)' : t >= s
  <2>1. RepoOf(c) \in live
    BY <1>3 DEF PruneDelete
  <2>2. PICK t \in RowsOf(c) : \A x \in RowsOf(c) : x <= t
    BY <2>1 DEF Retained, HasNewest
  <2>3. t \in RowsOf(c)'
    BY <1>3, <2>1, <2>2, PruneKeepsNewest
  <2>. QED
    BY <2>2, <2>3, <1>0 DEF RowsOf, Ids
<1>4. ASSUME NEW r \in Repositories, DeleteRepository(r)
      PROVE  s \in RowsOf(c)'
  <2>. DEFINE victims == {x \in Ids : \E e \in Channels : row[x] = e /\ RepoOf(e) = r}
  <2>1. DeleteRows(victims) /\ \A v \in victims : row[v] # c
    BY <1>4 DEF DeleteRepository
  <2>. QED
    BY <2>1, DeleteRowsOthers
<1>5. \/ row' = row
      \/ \E u \in Uploads, d \in Channels : Create(u, d)
      \/ \E q \in Prunes : PruneDelete(q)
      \/ \E r \in Repositories : DeleteRepository(r)
  BY DEF SnapshotsNext, snapshotsVars, Advance, AdvanceRefused, UploadDies, PruneScan, PruneDies
<1>. QED
  BY <1>0, <1>1, <1>2, <1>3, <1>4, <1>5

(* Any number of prunes, however stale, leave every channel's newest row.   *)
THEOREM NewestKept == SnapshotsSpec => NewestSurvives
<1>1. IInv /\ [SnapshotsNext]_snapshotsVars =>
        [\A c \in Channels \ emptied :
            RepoOf(c) \in live' => \A s \in RowsOf(c) : \E t \in RowsOf(c)' : t >= s]_snapshotsVars
  BY StepKeepsNewest
<1>. QED
  BY Invariant, <1>1, PTL DEF SnapshotsSpec, NewestSurvives
=============================================================================
