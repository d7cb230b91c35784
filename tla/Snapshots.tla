------------------------------ MODULE Snapshots ------------------------------
(***************************************************************************)
(* Database snapshots: the table snapshots, the moving pointer table       *)
(* snapshot_latest, the uploads that register a row and advance the        *)
(* pointer, and retention (`sconce snapshot prune`).                       *)
(*                                                                         *)
(* A channel is a (repository, environment, profile).  An upload inserts   *)
(* its row and moves the pointer in two statements with no transaction     *)
(* around them.  A prune is one DELETE under READ COMMITTED: it decides    *)
(* on a snapshot of the tables and deletes later, and rows that an         *)
(* advance committed in between are not looked at again; deleting a row    *)
(* cascades to the pointer that references it.  What becomes of the blobs  *)
(* is module BlobGC.                                                       *)
(***************************************************************************)
EXTENDS Integers, FiniteSets

CONSTANTS
    Repositories,  \* repositories
    Variants,      \* (environment, profile) pairs
    Uploads,       \* upload requests being handled
    Prunes,        \* `sconce snapshot prune` processes
    Keeps,         \* the values of --keep in use
    MaxSnapshots,  \* bound: as many rows are ever inserted
    NoChannel      \* absence of a channel

ASSUME SnapshotsAssumption ==
    /\ NoChannel \notin Repositories \X Variants
    /\ Keeps \subseteq Int
    /\ MaxSnapshots \in Nat

Channels == Repositories \X Variants
RepoOf(c) == c[1]

(* Rows are named by their place in the order of (created_at, seq).        *)
Ids  == 1 .. MaxSnapshots
None == 0

VARIABLES
    row,        \* the channel of each row, NoChannel where there is no row
    created,    \* rows inserted so far: the newest is row number `created`
    latest,     \* snapshot_latest: the row a channel's pointer names, or None
    upload,     \* the row an upload has inserted and not yet advanced to
    prune,      \* the rows a prune has decided to delete
    live,       \* the repositories that exist
    advanced,   \* history: channels whose pointer was ever set
    overtaken,  \* history: channels whose pointer was set to a row that was
                \* not the newest, or not set because the upload died
    emptied     \* history: channels pruned with --keep 0

snapshotsVars == <<row, created, latest, upload, prune, live, advanced, overtaken, emptied>>
history == <<advanced, overtaken, emptied>>

UploadState == [channel : Channels \union {NoChannel}, id : Ids \union {None}]
PruneState  == [channel : Channels \union {NoChannel}, victims : SUBSET Ids]

IdleUpload == [channel |-> NoChannel, id |-> None]
IdlePrune  == [channel |-> NoChannel, victims |-> {}]

SnapshotsTypes ==
    /\ row \in [Ids -> Channels \union {NoChannel}]
    /\ created \in 0 .. MaxSnapshots
    /\ latest \in [Channels -> Ids \union {None}]
    /\ upload \in [Uploads -> UploadState]
    /\ prune \in [Prunes -> PruneState]
    /\ live \subseteq Repositories
    /\ advanced \subseteq Channels
    /\ overtaken \subseteq Channels
    /\ emptied \subseteq Channels

SnapshotsInit ==
    /\ row = [s \in Ids |-> NoChannel]
    /\ created = 0
    /\ latest = [c \in Channels |-> None]
    /\ upload = [u \in Uploads |-> IdleUpload]
    /\ prune = [p \in Prunes |-> IdlePrune]
    /\ live = Repositories
    /\ advanced = {}
    /\ overtaken = {}
    /\ emptied = {}

RowsOf(c) == {s \in Ids : row[s] = c}

(* Mutant of Newest: ascending order.                                       *)
Newest_Oldest(c, keep) ==
    {s \in RowsOf(c) : Cardinality({t \in RowsOf(c) : t < s}) < keep}

(* "order by created_at desc, seq desc limit keep.max(0)"                   *)
Newest(c, keep) ==
    {s \in RowsOf(c) : Cardinality({t \in RowsOf(c) : t > s}) < keep}

(* Mutant of Victims: the pointer is ignored.                               *)
Victims_NoPointer(c, keep) == RowsOf(c) \ Newest(c, keep)

(* What prune_snapshots deletes, on the tables as its statement finds them. *)
Victims(c, keep) == RowsOf(c) \ ({latest[c]} \union Newest(c, keep))

(* Deleting rows; the foreign key cascades to the pointers that name them.  *)
DeleteRows(victims) ==
    /\ row' = [s \in Ids |-> IF s \in victims THEN NoChannel ELSE row[s]]
    /\ latest' = [c \in Channels |-> IF latest[c] \in victims THEN None ELSE latest[c]]

-----------------------------------------------------------------------------
(* create_snapshot: the insert gives the row the next place in the order.   *)
Create(u, c) ==
    /\ upload[u] = IdleUpload
    /\ RepoOf(c) \in live
    /\ created < MaxSnapshots
    /\ created' = created + 1
    /\ row' = [row EXCEPT ![created + 1] = c]
    /\ upload' = [upload EXCEPT ![u] = [channel |-> c, id |-> created + 1]]
    /\ UNCHANGED <<latest, prune, live, history>>

(* Mutant of Advance: ON CONFLICT DO NOTHING.                               *)
Advance_FirstOnly(u) ==
    LET c == upload[u].channel
        s == upload[u].id IN
    /\ s # None
    /\ row[s] # NoChannel
    /\ latest' = [latest EXCEPT ![c] = IF @ = None THEN s ELSE @]
    /\ upload' = [upload EXCEPT ![u] = IdleUpload]
    /\ advanced' = advanced \union {c}
    /\ overtaken' = IF \E t \in RowsOf(c) : t > s THEN overtaken \union {c} ELSE overtaken
    /\ UNCHANGED <<row, created, prune, live, emptied>>

(* advance_latest: an upsert that looks at nothing but the foreign key.     *)
Advance(u) ==
    LET c == upload[u].channel
        s == upload[u].id IN
    /\ s # None
    /\ row[s] # NoChannel
    /\ latest' = [latest EXCEPT ![c] = s]
    /\ upload' = [upload EXCEPT ![u] = IdleUpload]
    /\ advanced' = advanced \union {c}
    /\ overtaken' = IF \E t \in RowsOf(c) : t > s THEN overtaken \union {c} ELSE overtaken
    /\ UNCHANGED <<row, created, prune, live, emptied>>

(* The foreign key refuses the pointer: the row was pruned, or the          *)
(* repository deleted, since create_snapshot.  The upload answers 500.      *)
AdvanceRefused(u) ==
    /\ upload[u].id # None
    /\ row[upload[u].id] = NoChannel
    /\ upload' = [upload EXCEPT ![u] = IdleUpload]
    /\ UNCHANGED <<row, created, latest, prune, live, history>>

(* The server dies, or the second statement fails: the row stays, unnamed.  *)
UploadDies(u) ==
    /\ upload[u].id # None
    /\ upload' = [upload EXCEPT ![u] = IdleUpload]
    /\ overtaken' = overtaken \union {upload[u].channel}
    /\ UNCHANGED <<row, created, latest, prune, live, advanced, emptied>>

(* prune_snapshots: the statement evaluates its two subqueries ...          *)
PruneScan(p, c, keep) ==
    /\ prune[p] = IdlePrune
    /\ RepoOf(c) \in live
    /\ Victims(c, keep) # {}
    /\ prune' = [prune EXCEPT ![p] = [channel |-> c, victims |-> Victims(c, keep)]]
    /\ emptied' = IF keep <= 0 THEN emptied \union {c} ELSE emptied
    /\ UNCHANGED <<row, created, latest, upload, live, advanced, overtaken>>

(* ... and deletes what it found, whatever was committed meanwhile.         *)
PruneDelete(p) ==
    /\ prune[p] # IdlePrune
    /\ DeleteRows(prune[p].victims)
    /\ prune' = [prune EXCEPT ![p] = IdlePrune]
    /\ UNCHANGED <<created, upload, live, history>>

(* The statement is cancelled or its process dies: nothing was deleted.     *)
PruneDies(p) ==
    /\ prune[p] # IdlePrune
    /\ prune' = [prune EXCEPT ![p] = IdlePrune]
    /\ UNCHANGED <<row, created, latest, upload, live, history>>

(* delete_repo: both tables cascade from repositories.                      *)
DeleteRepository(r) ==
    /\ r \in live
    /\ live' = live \ {r}
    /\ DeleteRows({s \in Ids : \E c \in Channels : row[s] = c /\ RepoOf(c) = r})
    /\ UNCHANGED <<created, upload, prune, history>>

SnapshotsNext ==
    \/ \E u \in Uploads :
          \/ \E c \in Channels : Create(u, c)
          \/ Advance(u)
          \/ AdvanceRefused(u)
          \/ UploadDies(u)
    \/ \E p \in Prunes :
          \/ \E c \in Channels, keep \in Keeps : PruneScan(p, c, keep)
          \/ PruneDelete(p)
          \/ PruneDies(p)
    \/ \E r \in Repositories : DeleteRepository(r)

SnapshotsSpec == SnapshotsInit /\ [][SnapshotsNext]_snapshotsVars

-----------------------------------------------------------------------------
(* The pointer of a channel names a row of that same channel: whatever      *)
(* prunes, cascades and uploads interleave, a download of one environment   *)
(* or profile never serves the data of another, nor dangles.                *)
LatestOfChannel == \A c \in Channels : latest[c] # None => row[latest[c]] = c

Uploading(c) == \E u \in Uploads : upload[u].channel = c

(* Without --keep 0, retention never takes the newest row of a channel,     *)
(* however many prunes run and however stale their subqueries are: what     *)
(* the channel's newest row is never goes back in time.                     *)
NewestSurvives ==
    [][\A c \in Channels \ emptied :
          RepoOf(c) \in live' => \A s \in RowsOf(c) : \E t \in RowsOf(c)' : t >= s]_snapshotsVars

(* With no upload in flight the pointer names the newest row, unless        *)
(* uploads overtook each other, one died half-way, or --keep 0 was used.    *)
LatestIsNewest ==
    \A c \in Channels \ (overtaken \union emptied) :
        RepoOf(c) \in live /\ ~ Uploading(c) => \A s \in RowsOf(c) : s <= latest[c]

(* The only ways to lose the pointer of a live channel.                     *)
LossNeedsOvertake ==
    \A c \in advanced :
        RepoOf(c) \in live /\ latest[c] = None => c \in overtaken \union emptied
=============================================================================
