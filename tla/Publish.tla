------------------------------- MODULE Publish -------------------------------
(***************************************************************************)
(* Publishing: the single-shot PUT, the chunked upload sessions (tables    *)
(* upload_sessions and upload_parts) that packages and snapshots share,    *)
(* and the immutable insert into package_versions.                         *)
(*                                                                         *)
(* Each request is a handler of its own and each database or store call a  *)
(* step of its own: the session is checked once, at the start, and nothing *)
(* locks it.  Staged chunks are objects that no row references, so the     *)
(* collector may take them at any time; a request may die at any step.     *)
(* All sessions and tokens are of one repository (a request for another    *)
(* is refused before it reads anything).                                   *)
(***************************************************************************)
EXTENDS Integers, Sequences, FiniteSets

CONSTANTS
    Sessions,   \* upload_sessions ids; bound: as many are ever opened
    Requests,   \* HTTP requests being handled at once
    Versions,   \* (package, normalized_version) keys
    Channels,   \* (environment, profile) pairs that take snapshots
    Chunks,     \* sha256 identities of staged parts
    Bodies,     \* the uploads clients make, as sequences of chunks
    Zips,       \* canonical archives
    ArchiveOf,  \* the archive a body becomes, Refused when it is no package
    Refused,
    NoChunk, NoSession, NoTarget

ASSUME PublishAssumption ==
    /\ Bodies \subseteq Seq(Chunks) \ {<<>>}
    /\ ArchiveOf \in [Bodies -> Zips \union {Refused}]
    /\ Refused \notin Zips
    /\ NoChunk \notin Chunks
    /\ NoSession \notin Sessions
    /\ NoTarget \notin Versions \union Channels
    /\ Versions \cap Channels = {}

Targets  == Versions \union Channels
Contents == Zips \union Bodies
PartNos  == 1 .. 2      \* bound: parts of an upload

VARIABLES
    session,    \* upload_sessions: status and what it uploads
    parts,      \* upload_parts: the chunk staged under each part number
    stored,     \* chunks the object store holds
    published,  \* the contents registered under each target
    request,    \* where each handler is and what it has read
    live,       \* the repository exists
    creations   \* history: 201 answers decided per target, up to 2

vars == <<session, parts, stored, published, request, live, creations>>

Statuses == {"none", "open", "completed", "aborted"}
Places   == {"idle", "checked", "staged", "open", "read", "prepared", "taken",
             "registered", "answered", "aborting"}
Outcomes == {"none", "created", "exists", "conflict"}
NoParts  == [n \in PartNos |-> NoChunk]

SessionRow   == [status : Statuses, target : Targets \union {NoTarget}]
Manifests    == [PartNos -> Chunks \union {NoChunk}]
RequestState == [at : Places, session : Sessions \union {NoSession},
                 target : Targets \union {NoTarget},
                 no : PartNos \union {0}, body : Bodies \union {<<>>},
                 chunk : Chunks \union {NoChunk}, manifest : Manifests,
                 content : Contents \union {Refused}, outcome : Outcomes]

Idle == [at |-> "idle", session |-> NoSession, target |-> NoTarget, no |-> 0,
         body |-> <<>>, chunk |-> NoChunk, manifest |-> NoParts,
         content |-> Refused, outcome |-> "none"]

TypeOK ==
    /\ session \in [Sessions -> SessionRow]
    /\ parts \in [Sessions -> Manifests]
    /\ stored \subseteq Chunks
    /\ published \in [Targets -> SUBSET Contents]
    /\ request \in [Requests -> RequestState]
    /\ live \in BOOLEAN
    /\ creations \in [Targets -> 0 .. 2]

Init ==
    /\ session = [s \in Sessions |-> [status |-> "none", target |-> NoTarget]]
    /\ parts = [s \in Sessions |-> NoParts]
    /\ stored = {}
    /\ published = [t \in Targets |-> {}]
    /\ request = [q \in Requests |-> Idle]
    /\ live = TRUE
    /\ creations = [t \in Targets |-> 0]

IsOpen(s) == live /\ session[s].status = "open"

(* What registering a body under a target stores: a package is re-archived, *)
(* a snapshot is kept verbatim.                                             *)
Content(t, body) ==
    IF body \notin Bodies THEN Refused
    ELSE IF t \in Channels THEN body ELSE ArchiveOf[body]

Goto(q, place) == request' = [request EXCEPT ![q].at = place]
Finish(q)      == request' = [request EXCEPT ![q] = Idle]

(* The handler has decided its outcome; a session is still to be closed.    *)
Decide(q, outcome) ==
    request' = [request EXCEPT ![q].outcome = outcome,
        ![q].at = IF request[q].session = NoSession THEN "answered" ELSE "registered"]

-----------------------------------------------------------------------------
(* upload_init, for a package or for a snapshot.                            *)
OpenSession(s, t) ==
    /\ live
    /\ session[s].status = "none"
    /\ session' = [session EXCEPT ![s] = [status |-> "open", target |-> t]]
    /\ UNCHANGED <<parts, stored, published, request, live, creations>>

(* upload_part: the session is open now ...                                 *)
PartCheck(q, s, n, c) ==
    /\ request[q] = Idle
    /\ IsOpen(s)
    /\ request' = [request EXCEPT ![q] =
          [Idle EXCEPT !.at = "checked", !.session = s, !.no = n, !.chunk = c]]
    /\ UNCHANGED <<session, parts, stored, published, live, creations>>

(* ... the chunk goes to the store and gets its row (both in BlobGC) ...    *)
PartStore(q) ==
    /\ request[q].at = "checked"
    /\ stored' = stored \union {request[q].chunk}
    /\ Goto(q, "staged")
    /\ UNCHANGED <<session, parts, published, live, creations>>

(* ... and record_upload_part writes the manifest, whatever the status is   *)
(* by then; only a deleted session refuses it, by the foreign key.          *)
PartRecord(q) ==
    /\ request[q].at = "staged"
    /\ live
    /\ parts' = [parts EXCEPT ![request[q].session][request[q].no] = request[q].chunk]
    /\ Finish(q)
    /\ UNCHANGED <<session, stored, published, live, creations>>

(* upload_complete: the session is open now ...                             *)
CompleteCheck(q, s, body) ==
    /\ request[q] = Idle
    /\ IsOpen(s)
    /\ request' = [request EXCEPT ![q] =
          [Idle EXCEPT !.at = "open", !.session = s, !.body = body,
                       !.target = session[s].target]]
    /\ UNCHANGED <<session, parts, stored, published, live, creations>>

(* ... the manifest is read, and must be exactly parts 1..req.parts ...     *)
CompleteRead(q) ==
    LET manifest == parts[request[q].session] IN
    /\ request[q].at = "open"
    /\ live
    /\ {n \in PartNos : manifest[n] # NoChunk} = 1 .. Len(request[q].body)
    /\ request' = [request EXCEPT ![q].at = "read", ![q].manifest = manifest]
    /\ UNCHANGED <<session, parts, stored, published, live, creations>>

Assembled(q) == SubSeq(request[q].manifest, 1, Len(request[q].body))

(* Mutant of CompleteAssemble: the declared sha256 is not compared.         *)
CompleteAssemble_NoChecksum(q) ==
    LET content == Content(request[q].target, Assembled(q)) IN
    /\ request[q].at = "read"
    /\ \A n \in 1 .. Len(request[q].body) : request[q].manifest[n] \in stored
    /\ content # Refused
    /\ request' = [request EXCEPT ![q].at = "prepared", ![q].content = content,
                                  ![q].manifest = NoParts]
    /\ UNCHANGED <<session, parts, stored, published, live, creations>>

(* ... the chunks it names are fetched, the whole is checked against the    *)
(* declared sha256, and a package is unpacked, validated and re-archived.   *)
CompleteAssemble(q) ==
    LET content == Content(request[q].target, Assembled(q)) IN
    /\ request[q].at = "read"
    /\ \A n \in 1 .. Len(request[q].body) : request[q].manifest[n] \in stored
    /\ Assembled(q) = request[q].body
    /\ content # Refused
    /\ request' = [request EXCEPT ![q].at = "prepared", ![q].content = content,
                                  ![q].manifest = NoParts]
    /\ UNCHANGED <<session, parts, stored, published, live, creations>>

(* publish_single, and the snapshot upload_single: the body is the request. *)
SinglePrepare(q, t, body) ==
    /\ request[q] = Idle
    /\ live
    /\ Content(t, body) # Refused
    /\ request' = [request EXCEPT ![q] =
          [Idle EXCEPT !.at = "prepared", !.target = t, !.body = body,
                       !.content = Content(t, body)]]
    /\ UNCHANGED <<session, parts, stored, published, live, creations>>

(* insert_version_once inserts, or register_snapshot adds its row (its      *)
(* steps are module Snapshots).                                             *)
Insert(q) ==
    LET t == request[q].target IN
    /\ request[q].at = "prepared"
    /\ live
    /\ t \in Channels \/ published[t] = {}
    /\ published' = [published EXCEPT ![t] = @ \union {request[q].content}]
    /\ creations' = [creations EXCEPT ![t] = IF @ < 2 THEN @ + 1 ELSE 2]
    /\ Decide(q, "created")
    /\ UNCHANGED <<session, parts, stored, live>>

(* Mutant of InsertNothing: ON CONFLICT DO UPDATE.                          *)
InsertNothing_Overwrites(q) ==
    /\ request[q].at = "prepared"
    /\ live
    /\ request[q].target \in Versions
    /\ published[request[q].target] # {}
    /\ published' = [published EXCEPT ![request[q].target] = {request[q].content}]
    /\ Goto(q, "taken")
    /\ UNCHANGED <<session, parts, stored, live, creations>>

(* insert_version_once finds the key taken: ON CONFLICT DO NOTHING ...      *)
InsertNothing(q) ==
    /\ request[q].at = "prepared"
    /\ live
    /\ request[q].target \in Versions
    /\ published[request[q].target] # {}
    /\ Goto(q, "taken")
    /\ UNCHANGED <<session, parts, stored, published, live, creations>>

(* ... and a second statement compares the bytes it stored before.          *)
Compare(q) ==
    LET t == request[q].target IN
    /\ request[q].at = "taken"
    /\ Decide(q, IF request[q].content \in published[t] THEN "exists" ELSE "conflict")
    /\ UNCHANGED <<session, parts, stored, published, live, creations>>

(* set_upload_status, which looks at no earlier status.                     *)
SetStatus(s, status) ==
    session' = IF live THEN [session EXCEPT ![s].status = status] ELSE session

CompleteFinish(q) ==
    /\ request[q].at = "registered"
    /\ SetStatus(request[q].session, "completed")
    /\ Goto(q, "answered")
    /\ UNCHANGED <<parts, stored, published, live, creations>>

Respond(q) ==
    /\ request[q].at = "answered"
    /\ Finish(q)
    /\ UNCHANGED <<session, parts, stored, published, live, creations>>

(* upload_abort: the session exists, in any status; then it is aborted.     *)
AbortCheck(q, s) ==
    /\ request[q] = Idle
    /\ live
    /\ session[s].status # "none"
    /\ request' = [request EXCEPT ![q] = [Idle EXCEPT !.at = "aborting", !.session = s]]
    /\ UNCHANGED <<session, parts, stored, published, live, creations>>

AbortSet(q) ==
    /\ request[q].at = "aborting"
    /\ SetStatus(request[q].session, "aborted")
    /\ Finish(q)
    /\ UNCHANGED <<parts, stored, published, live, creations>>

(* Mutant of Fail: the session is closed on the way out of an error, too.   *)
Fail_Completes(q) ==
    /\ request[q].at \notin {"idle", "answered"}
    /\ request[q].session # NoSession
    /\ SetStatus(request[q].session, "completed")
    /\ Finish(q)
    /\ UNCHANGED <<parts, stored, published, live, creations>>

(* The request ends early: the process dies, a call fails, the manifest is  *)
(* not contiguous, a chunk is gone (410), the checksum or the package is    *)
(* refused (400), or the repository was deleted under it.                   *)
Fail(q) ==
    /\ request[q].at \notin {"idle", "answered"}
    /\ Finish(q)
    /\ UNCHANGED <<session, parts, stored, published, live, creations>>

(* The collector takes a chunk: no row ever references one.                 *)
Reap(c) ==
    /\ c \in stored
    /\ stored' = stored \ {c}
    /\ UNCHANGED <<session, parts, published, request, live, creations>>

(* delete_repo: sessions, parts, versions and snapshots cascade.            *)
DeleteRepo ==
    /\ live
    /\ live' = FALSE
    /\ session' = [s \in Sessions |-> [status |-> "none", target |-> NoTarget]]
    /\ parts' = [s \in Sessions |-> NoParts]
    /\ published' = [t \in Targets |-> {}]
    /\ UNCHANGED <<stored, request, creations>>

-----------------------------------------------------------------------------
Handle(q) ==
    \/ PartStore(q) \/ PartRecord(q)
    \/ CompleteRead(q) \/ CompleteAssemble(q)
    \/ Insert(q) \/ InsertNothing(q) \/ Compare(q)
    \/ CompleteFinish(q) \/ Respond(q)
    \/ AbortSet(q)
    \/ Fail(q)

Arrive(q) ==
    \/ \E s \in Sessions, n \in PartNos, c \in Chunks : PartCheck(q, s, n, c)
    \/ \E s \in Sessions, body \in Bodies : CompleteCheck(q, s, body)
    \/ \E t \in Targets, body \in Bodies : SinglePrepare(q, t, body)
    \/ \E s \in Sessions : AbortCheck(q, s)

Next ==
    \/ \E s \in Sessions, t \in Targets : OpenSession(s, t)
    \/ \E q \in Requests : Arrive(q) \/ Handle(q)
    \/ \E c \in Chunks : Reap(c)
    \/ DeleteRepo

Spec == Init /\ [][Next]_vars

-----------------------------------------------------------------------------
(* "the first bytes seen for a version are kept" (lib.rs:4474): a published *)
(* version is never replaced, however many publishes of it race, and it     *)
(* leaves only with its repository.                                         *)
VersionImmutable ==
    [][\A v \in Versions : live' /\ published[v] # {} => published'[v] = published[v]]_vars

(* The answer a publisher gets is true when it gets it: on 201 and 200 the  *)
(* target holds what the checksum it declared stands for, although parts    *)
(* were overwritten, chunks collected and rivals published meanwhile; on    *)
(* 409 the version holds something else.                                    *)
AnswersTruthful ==
    \A q \in Requests : LET t == request[q].target IN
        live =>
        /\ request[q].outcome \in {"created", "exists"} =>
              Content(t, request[q].body) \in published[t]
        /\ request[q].outcome = "conflict" =>
              published[t] # {} /\ Content(t, request[q].body) \notin published[t]

(* Of all publishers of a version at most one is told 201 Created.          *)
OneCreator == \A v \in Versions : live => creations[v] <= 1

(* A session that reads "completed" has published what it was opened for:   *)
(* no failure, abort or rival leaves it completed with nothing behind it.   *)
CompletedIsPublished ==
    \A s \in Sessions :
        session[s].status = "completed" => published[session[s].target] # {}

-----------------------------------------------------------------------------
(* What a client has asked for, from its request's body to its answer.      *)
Wish(q) ==
    IF request[q].body = <<>> THEN [target |-> NoTarget, content |-> Refused]
    ELSE [target |-> request[q].target,
          content |-> Content(request[q].target, request[q].body)]

Store == INSTANCE VersionStore WITH
            Clients <- Requests, Nobody <- NoTarget,
            given <- published, open <- live,
            wish <- [q \in Requests |-> Wish(q)],
            told <- [q \in Requests |-> request[q].outcome]

(* All of it, sessions, parts, single-shot requests and the two statements  *)
(* of insert_version_once, does what a store that handles one request at a  *)
(* time would: "the first bytes seen for a version are kept" (lib.rs:4474), *)
(* one publisher is told 201, and no overwritten part, collected chunk,     *)
(* rival, retry or early end shows in an answer or in what is stored.       *)
ImplementsStore == Store!StoreSpec
=============================================================================
