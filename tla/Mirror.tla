------------------------------- MODULE Mirror -------------------------------
(* Syncs of upstreams into one repository: a composer registry is read over   *)
(* HTTP package by package, a git upstream is cloned and its tags archived.   *)
(* Every catalog call and every request is a step of its own: the background  *)
(* worker, a second worker and `sconce mirror` all run the same code, nothing *)
(* locks a package while it is synced, and the registry itself changes under  *)
(* the sync.  Names and versions are atoms; a dist is the bytes it has, and a *)
(* shasum or reference stands for the bytes it was computed from.             *)
EXTENDS FiniteSets, Integers

CONSTANTS
  Upstream,     \* the repository's upstreams
  Kind,         \* [Upstream -> {"composer", "git"}]
  Claim,        \* [Upstream -> {"shasum", "reference", "none"}]: what its p2 entries publish
  OwnDists,     \* the composer upstreams that serve their dists under their own base
  Pkg, Version, \* package names; versions are numbers, so that a floor is one
  Bytes,        \* dist contents
  Worker,       \* whoever runs a sync
  Initially,    \* the upstreams as they are at first
  Subs,         \* the require-lists an operator may store: sets of [names, floor]
  MaxTurns,     \* changes of the world outside
  MaxEdits,     \* operator actions
  MaxSyncs      \* syncs begun

Nothing == "nothing"
Patterns == {"*"}            \* a registry that publishes only available-package-patterns

\* What an upstream answers: what was asked for; a definite refusal (404 or 410, 401
\* or 403, or a body that does not parse); or nothing just now (no connection, 5xx).
Answers == {"ok", "refused", "down"}

ASSUME MirrorAssumption ==
  /\ Nothing \notin Bytes \cup Pkg \cup Upstream
  /\ Kind \in [Upstream -> {"composer", "git"}]
  /\ Initially \in [Upstream -> [root : Answers, listed : (SUBSET Pkg) \cup {Patterns},
                               doc : [Pkg -> Answers],
                               bytes : [Pkg -> [Version -> Bytes \cup {Nothing}]]]]

Malformed == {[names |-> {}, floor |-> -1]}   \* a require-list that does not compile
NoVer == [bytes |-> Nothing, ref |-> Nothing, path |-> FALSE]
Free == [at |-> "idle"]

VARIABLES
  remote,    \* the upstreams as they are: [root, listed, doc, bytes]
  upstream,  \* rows of upstreams: [made, requires]
  row,       \* rows of packages, each with its versions
  sync,      \* what each worker is doing
  refused,   \* history: the packages the upstream refused for good during the sync
  late,      \* history: the packages archived after the sync had read the archived ones
  turns, edits, begun

mirrorVars == <<remote, upstream, row, sync, refused, late, turns, edits, begun>>

NoRow == [there |-> FALSE, up |-> Nothing, broken |-> FALSE, archived |-> FALSE,
          ver |-> [v \in Version |-> NoVer]]

(* ---- the world outside -------------------------------------------------- *)

TurnRoot(u, a) == remote' = [remote EXCEPT ![u].root = a]
TurnListing(u, l) == Kind[u] = "composer" /\ remote' = [remote EXCEPT ![u].listed = l]
TurnDocument(u, p, a) == Kind[u] = "composer" /\ remote' = [remote EXCEPT ![u].doc[p] = a]
TurnDist(u, p, v, b) == remote' = [remote EXCEPT ![u].bytes[p][v] = b]

Lists(r, p) == r.listed = Patterns \/ p \in r.listed

\* The packages u refuses in the state it is left in, or withdrew a dist of just now.
RefusedBy(u, r, before) ==
  {p \in Pkg : \/ r.doc[p] = "refused" \/ ~Lists(r, p)
               \/ \E v \in Version : before.bytes[p][v] # Nothing /\ r.bytes[p][v] = Nothing}

World ==
  /\ turns < MaxTurns /\ turns' = turns + 1
  /\ \E u \in Upstream :
       \/ \E a \in {"ok", "down"} : TurnRoot(u, a)
       \/ \E l \in (SUBSET Pkg) \cup {Patterns} : TurnListing(u, l)
       \/ \E p \in Pkg, a \in Answers : TurnDocument(u, p, a)
       \/ \E p \in Pkg, v \in Version, b \in Bytes \cup {Nothing} : TurnDist(u, p, v, b)
  /\ remote' # remote
  /\ refused' = [w \in Worker |->
       IF sync[w] = Free THEN {}
       ELSE refused[w] \cup RefusedBy(sync[w].up, remote'[sync[w].up], remote[sync[w].up])]
  /\ UNCHANGED <<upstream, row, sync, late, edits, begun>>

(* ---- what an operator does meanwhile ------------------------------------ *)

Live(u) == upstream[u].made \in {"bare", "ready"}

\* create_upstream, from the CLI or the form, whose checks are those of both: an
\* upstream that is there may be synced before its require-list is.
CreateUpstream(u) ==
  /\ upstream[u].made = "never"
  /\ upstream' = [upstream EXCEPT ![u].made = "bare"]
  /\ UNCHANGED <<remote, row, sync, refused, late, turns, edits, begun>>

\* Neither the command nor the form registers a composer upstream without entries,
\* and neither notices a pattern that will not compile.
CliAccepts(u, s) == Kind[u] = "composer" => s # {}
FormAccepts(u, s) == Kind[u] = "git" \/ s # {}

\* set_upstream_requires follows the insert, once, in a transaction of its own.
StoreRequires(u, s) ==
  /\ upstream[u].made = "bare"
  /\ CliAccepts(u, s) \/ FormAccepts(u, s)
  /\ upstream' = [upstream EXCEPT ![u] = [made |-> "ready", requires |-> s]]
  /\ UNCHANGED <<remote, row, sync, refused, late, turns, edits, begun>>

\* delete_upstream: packages keep their rows, unbound (on delete set null).
DeleteUpstream(u) ==
  /\ Live(u)
  /\ upstream' = [upstream EXCEPT ![u] = [made |-> "gone", requires |-> {}]]
  /\ row' = [p \in Pkg |-> IF row[p].up = u THEN [row[p] EXCEPT !.up = Nothing] ELSE row[p]]
  /\ UNCHANGED late

\* The registry syncs that have read which packages are archived.
PastReading(w) == sync[w].at \notin {"idle", "clone", "root", "archived"}

Archive(p) ==
  /\ row[p].there
  /\ row' = [row EXCEPT ![p].archived = TRUE]
  /\ late' = [w \in Worker |-> IF PastReading(w) THEN late[w] \cup {p} ELSE late[w]]
  /\ UNCHANGED upstream

Unarchive(p) ==
  /\ row[p].there /\ row[p].archived
  /\ row' = [row EXCEPT ![p].archived = FALSE]
  /\ UNCHANGED <<upstream, late>>

Operator ==
  /\ edits < MaxEdits /\ edits' = edits + 1
  /\ \/ \E u \in Upstream : DeleteUpstream(u)
     \/ \E p \in Pkg : Archive(p)
     \/ \E p \in Pkg : Unarchive(p)
  /\ UNCHANGED <<remote, sync, refused, turns, begun>>

(* ---- the subscription --------------------------------------------------- *)

\* Whether any entry selects the name, and whether a version of it is wanted: one
\* matching entry without a floor above it is enough, and a name no entry
\* matches was asked for by itself.
MatchesName(sub, p) == \E e \in sub : p \in e.names

VersionAllowed(sub, p, v) ==
  LET matching == {e \in sub : p \in e.names}
  IN matching = {} \/ \E e \in matching : v >= e.floor

Wanted(sub, pvs) == {pv \in pvs : VersionAllowed(sub, pv[1], pv[2])}

(* ---- one sync ----------------------------------------------------------- *)

Goes(w, s) == sync' = [sync EXCEPT ![w] = s]
To(w, at) == Goes(w, [sync[w] EXCEPT !.at = at])

\* The sync ends, having succeeded, failed or died: nothing is undone.
Ends(w) ==
  /\ Goes(w, Free)
  /\ refused' = [refused EXCEPT ![w] = {}]
  /\ late' = [late EXCEPT ![w] = {}]

Catalog == <<upstream, row>>
History == <<refused, late>>
Outside == <<remote, turns, edits, begun>>

\* What is left of a package is given up: a registry sync goes on with the next one
\* (and a single-package one has none), a git sync fails as a whole.
Abandon(w) ==
  IF Kind[sync[w].up] = "git"
  THEN Ends(w)
  ELSE /\ Goes(w, [sync[w] EXCEPT !.at = "next", !.doc = <<>>, !.stored = <<>>, !.left = {}, !.dist = <<>>])
       /\ UNCHANGED History

\* mirror_upstream and mirror_composer_package: the upstream and its require-list are
\* read once; a list that does not compile, an empty one for a whole registry and
\* an upstream that is gone end the job before it has touched anything.
Begin(w, u, single) ==
  /\ sync[w] = Free /\ begun < MaxSyncs /\ begun' = begun + 1
  /\ Live(u) /\ upstream[u].requires # Malformed
  /\ single # {} => Kind[u] = "composer"
  /\ Kind[u] = "composer" => single # {} \/ upstream[u].requires # {}
  /\ Goes(w, [at |-> IF single # {} THEN "next" ELSE IF Kind[u] = "git" THEN "clone" ELSE "root",
              up |-> u, single |-> single # {}, requires |-> upstream[u].requires,
              listed |-> Patterns, todo |-> single,
              pkg |-> Nothing, doc |-> <<>>, stored |-> <<>>, left |-> {}, dist |-> <<>>])
  /\ refused' = [refused EXCEPT ![w] = RefusedBy(u, remote[u], remote[u])]
  /\ UNCHANGED <<Catalog, late, remote, turns, edits>>

\* A job or a command for the upstream; the command for a registry; and a job, from
\* the dependency plan, or a command for one package of it.
MirrorUpstream(w, u) == Begin(w, u, {})
MirrorRegistry(w, u) == Kind[u] = "composer" /\ Begin(w, u, {})
MirrorPackage(w, u, p) == Begin(w, u, {p})

\* packages.json: what the registry lists, and of it what the subscription selects.
FetchRoot(w) ==
  /\ sync[w].at = "root"
  /\ LET r == remote[sync[w].up]
     IN IF r.root # "ok" THEN Ends(w)
        ELSE /\ Goes(w, [sync[w] EXCEPT !.at = "archived", !.listed = r.listed,
                           !.todo = IF r.listed = Patterns THEN {}
                                    ELSE {p \in r.listed : MatchesName(sync[w].requires, p)}])
             /\ UNCHANGED History
  /\ UNCHANGED <<Catalog, Outside>>

\* Mutant: archived packages are mirrored on.
ReadArchived_Mirrors(w) ==
  sync[w].at = "archived" /\ To(w, "next") /\ UNCHANGED <<Catalog, History, Outside>>

ListPackages == {p \in Pkg : row[p].there}
ArchivedNames == {p \in ListPackages : row[p].archived}

\* Archived packages are frozen: they are left out, as they are read now.
ReadArchived(w) ==
  /\ sync[w].at = "archived"
  /\ Goes(w, [sync[w] EXCEPT !.at = "next", !.todo = @ \ ArchivedNames])
  /\ UNCHANGED <<Catalog, History, Outside>>

Published(u, p) == {<<p, v>> : v \in {x \in Version : remote[u].bytes[p][x] # Nothing}}

\* What a document may list: the dists there are, and some that are not.
Documents(u, p) ==
  UNION {[Published(u, p) \cup dead -> Bytes] : dead \in SUBSET ({p} \X Version \ Published(u, p))}
Lists404(u, p, d) == DOMAIN d # Published(u, p)
Claims(u, p, d) == \A pv \in Published(u, p) : d[pv] = remote[u].bytes[p][pv[2]]

\* p2/{package}.json, for any of the names that are left.
FetchDocument(w, p) ==
  /\ sync[w].at = "next" /\ p \in sync[w].todo
  /\ LET u == sync[w].up
         a == remote[u].doc[p]
         on == [sync[w] EXCEPT !.todo = @ \ {p}, !.pkg = p]
     IN \/ /\ a # "ok"
           /\ Goes(w, IF a = "down" THEN on ELSE [on EXCEPT !.at = "flag"])
           /\ UNCHANGED refused
        \/ /\ a = "ok"
           /\ \E d \in Documents(u, p) :
                /\ Claims(u, p, d)
                /\ Goes(w, [on EXCEPT !.at = "stored", !.doc = d])
                /\ refused' = IF Lists404(u, p, d) THEN [refused EXCEPT ![w] = @ \cup {p}] ELSE refused
  /\ UNCHANGED <<Catalog, late, Outside>>

\* mark_package_broken: only a package that exists and is not archived.
Flagged(p) == [row EXCEPT ![p].broken = @ \/ (row[p].there /\ ~row[p].archived)]

\* A refusal for good flags the package, as far as that call succeeds.
MarkBroken(w) ==
  /\ sync[w].at = "flag"
  /\ \/ row' = Flagged(sync[w].pkg)
     \/ UNCHANGED row
  /\ UNCHANGED upstream
  /\ Abandon(w)
  /\ UNCHANGED Outside

\* stored_dists: what is there already, before the first version is compared.
ReadStored(w) ==
  /\ sync[w].at = "stored"
  /\ Goes(w, [sync[w] EXCEPT !.at = "versions",
                !.stored = [pv \in {x \in DOMAIN sync[w].doc : row[x[1]].ver[x[2]] # NoVer} |->
                              row[pv[1]].ver[pv[2]]],
                !.left = Wanted(sync[w].requires, DOMAIN sync[w].doc)])
  /\ UNCHANGED <<Catalog, History, Outside>>

\* upstream_change: the shasum decides where there is one, else the reference.
Changed(u, ver, b) ==
  \/ Claim[u] = "shasum" /\ ver.bytes # b
  \/ Claim[u] = "reference" /\ ver.ref # Nothing /\ ver.ref # b

\* A version that was stored already is never fetched again; one stored before its
\* path was kept gets the path now, if it is unchanged.
KeepStored(w, pv) ==
  /\ sync[w].at = "versions" /\ Kind[sync[w].up] = "composer"
  /\ pv \in sync[w].left \cap DOMAIN sync[w].stored
  /\ LET u == sync[w].up
         ver == sync[w].stored[pv]
     IN row' = IF ~Changed(u, ver, sync[w].doc[pv]) /\ ~ver.path /\ u \in OwnDists
               THEN [row EXCEPT ![pv[1]].ver[pv[2]].path = TRUE] ELSE row
  /\ Goes(w, [sync[w] EXCEPT !.left = @ \ {pv}])
  /\ UNCHANGED <<upstream, History, Outside>>

\* Mutant: bytes that do not match skip the version instead of giving the package up.
Download_Skips(w, pv) ==
  /\ sync[w].at = "versions" /\ Kind[sync[w].up] = "composer"
  /\ pv \in sync[w].left \ DOMAIN sync[w].stored
  /\ LET b == remote[sync[w].up].bytes[pv[1]][pv[2]]
         on == [sync[w] EXCEPT !.left = @ \ {pv}]
     IN Goes(w, IF b # sync[w].doc[pv] THEN on ELSE [on EXCEPT !.at = "upsert", !.dist = <<pv, b>>])
  /\ UNCHANGED <<Catalog, History, Outside>>

\* The dist as it is served now, which need not be what the document described:
\* other bytes than the shasum's give the package up, a dist that is gone flags it.
Download(w, pv) ==
  /\ sync[w].at = "versions" /\ Kind[sync[w].up] = "composer"
  /\ pv \in sync[w].left \ DOMAIN sync[w].stored
  /\ LET u == sync[w].up
         b == remote[u].bytes[pv[1]][pv[2]]
     IN IF b = Nothing THEN To(w, "flag") /\ UNCHANGED History
        ELSE IF Claim[u] = "shasum" /\ b # sync[w].doc[pv] THEN Abandon(w)
        ELSE /\ Goes(w, [sync[w] EXCEPT !.at = "upsert", !.left = @ \ {pv}, !.dist = <<pv, b>>])
             /\ UNCHANGED History
  /\ UNCHANGED <<Catalog, Outside>>

\* git clone: every tag as it is at this moment, or no sync at all.
Clone(w) ==
  /\ sync[w].at = "clone"
  /\ LET u == sync[w].up
         tags == UNION {Published(u, p) : p \in Pkg}
     IN IF remote[u].root # "ok" THEN Ends(w)
        ELSE /\ Goes(w, [sync[w] EXCEPT !.at = "versions",
                           !.doc = [pv \in tags |-> remote[u].bytes[pv[1]][pv[2]]],
                           !.left = Wanted(sync[w].requires, tags)])
             /\ UNCHANGED History
  /\ UNCHANGED <<Catalog, Outside>>

\* The next tag's subtree is archived and its blob stored.
ArchiveTag(w, pv) ==
  /\ sync[w].at = "versions" /\ Kind[sync[w].up] = "git" /\ pv \in sync[w].left
  /\ Goes(w, [sync[w] EXCEPT !.at = "upsert", !.left = @ \ {pv}, !.dist = <<pv, sync[w].doc[pv]>>])
  /\ UNCHANGED <<Catalog, History, Outside>>

UpsertPackage(w) ==
  /\ sync[w].at = "upsert"
  /\ row' = [row EXCEPT ![sync[w].dist[1][1]].there = TRUE]
  /\ To(w, "bind")
  /\ UNCHANGED <<upstream, History, Outside>>

\* set_package_upstream: a foreign key, so an upstream deleted meanwhile fails it.
BindUpstream(w) ==
  /\ sync[w].at = "bind"
  /\ IF Live(sync[w].up)
     THEN /\ row' = [row EXCEPT ![sync[w].dist[1][1]].up = sync[w].up]
          /\ To(w, "insert") /\ UNCHANGED History
     ELSE Abandon(w) /\ UNCHANGED row
  /\ UNCHANGED <<upstream, Outside>>

\* Mutant: the insert trusts what was read before the download.
InsertOnce_Replaces(p, v, b, ref, path) ==
  row' = [row EXCEPT ![p].ver[v] = [bytes |-> b, ref |-> ref, path |-> path]]

\* insert_mirrored_version: the insert itself decides, whatever was read before.
InsertOnce(p, v, b, ref, path) ==
  row' = IF row[p].ver[v] # NoVer THEN row
         ELSE [row EXCEPT ![p].ver[v] = [bytes |-> b, ref |-> ref, path |-> path]]

\* upsert_package_version: the tag's bytes replace the stored ones; a recorded
\* upstream path stays.
Overwrite(p, v, b) ==
  row' = [row EXCEPT ![p].ver[v] =
            [bytes |-> b, ref |-> Nothing, path |-> @.path]]

InsertMirrored(u, pv, b, claimed) ==
  InsertOnce(pv[1], pv[2], b, IF Claim[u] = "reference" THEN claimed ELSE Nothing, u \in OwnDists)

InsertVersion(w) ==
  /\ sync[w].at = "insert"
  /\ LET u == sync[w].up
         pv == sync[w].dist[1]
         b == sync[w].dist[2]
     IN IF Kind[u] = "git" THEN Overwrite(pv[1], pv[2], b)
        ELSE InsertMirrored(u, pv, b, sync[w].doc[pv])
  /\ Goes(w, [sync[w] EXCEPT !.at = "versions", !.dist = <<>>])
  /\ UNCHANGED <<upstream, History, Outside>>

Synced(marked) == [p \in Pkg |-> [row[p] EXCEPT !.broken = @ /\ p \notin marked]]

\* mark_package_synced, as far as it succeeds: a registry package when its last
\* version is done, the packages of a clone when its last tag is.
MarkSynced(w) ==
  /\ sync[w].at = "versions" /\ sync[w].left = {}
  /\ LET git == Kind[sync[w].up] = "git"
         done == IF git THEN {pv[1] : pv \in Wanted(sync[w].requires, DOMAIN sync[w].doc)}
                 ELSE {sync[w].pkg}
     IN \E marked \in SUBSET done : row' = Synced(marked)
  /\ Abandon(w)
  /\ UNCHANGED <<upstream, Outside>>

\* Mutant: a registry that lists nothing by name counts as one that lists nothing.
Reconcile_Patterns(w) ==
  /\ sync[w].at = "next" /\ sync[w].todo = {} /\ ~sync[w].single
  /\ Goes(w, [sync[w] EXCEPT !.at = "reconcile",
                !.todo = {p \in Pkg : row[p].up = sync[w].up /\ ~row[p].archived /\ p \notin sync[w].listed}])
  /\ UNCHANGED <<Catalog, History, Outside>>

\* upstream_package_names: what is bound to this upstream now and not archived, of
\* which the listing read at the start no longer has some.
Reconcile(w) ==
  /\ sync[w].at = "next" /\ sync[w].todo = {} /\ ~sync[w].single /\ sync[w].listed # Patterns
  /\ Goes(w, [sync[w] EXCEPT !.at = "reconcile",
                !.todo = {p \in Pkg : row[p].up = sync[w].up /\ ~row[p].archived /\ p \notin sync[w].listed}])
  /\ UNCHANGED <<Catalog, History, Outside>>

FlagVanished(w, p) ==
  /\ sync[w].at = "reconcile" /\ p \in sync[w].todo
  /\ row' = Flagged(p)
  /\ Goes(w, [sync[w] EXCEPT !.todo = @ \ {p}])
  /\ UNCHANGED <<upstream, History, Outside>>

Finish(w) ==
  /\ sync[w] # Free /\ sync[w].todo = {}
  /\ \/ sync[w].at = "reconcile"
     \/ sync[w].at = "next" /\ (sync[w].single \/ sync[w].listed = Patterns)
  /\ Ends(w)
  /\ UNCHANGED <<Catalog, Outside>>

\* A request or a catalog call fails in passing.
Fail(w) ==
  /\ sync[w].at \in {"archived", "stored", "versions", "upsert", "bind", "insert", "reconcile"}
  /\ IF sync[w].at \in {"archived", "reconcile"} THEN Ends(w) ELSE Abandon(w)
  /\ UNCHANGED <<Catalog, Outside>>

\* The process dies.
Die(w) ==
  /\ sync[w] # Free
  /\ Ends(w)
  /\ UNCHANGED <<Catalog, Outside>>

MirrorInit ==
  /\ remote = Initially
  /\ upstream = [u \in Upstream |-> [made |-> "never", requires |-> {}]]
  /\ row = [p \in Pkg |-> NoRow]
  /\ sync = [w \in Worker |-> Free]
  /\ refused = [w \in Worker |-> {}] /\ late = [w \in Worker |-> {}]
  /\ turns = 0 /\ edits = 0 /\ begun = 0

SyncStep(w) ==
  \/ \E u \in Upstream : MirrorUpstream(w, u)
  \/ \E u \in Upstream : MirrorRegistry(w, u)
  \/ \E u \in Upstream, p \in Pkg : MirrorPackage(w, u, p)
  \/ FetchRoot(w)
  \/ ReadArchived(w)
  \/ \E p \in Pkg : FetchDocument(w, p)
  \/ MarkBroken(w)
  \/ ReadStored(w)
  \/ \E p \in Pkg, v \in Version : KeepStored(w, <<p, v>>)
  \/ \E p \in Pkg, v \in Version : Download(w, <<p, v>>)
  \/ Clone(w)
  \/ \E p \in Pkg, v \in Version : ArchiveTag(w, <<p, v>>)
  \/ UpsertPackage(w)
  \/ BindUpstream(w)
  \/ InsertVersion(w)
  \/ MarkSynced(w)
  \/ Reconcile(w)
  \/ \E p \in Pkg : FlagVanished(w, p)
  \/ Finish(w)
  \/ Fail(w)
  \/ Die(w)

MirrorNext ==
  \/ World
  \/ Operator
  \/ \E u \in Upstream : CreateUpstream(u)
  \/ \E u \in Upstream, s \in Subs \cup {Malformed} : StoreRequires(u, s)
  \/ \E w \in Worker : SyncStep(w)

MirrorSpec == MirrorInit /\ [][MirrorNext]_mirrorVars

(* ---- properties --------------------------------------------------------- *)

MirrorTypes ==
  /\ \A p \in Pkg :
       /\ row[p].up \in Upstream \cup {Nothing} /\ row[p].broken \in BOOLEAN
       /\ \A v \in Version : row[p].ver[v] # NoVer => row[p].there /\ row[p].ver[v].bytes \in Bytes
       /\ row[p].up # Nothing => Live(row[p].up)
  /\ \A w \in Worker : sync[w] # Free => sync[w].up \in Upstream /\ sync[w].todo \subseteq Pkg

Acts(w) == sync'[w] # sync[w]
FromGit(w) == sync[w] # Free /\ Kind[sync[w].up] = "git"

\* "Once a version is mirrored its bytes never change" (the Report and
\* insert_mirrored_version): whatever a registry comes to serve and however many
\* syncs of it overlap, the first bytes stay.  Only the tag of a git upstream
\* replaces what is stored.
FirstBytesStay ==
  [][\A p \in Pkg, v \in Version :
       row[p].ver[v] # NoVer =>
         \/ row'[p].ver[v].bytes = row[p].ver[v].bytes
         \/ \E w \in Worker : Acts(w) /\ FromGit(w)]_mirrorVars

\* "We never want a maybe-temporary failure to wrongly flag a package broken", and
\* removals are reconciled apart from the subscription and never for a registry
\* that only publishes patterns: a package turns broken only by a sync during
\* which its upstream did refuse it for good, no longer listed it, or had
\* withdrawn a dist of it.
FlagsHaveGrounds ==
  [][\A p \in Pkg :
       (~row[p].broken /\ row'[p].broken)
         => \E w \in Worker : Acts(w) /\ p \in refused[w]]_mirrorVars

\* "Archived packages are frozen": a registry sync neither adds to an archived
\* package nor touches a version of it, unless it was archived after that sync had
\* read the list; a package asked for by name and a git sync know no archive.
FreezeNeedsRace ==
  [][\A p \in Pkg :
       (row[p].archived /\ row'[p].ver # row[p].ver)
         => \E w \in Worker : Acts(w) /\ (sync[w].single \/ FromGit(w) \/ p \in late[w])]_mirrorVars

\* What a sync declares healthy is there: once it has dealt with a version of the
\* document its require-list wants, the version is stored - by it, by a sync it
\* raced, or before - and none was passed over on the way to the next.
SyncedIsStored ==
  \A w \in Worker : sync[w].at = "versions" =>
    \A pv \in Wanted(sync[w].requires, DOMAIN sync[w].doc) \ sync[w].left :
      row[pv[1]].ver[pv[2]] # NoVer

=============================================================================
