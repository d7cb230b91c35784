-------------------------------- MODULE Tenancy --------------------------------
(***************************************************************************)
(* Organisations and repositories under their names: creation, renames     *)
(* that retire the old name into slug_history, deletion, the lookup of a   *)
(* request's path through live and retired names, custom domains, and the  *)
(* team manifest kept for a git remote.                                    *)
(*                                                                         *)
(* A form or a command first looks up what it is about, then checks, then  *)
(* writes; a path is looked up in up to four queries.  Each is a step.     *)
(***************************************************************************)
EXTENDS Integers, FiniteSets

CONSTANTS
    Orgs, Repos,
    Slugs,          \* names somebody may type, none of them blank
    Trim,           \* each without the space around it
    Hosts,          \* custom domains
    Remotes,        \* normalised git remotes
    Visits,         \* requests in flight
    MaxVisits,      \* bound: requests served
    Nothing

ASSUME TenancyAssumption ==
    /\ MaxVisits \in Nat
    /\ Trim \in [Slugs -> Slugs] /\ \A s \in Slugs : Trim[Trim[s]] = Trim[s]
    /\ Nothing \notin Orgs \union Repos \union Slugs \union Hosts

VARIABLES
    org,        \* organizations: the slug of each that exists
    repo,       \* repositories: organisation, slug and custom_domain
    history,    \* slug_history; the scope is the repository's organisation, or Nothing
    remote,     \* org_remotes: owner, and who set its snapshot, sources, recipes
    visit, visits,
    seen,       \* history: what the path of a visit led to while it ran
    held,       \* history: every name each entity has had
    raced,      \* history: retired names taken again, that no check found retired
    spaced,     \* history: retired names taken again because the check was of another spelling
    handed      \* history: remotes that went from one organisation to another

tenancy == <<org, repo, history, remote, visit, visits, seen, held, raced, spaced, handed>>

NoRepo   == [org |-> Nothing, slug |-> Nothing, host |-> Nothing]
NoRemote == [org |-> Nothing, snapshot |-> Nothing, by |-> Nothing,
             sources |-> {}, recipes |-> {}]
Absent   == [at |-> "absent"]

-----------------------------------------------------------------------------
(* Queries of the catalog.                                                  *)

OrgIdBySlug(s)    == {o \in Orgs : org[o] = s /\ s # Nothing}
ListOrganizations == {o \in Orgs : org[o] # Nothing}
ListRepositories  == {r \in Repos : repo[r] # NoRepo}
ReposForOrg(o)    == {r \in ListRepositories : repo[r].org = o}
LiveRepo(o, s)    == {r \in ReposForOrg(o) : repo[r].slug = s}
ResolveRepo(s, t) == UNION {LiveRepo(o, t) : o \in OrgIdBySlug(s)}

Retired(scope, s)      == \E h \in history : h.scope = scope /\ h.slug = s
OrgSlugRetired(s)      == Retired(Nothing, s)
RepoSlugRetired(o, s)  == Retired(o, s)
OrgSlugUnavailable(s)  == OrgIdBySlug(s) # {} \/ Retired(Nothing, s)
RepoSlugUnavailable(o, s) == LiveRepo(o, s) # {} \/ Retired(o, s)

(* History joined with the rows it points at.                               *)
OrgByHistory(s)     == {h.id : h \in {x \in history : x.scope = Nothing /\ x.slug = s}}
RepoByHistory(o, s) == {h.id : h \in {x \in history : x.scope = o /\ x.slug = s}}
                          \intersect ListRepositories

(* What a path leads to, at one moment.                                     *)
OrgOf(s)  == IF OrgIdBySlug(s) # {} THEN OrgIdBySlug(s) ELSE OrgByHistory(s)
RepoOf(o, s) == IF LiveRepo(o, s) # {} THEN LiveRepo(o, s) ELSE RepoByHistory(o, s)
Canonical(s, t) == UNION {RepoOf(o, t) : o \in OrgOf(s)}

RepoByCustomDomain(h) == {r \in ListRepositories : repo[r].host = h}

-----------------------------------------------------------------------------
(* What there may be: one organisation and its repository, perhaps renamed  *)
(* before, perhaps a second organisation, perhaps a remote with a source.   *)
TenancyInit ==
    /\ \E o \in Orgs, r \in Repos, s \in Slugs, t \in Slugs :
        /\ org \in {f \in [Orgs -> Slugs \union {Nothing}] :
                        f[o] = s /\ \A p, q \in Orgs : f[p] = f[q] /\ f[p] # Nothing => p = q}
        /\ repo = [x \in Repos |-> IF x = r THEN [org |-> o, slug |-> t, host |-> Nothing]
                                   ELSE NoRepo]
        /\ history \in {{}} \union
                {{[scope |-> Nothing, slug |-> x, id |-> o]} : x \in {y \in Slugs : \A p \in Orgs : org[p] # y}}
                \union {{[scope |-> o, slug |-> x, id |-> r]} : x \in Slugs \ {t}}
        /\ held = history \union {[scope |-> o, slug |-> t, id |-> r]}
                          \union {[scope |-> Nothing, slug |-> org[p], id |-> p] :
                                     p \in {q \in Orgs : org[q] # Nothing}}
        /\ remote \in [Remotes -> {NoRemote, [NoRemote EXCEPT !.org = o, !.sources = {o}]}]
    /\ visit = [v \in Visits |-> Absent] /\ visits = 0
    /\ seen = [v \in Visits |-> {}]
    /\ raced = {} /\ spaced = {} /\ handed = {}

Comes(v, r) ==
    /\ visit[v] = Absent /\ visits < MaxVisits
    /\ visits' = visits + 1
    /\ visit'  = [visit EXCEPT ![v] = r]

Left(v)      == visit' = [visit EXCEPT ![v] = Absent] /\ UNCHANGED visits
Onward(v, r) == visit' = [visit EXCEPT ![v] = r] /\ UNCHANGED visits

Marks  == <<held, raced, spaced>>
Names  == <<org, repo, history, Marks>>
Wires  == <<remote, handed>>

(* A retired name is taken: it was not one at the check of it, or it was    *)
(* one, with space around it, and the check was of it without.              *)
Overtaken(v, scope, s) ==
    /\ raced'  = IF Retired(scope, s) /\ ~ visit[v].retired
                 THEN raced \union {<<scope, s>>} ELSE raced
    /\ spaced' = IF Retired(scope, s) /\ visit[v].retired /\ Trim[s] # s
                 THEN spaced \union {<<scope, s>>} ELSE spaced

Called(scope, s, id) == held' = held \union {[scope |-> scope, slug |-> s, id |-> id]}

-----------------------------------------------------------------------------
(* Creation: the retired names are asked about first.  The forms ask about  *)
(* the name without the space around it, the commands about the name, and   *)
(* both create it as it was typed.                                          *)

CreateOrgCheck(v) ==
    \E s \in Slugs :
        /\ ~ OrgSlugRetired(Trim[s])
        /\ Comes(v, [at |-> "create_org", slug |-> s, retired |-> OrgSlugRetired(s)])
        /\ UNCHANGED <<Names, Wires>>

OrgCreateCheck(v) ==
    \E s \in Slugs :
        /\ ~ OrgSlugRetired(s)
        /\ Comes(v, [at |-> "create_org", slug |-> s, retired |-> FALSE])
        /\ UNCHANGED <<Names, Wires>>

(* Upsert by slug: an organisation that has the name keeps it.              *)
CreateOrg(v) ==
    /\ visit[v].at = "create_org"
    /\ LET s == visit[v].slug IN
        IF OrgIdBySlug(s) # {} THEN UNCHANGED <<org, Marks>>
        ELSE \E o \in Orgs \ ListOrganizations :
                /\ org' = [org EXCEPT ![o] = s]
                /\ Called(Nothing, s, o)
                /\ Overtaken(v, Nothing, s)
    /\ Left(v)
    /\ UNCHANGED <<repo, history, Wires>>

CreateRepoCheck(v) ==
    \E s \in Slugs, t \in Slugs : \E o \in OrgIdBySlug(s) :
        /\ ~ RepoSlugRetired(o, Trim[t])
        /\ Comes(v, [at |-> "create_repo", org |-> s, slug |-> t, retired |-> RepoSlugRetired(o, t)])
        /\ UNCHANGED <<Names, Wires>>

(* The command asks only when it finds the organisation.                    *)
RepoCreateCheck(v) ==
    \E s \in Slugs, t \in Slugs :
        /\ \A o \in OrgIdBySlug(s) : ~ RepoSlugRetired(o, t)
        /\ Comes(v, [at |-> "create_repo", org |-> s, slug |-> t, retired |-> FALSE])
        /\ UNCHANGED <<Names, Wires>>

(* The organisation is found again by its name; idempotent on the pair.     *)
CreateRepo(v) ==
    /\ visit[v].at = "create_repo"
    /\ LET t == visit[v].slug
           found == OrgIdBySlug(visit[v].org)
       IN  IF found = {} \/ ResolveRepo(visit[v].org, t) # {} THEN UNCHANGED <<repo, Marks>>
           ELSE \E o \in found, r \in Repos \ ListRepositories :
                   /\ \A x \in held : x.id # r
                   /\ repo' = [repo EXCEPT ![r] = [org |-> o, slug |-> t, host |-> Nothing]]
                   /\ Called(o, t, r)
                   /\ Overtaken(v, o, t)
    /\ Left(v)
    /\ UNCHANGED <<org, history, Wires>>

-----------------------------------------------------------------------------
(* Renames.  The page or the command finds the row by its name; the rename  *)
(* trims the new name, reads the one the row has now, asks whether the new  *)
(* one is free, then writes both.                                           *)

NewSlugs == {Trim[s] : s \in Slugs}

LookupOrg(v) ==
    \E s \in Slugs : \E o \in OrgIdBySlug(s) :
        /\ Comes(v, [at |-> "org", org |-> o])
        /\ UNCHANGED <<Names, Wires>>

RenameOrgRead(v) ==
    /\ visit[v].at = "org"
    /\ \E s \in NewSlugs :
        IF s = org[visit[v].org] THEN Left(v)
        ELSE Onward(v, [at |-> "ask_org", org |-> visit[v].org, old |-> org[visit[v].org],
                        slug |-> s, retired |-> FALSE])
    /\ UNCHANGED <<Names, Wires>>

RenameOrgCheck(v) ==
    /\ visit[v].at = "ask_org"
    /\ IF OrgSlugUnavailable(visit[v].slug) THEN Left(v)
       ELSE Onward(v, [visit[v] EXCEPT !.at = "rename_org"])
    /\ UNCHANGED <<Names, Wires>>

(* Mutant of RenameOrg: the old name is let go.                             *)
RenameOrg_Forgets(v) ==
    /\ visit[v].at = "rename_org"
    /\ org' = [org EXCEPT ![visit[v].org] = visit[v].slug]
    /\ Called(Nothing, visit[v].slug, visit[v].org)
    /\ Overtaken(v, Nothing, visit[v].slug)
    /\ Left(v)
    /\ UNCHANGED <<repo, history, Wires>>

(* One transaction; the unique indexes refuse it when the old name is       *)
(* already history or the new one is taken.                                 *)
RenameOrg(v) ==
    /\ visit[v].at = "rename_org"
    /\ LET w == visit[v] IN
        IF Retired(Nothing, w.old) \/ OrgIdBySlug(w.slug) # {} THEN UNCHANGED Names
        ELSE /\ history' = history \union {[scope |-> Nothing, slug |-> w.old, id |-> w.org]}
             /\ org' = [org EXCEPT ![w.org] = w.slug]
             /\ Called(Nothing, w.slug, w.org)
             /\ Overtaken(v, Nothing, w.slug)
             /\ UNCHANGED repo
    /\ Left(v)
    /\ UNCHANGED Wires

Lookup(v) ==
    \E s \in Slugs, t \in Slugs : \E r \in ResolveRepo(s, t) :
        /\ Comes(v, [at |-> "repo", repo |-> r, confirm |-> t])
        /\ UNCHANGED <<Names, Wires>>

RenameRepoRead(v) ==
    /\ visit[v].at = "repo"
    /\ LET r == visit[v].repo IN
        \E s \in NewSlugs :
            IF r \notin ListRepositories \/ s = repo[r].slug THEN Left(v)
            ELSE Onward(v, [at |-> "ask_repo", repo |-> r, old |-> repo[r].slug,
                            org |-> repo[r].org, slug |-> s, retired |-> FALSE])
    /\ UNCHANGED <<Names, Wires>>

RenameRepoCheck(v) ==
    /\ visit[v].at = "ask_repo"
    /\ IF RepoSlugUnavailable(visit[v].org, visit[v].slug) THEN Left(v)
       ELSE Onward(v, [visit[v] EXCEPT !.at = "rename_repo"])
    /\ UNCHANGED <<Names, Wires>>

RenameRepo(v) ==
    /\ visit[v].at = "rename_repo"
    /\ LET w == visit[v] IN
        IF Retired(w.org, w.old) \/ LiveRepo(w.org, w.slug) # {} THEN UNCHANGED Names
        ELSE /\ history' = history \union {[scope |-> w.org, slug |-> w.old, id |-> w.repo]}
             /\ IF w.repo \in ListRepositories
                THEN /\ repo' = [repo EXCEPT ![w.repo].slug = w.slug]
                     /\ Called(w.org, w.slug, w.repo)
                     /\ Overtaken(v, w.org, w.slug)
                ELSE UNCHANGED <<repo, Marks>>
             /\ UNCHANGED org
    /\ Left(v)
    /\ UNCHANGED Wires

(* The typed name is compared with the path's.                              *)
DeleteRepoCheck(v) ==
    /\ visit[v].at = "repo"
    /\ \E typed \in Slugs :
        LET r == visit[v].repo IN
        IF Trim[typed] = visit[v].confirm /\ r \in ListRepositories
        THEN Onward(v, [at |-> "delete_repo", repo |-> r, org |-> repo[r].org, old |-> repo[r].slug])
        ELSE Left(v)
    /\ UNCHANGED <<Names, Wires>>

(* Retires the name it read and takes the row, and the manifests' pointers  *)
(* to it; refused when that name is history already.                        *)
DeleteRepo(v) ==
    /\ visit[v].at = "delete_repo"
    /\ LET w == visit[v] IN
        IF Retired(w.org, w.old) THEN UNCHANGED <<repo, history, remote>>
        ELSE /\ history' = history \union {[scope |-> w.org, slug |-> w.old, id |-> w.repo]}
             /\ repo'    = [repo EXCEPT ![w.repo] = NoRepo]
             /\ remote'  = [m \in Remotes |-> IF remote[m].snapshot = w.repo
                                              THEN [remote[m] EXCEPT !.snapshot = Nothing]
                                              ELSE remote[m]]
    /\ Left(v)
    /\ UNCHANGED <<org, Marks, handed>>

(* A host belongs to one repository.                                        *)
SetCustomDomain(v) ==
    /\ visit[v].at = "repo"
    /\ \E h \in Hosts \union {Nothing} :
        LET r == visit[v].repo IN
        repo' = IF r \notin ListRepositories
                   \/ (h # Nothing /\ RepoByCustomDomain(h) \ {r} # {})
                THEN repo
                ELSE [repo EXCEPT ![r].host = h]
    /\ Left(v)
    /\ UNCHANGED <<org, history, Marks, Wires>>

-----------------------------------------------------------------------------
(* A request for a path: each query that finds nothing leads to the next.   *)

(* Mutant of ResolveOrg: history is asked before the live names.            *)
ResolveOrg_HistoryFirst(v) ==
    \E s \in Slugs, t \in Slugs :
        /\ Comes(v, IF OrgByHistory(s) = {} THEN [at |-> "org_live", org |-> s, slug |-> t]
                    ELSE [at |-> "repo_live", org |-> s, slug |-> t,
                          id |-> CHOOSE o \in OrgByHistory(s) : TRUE])
        /\ UNCHANGED <<Names, Wires>>

ResolveOrg(v) ==
    \E s \in Slugs, t \in Slugs :
        /\ Comes(v, IF OrgIdBySlug(s) = {} THEN [at |-> "org_history", org |-> s, slug |-> t]
                    ELSE [at |-> "repo_live", org |-> s, slug |-> t,
                          id |-> CHOOSE o \in OrgIdBySlug(s) : TRUE])
        /\ UNCHANGED <<Names, Wires>>

Answer(v, found) ==
    Onward(v, [at |-> "answered", org |-> visit[v].org, slug |-> visit[v].slug, found |-> found])

ResolveOrgByHistory(v) ==
    /\ visit[v].at \in {"org_history", "org_live"}
    /\ LET w == visit[v]
           found == IF w.at = "org_history" THEN OrgByHistory(w.org) ELSE OrgIdBySlug(w.org)
       IN  IF found = {} THEN Answer(v, {})
           ELSE Onward(v, [at |-> "repo_live", org |-> w.org, slug |-> w.slug,
                           id |-> CHOOSE o \in found : TRUE])
    /\ UNCHANGED <<Names, Wires>>

ResolveLiveRepo(v) ==
    /\ visit[v].at = "repo_live"
    /\ LET w == visit[v] IN
        IF LiveRepo(w.id, w.slug) # {} THEN Answer(v, LiveRepo(w.id, w.slug))
        ELSE Onward(v, [w EXCEPT !.at = "repo_history"])
    /\ UNCHANGED <<Names, Wires>>

ResolveRepoByHistory(v) ==
    /\ visit[v].at = "repo_history"
    /\ Answer(v, RepoByHistory(visit[v].id, visit[v].slug))
    /\ UNCHANGED <<Names, Wires>>

(* A request whose Host is a custom domain asks for no path.                *)
ByHost(v) ==
    \E h \in Hosts :
        /\ Comes(v, [at |-> "hosted", found |-> RepoByCustomDomain(h)])
        /\ UNCHANGED <<Names, Wires>>

(* Served or redirected, or 404.                                            *)
Respond(v) ==
    /\ visit[v].at \in {"answered", "hosted"}
    /\ Left(v)
    /\ UNCHANGED <<Names, Wires>>

-----------------------------------------------------------------------------
(* The manifest of a git remote, kept by commands.                          *)

(* Registering again hands the row over with all that hangs on it.          *)
SetOrgRemote(v) ==
    \E s \in Slugs, m \in Remotes : \E o \in OrgIdBySlug(s) :
        /\ Comes(v, Absent)
        /\ remote' = [remote EXCEPT ![m].org = o]
        /\ handed' = IF remote[m].org \notin {Nothing, o} THEN handed \union {m} ELSE handed
        /\ UNCHANGED Names

OrgForRemote(m) == remote[m].org

Gathering == {"parts", "sources", "recipes"}

(* Sources and recipes go with the row.                                     *)
DeleteOrgRemote(v) ==
    \E m \in Remotes :
        /\ Comes(v, Absent)
        /\ remote' = [remote EXCEPT ![m] = NoRemote]
        /\ handed' = IF \E w \in Visits : visit[w].at \in Gathering THEN handed \union {m}
                     ELSE handed
        /\ UNCHANGED Names

(* The repository is looked up, in any organisation, before it is set.      *)
SetRemoteSnapshot(v) ==
    /\ visit[v].at = "repo"
    /\ \E m \in {x \in Remotes : remote[x].org # Nothing} :
        /\ visit[v].repo \in ListRepositories
        /\ remote' = [remote EXCEPT ![m].snapshot = visit[v].repo, ![m].by = remote[m].org]
    /\ Left(v)
    /\ UNCHANGED <<Names, handed>>

ClearRemoteSnapshot(v) ==
    \E m \in Remotes :
        /\ Comes(v, Absent)
        /\ remote' = [remote EXCEPT ![m].snapshot = Nothing, ![m].by = Nothing]
        /\ UNCHANGED <<Names, handed>>

SetRemoteSource(v) ==
    \E m \in {x \in Remotes : remote[x].org # Nothing} :
        /\ Comes(v, Absent)
        /\ remote' = [remote EXCEPT ![m].sources = @ \union {remote[m].org}]
        /\ UNCHANGED <<Names, handed>>

ClearRemoteSource(v) ==
    \E m \in Remotes : \E o \in remote[m].sources :
        /\ Comes(v, Absent)
        /\ remote' = [remote EXCEPT ![m].sources = @ \ {o}]
        /\ UNCHANGED <<Names, handed>>

SetRemoteRecipe(v) ==
    \E m \in {x \in Remotes : remote[x].org # Nothing} :
        /\ Comes(v, Absent)
        /\ remote' = [remote EXCEPT ![m].recipes = @ \union {remote[m].org}]
        /\ UNCHANGED <<Names, handed>>

ClearRemoteRecipe(v) ==
    \E m \in Remotes : \E o \in remote[m].recipes :
        /\ Comes(v, Absent)
        /\ remote' = [remote EXCEPT ![m].recipes = @ \ {o}]
        /\ UNCHANGED <<Names, handed>>

(* The token's organisation must own the remote ...                         *)
GetManifest(v) ==
    \E m \in Remotes, o \in ListOrganizations :
        /\ OrgForRemote(m) = o
        /\ Comes(v, [at |-> "parts", org |-> o, remote |-> m, got |-> {}])
        /\ UNCHANGED <<Names, Wires>>

SnapshotForRemote(m) == IF remote[m].snapshot = Nothing THEN {} ELSE {remote[m].by}
SourcesForRemote(m)  == remote[m].sources
RecipesForRemote(m)  == remote[m].recipes

(* ... and the parts are then read by the remote alone, one by one.         *)
Part(v, next, found) ==
    /\ LET w == visit[v] IN
        Onward(v, [at |-> next, org |-> w.org, remote |-> w.remote, got |-> w.got \union found])
    /\ UNCHANGED <<Names, Wires>>

ManifestParts(v) ==
    LET m == visit[v].remote IN
    \/ visit[v].at = "parts"   /\ Part(v, "sources", SnapshotForRemote(m))
    \/ visit[v].at = "sources" /\ Part(v, "recipes", SourcesForRemote(m))
    \/ visit[v].at = "recipes" /\ Part(v, "manifest", RecipesForRemote(m))

SendManifest(v) ==
    /\ visit[v].at = "manifest"
    /\ Left(v)
    /\ UNCHANGED <<Names, Wires>>

-----------------------------------------------------------------------------
(* The commands and forms, and the requests of clients, step by step.       *)
OrgCreate(v)        == CreateOrgCheck(v) \/ OrgCreateCheck(v) \/ CreateOrg(v)
RepoCreate(v)       == CreateRepoCheck(v) \/ RepoCreateCheck(v) \/ CreateRepo(v)
RenameOrgAction(v)  == LookupOrg(v) \/ RenameOrgRead(v) \/ RenameOrgCheck(v) \/ RenameOrg(v)
RenameRepoAction(v) == RenameRepoRead(v) \/ RenameRepoCheck(v) \/ RenameRepo(v)
DeleteRepoAction(v) == DeleteRepoCheck(v) \/ DeleteRepo(v)

Naming(v) ==
    \/ OrgCreate(v) \/ RepoCreate(v) \/ RenameOrgAction(v)
    \/ Lookup(v) \/ RenameRepoAction(v) \/ DeleteRepoAction(v) \/ SetCustomDomain(v)

ResolveRepoCanonical(v) ==
    \/ ResolveOrg(v) \/ ResolveOrgByHistory(v) \/ ResolveLiveRepo(v) \/ ResolveRepoByHistory(v)

RemoteSnapshot(v) == SetRemoteSnapshot(v) \/ ClearRemoteSnapshot(v)
RemoteSource(v)   == SetRemoteSource(v) \/ ClearRemoteSource(v)
RemoteRecipe(v)   == SetRemoteRecipe(v) \/ ClearRemoteRecipe(v)

Manifesting(v) ==
    \/ SetOrgRemote(v) \/ DeleteOrgRemote(v)
    \/ RemoteSnapshot(v) \/ RemoteSource(v) \/ RemoteRecipe(v)
    \/ GetManifest(v) \/ ManifestParts(v) \/ SendManifest(v)

Asking == {"org_history", "org_live", "repo_live", "repo_history"}

(* What the paths being looked up lead to is written down as it changes.    *)
Watch ==
    seen' = [v \in Visits |->
                IF visit'[v].at \notin Asking \union {"answered"} THEN {}
                ELSE IF visit[v].at \notin Asking \union {"answered"}
                     THEN {Canonical(visit'[v].org, visit'[v].slug)}
                ELSE IF visit[v].at = "answered" THEN seen[v]
                ELSE seen[v] \union {Canonical(visit[v].org, visit[v].slug),
                                     Canonical(visit[v].org, visit[v].slug)'}]

TenancyNext == \E v \in Visits :
    /\ Naming(v) \/ ResolveRepoCanonical(v) \/ ByHost(v) \/ Respond(v) \/ Manifesting(v)
    /\ Watch

-----------------------------------------------------------------------------
(* Names are one entity's, as the unique indexes have it, and what history  *)
(* and manifests point at is or was there.                                  *)
TenancyTypes ==
    /\ org \in [Orgs -> Slugs \union {Nothing}]
    /\ repo \in [Repos -> {NoRepo} \union [org : Orgs, slug : Slugs, host : Hosts \union {Nothing}]]
    /\ history \subseteq [scope : Orgs \union {Nothing}, slug : Slugs, id : Orgs \union Repos]
    /\ \A s \in Slugs : Cardinality(OrgIdBySlug(s)) =< 1
    /\ \A o \in Orgs, s \in Slugs : Cardinality(LiveRepo(o, s)) =< 1
    /\ \A h \in Hosts : Cardinality(RepoByCustomDomain(h)) =< 1
    /\ \A h \in history : history \ {h} \subseteq {x \in history : <<x.scope, x.slug>> # <<h.scope, h.slug>>}
    /\ \A m \in Remotes : /\ remote[m].org \in Orgs \union {Nothing}
                          /\ remote[m].snapshot \in ListRepositories \union {Nothing}
                          /\ remote[m].sources \union remote[m].recipes \subseteq Orgs

(* Names that came to another organisation or repository.                   *)
Retaken == raced \union spaced

(* Whatever was once reached under a name is still reached under it, after  *)
(* any number of renames, or nothing is once it is deleted: never another   *)
(* organisation or repository (0027_slug_history.sql, delete_repo).  Two    *)
(* things alone can make it lead elsewhere.  In raced: the name was no      *)
(* history when somebody about to take it asked, if anybody did, and was    *)
(* when they took it: retired in between, or it is a repository's and the   *)
(* organisation found by its name at the end was another than at the check, *)
(* or was found only then (repo_create asks nothing of one it does not      *)
(* find).  In spaced: it has space around it and a form took it, having     *)
(* asked about it without (create_org and create_repo of ui.rs).            *)
OldNamesFollow ==
    \A h \in held :
        \/ <<h.scope, h.slug>> \in Retaken
        \/ h.scope = Nothing /\ OrgOf(h.slug) = {h.id}
        \/ h.scope # Nothing /\ RepoOf(h.scope, h.slug) = {h.id} \intersect ListRepositories

(* A retired slug is never re-assignable to a different organisation or     *)
(* repository (0027_slug_history.sql), while nobody's check is overtaken.   *)
NeverReassigned ==
    \A h \in history :
        \/ <<h.scope, h.slug>> \in raced
        \/ h.scope = Nothing /\ OrgIdBySlug(h.slug) \subseteq {h.id}
        \/ h.scope # Nothing /\ LiveRepo(h.scope, h.slug) \subseteq {h.id}

(* The answer to a path was right at some moment while it was looked up:    *)
(* a rename under way never turns a request for a repository that has a     *)
(* name throughout into a 404 (resolve_repo_canonical asks for live names   *)
(* before history).  Names that came to another are left out.               *)
AnswerWasRight ==
    \A v \in Visits :
        visit[v].at = "answered" =>
            \/ visit[v].found \in seen[v]
            \/ \E x \in Retaken : x[2] \in {visit[v].org, visit[v].slug}

(* What a manifest gives an organisation it, and nobody else, put there,    *)
(* unless the remote changed hands (get_manifest, set_org_remote).          *)
ManifestIsOwn ==
    \A v \in Visits :
        visit[v].at = "manifest" =>
            visit[v].got \subseteq {visit[v].org} \/ visit[v].remote \in handed

(* What a request is told of a slug, and of a remote, is right.             *)
AnswersAreRight == AnswerWasRight /\ ManifestIsOwn

TenancySpec == TenancyInit /\ [][TenancyNext]_tenancy
=============================================================================
