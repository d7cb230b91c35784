------------------------------ MODULE Serving ------------------------------
(***************************************************************************)
(* One request of a Composer read route, from its arrival to its answer,   *)
(* against the catalog it reads in several awaits: the credential, what it  *)
(* unlocks, the repository's policy, the grant's policy and at last the     *)
(* versions (sconce-server lib.rs, index.rs).  In between the operators go  *)
(* on changing policies, grants, visibilities and versions.                 *)
(*                                                                          *)
(* Home is the repository asked; other repositories own rows that reach it  *)
(* by grant, by a grant rule or as members.  A row is a package of one      *)
(* repository with one version; two rows may share a name.                  *)
(***************************************************************************)
EXTENDS Naturals, FiniteSets, Sequences

CONSTANTS Row, Name, Repo, Home,
          NameOf, RepoOf,  \* row -> name, row -> owning repository
          DistOf,          \* row -> blob of its version's dist
          PathOf,          \* row -> the path its upstream served the dist at
          RowId,           \* row -> its version's id, a uuid: some order
          Rank, Major,     \* row -> its version's date and major, which license bounds cap
          Undated,         \* the rows whose version has no release date
          SetRows,         \* the rows a grant rule's package set resolves to
          StartCatalogs,   \* the catalogs a request may find on its arrival
          BoundChoice,     \* the bounds they set on a license
          PolicyChoice,    \* the policies operators set on the repository
          OverrideChoice,  \* the overrides they set on credentials and grants
          Requests,        \* the requests: <<kind, who, name, row>>
          HasAgency,       \* the organisation has the agency feature (Editions)
          MaxCool,         \* bound: longest cooldown, and oldest age told apart
          MaxChanges       \* bound: changes made while the request is served

Mode == {"auto", "delayed", "manual"}
Policy == [mode : Mode, cool : 0..MaxCool]
Override == [mode : Mode \cup {"none"}, cool : 0..MaxCool]
NoOverride == [mode |-> "none", cool |-> 0]
Who == {"nobody", "token", "license"}
Kind == {"root", "index", "p2", "dist", "path"}

Version == [live : BOOLEAN, held : BOOLEAN, yanked : BOOLEAN, approved : BOOLEAN, age : 0..MaxCool]
Grant == [given : BOOLEAN, over : Override]
HomeRow == [policy : Policy, anonymous : BOOLEAN, private : BOOLEAN, rule : BOOLEAN,
            members : Seq(Repo \ {Home})]
TokenRow == [live : BOOLEAN, over : Override]
\* A license's bound on a name: the latest date and the highest major allowed,
\* each if there is one; nothing is entitled until no date.
Unbounded == 3
LicenseBound == [until : 0..Unbounded, major : 0..Unbounded]
NoBound == [until |-> Unbounded, major |-> Unbounded]
NotEntitled == [until |-> 0, major |-> Unbounded]
LicenseRow == [live : BOOLEAN, over : Override, bound : [Name -> LicenseBound]]
Catalog == [ver : [Row -> Version], public : [Row -> BOOLEAN], grants : [Row -> Grant],
            home : HomeRow, token : TokenRow, license : LicenseRow]

ASSUME ServingAssumption ==
  /\ Home \in Repo
  /\ NameOf \in [Row -> Name] /\ RepoOf \in [Row -> Repo]
  /\ RowId \in [Row -> Nat] /\ Rank \in [Row -> Nat] /\ Major \in [Row -> Nat]
  /\ \A r, s \in Row : RowId[r] = RowId[s] => r = s
  /\ Undated \subseteq Row /\ SetRows \subseteq Row
  /\ StartCatalogs \subseteq Catalog
  /\ BoundChoice \subseteq LicenseBound /\ PolicyChoice \subseteq Policy /\ OverrideChoice \subseteq Override
  /\ Requests \subseteq Kind \X Who \X Name \X Row
  /\ HasAgency \in BOOLEAN /\ MaxCool \in Nat /\ MaxChanges \in Nat

VARIABLES ver,     \* row -> its version's flags and age
          public,  \* row -> declared or derived public
          grants,  \* row -> the grant into Home: none, or its override
          home,    \* Home's policy, settings, rule subscription and members
          token,   \* the repository's read token: live, override
          license, \* a license key: live, override, bound per name
          req,     \* the request being answered
          seen     \* ghost: what an answer given in one instant would have been
servingVars == <<ver, public, grants, home, token, license, req, seen>>
world == <<ver, public, grants, home, token, license>>

NoGrant == [given |-> FALSE, over |-> NoOverride]

ServingTypes ==
  /\ ver \in [Row -> Version] /\ public \in [Row -> BOOLEAN] /\ grants \in [Row -> Grant]
  /\ home \in HomeRow /\ token \in TokenRow /\ license \in LicenseRow
  /\ req.kind \in Kind /\ req.who \in Who /\ req.name \in Name
  /\ req.policy \in Policy /\ req.over \in Override
  /\ seen.changes \in 0..MaxChanges

\* ------------------------------------------------------------------------
\* What Home serves.

Own(r) == RepoOf[r] = Home

GrantRuleExists(r) == home.rule /\ r \in SetRows

MemberExists(r) ==
  \E i \in DOMAIN home.members :
    /\ home.members[i] = RepoOf[r]
    /\ \A j \in 1..(i - 1) :
         ~\E s \in Row : RepoOf[s] = home.members[j] /\ NameOf[s] = NameOf[r]

OwnOrMember(r) == Own(r) \/ MemberExists(r)

Reaches(r) == OwnOrMember(r) \/ grants[r].given \/ GrantRuleExists(r)

ServedScope(r) == Reaches(r) /\ (home.private \/ public[r])

AllPackageNames == {NameOf[r] : r \in {x \in Row : ServedScope(x)}}

AnonymousPackageNames ==
  {n \in {NameOf[r] : r \in {x \in Row : Reaches(x)}} :
     \A r \in Row : NameOf[r] = n /\ Reaches(r) => public[r]}

PolicyGate(r, p) ==
  /\ ver[r].live /\ ~ver[r].yanked /\ ~ver[r].held
  /\ \/ p.mode = "auto"
     \/ ver[r].approved
     \/ p.mode = "delayed" /\ r \notin Undated /\ ver[r].age >= p.cool

\* A major alone needs no date.
InBound(r, b) ==
  /\ b.until # Unbounded => r \notin Undated /\ Rank[r] <= b.until
  /\ b.major # Unbounded => Major[r] <= b.major

VisibleVersions(n, p, b) ==
  {r \in Row : NameOf[r] = n /\ ServedScope(r) /\ PolicyGate(r, p) /\ InBound(r, b)}

ServedVersionSummaries(p) == {r \in Row : ServedScope(r) /\ PolicyGate(r, p)}

RepoServesDist(n, blob) ==
  {r \in Row : /\ NameOf[r] = n /\ DistOf[r] = blob
               /\ ver[r].live /\ ~ver[r].yanked /\ ServedScope(r)}

\* The version of the least id recorded under an upstream path: own or member rows only.
DistByUpstreamPath(path) ==
  LET found == {r \in Row : /\ OwnOrMember(r)
                            /\ PathOf[r] = path
                            /\ home.private \/ public[r]
                            /\ ver[r].live /\ ~ver[r].yanked}
  IN {r \in found : \A s \in found : RowId[r] <= RowId[s]}

\* A credential's override tightens a policy and never loosens it.
Strictness == [auto |-> 0, delayed |-> 1, manual |-> 2]

\* Mutant: an override replaces the policy.
Effective_Loosens(over, p) ==
  [mode |-> IF over.mode # "none" THEN over.mode ELSE p.mode, cool |-> over.cool]

Effective(over, p) ==
  LET wanted == IF over.mode # "none" THEN over.mode
                ELSE IF over.cool > 0 THEN "delayed" ELSE p.mode
  IN [mode |-> IF Strictness[wanted] > Strictness[p.mode] THEN wanted ELSE p.mode,
      cool |-> IF over.cool > p.cool THEN over.cool ELSE p.cool]

\* The override of a grant under the name; with several, any of them (limit 1).
GrantPolicy(n) ==
  LET named == {r \in Row : NameOf[r] = n /\ grants[r].given}
  IN IF named = {} THEN {NoOverride} ELSE {grants[r].over : r \in named}

\* ------------------------------------------------------------------------
\* The answer a request of this shape would get in one instant, stated from
\* what the docs promise: every policy in force has to let the version through.

Unlocks(who, n) ==
  CASE who = "nobody"  -> /\ home.anonymous
                          /\ \E r \in Row : NameOf[r] = n /\ Reaches(r)
                          /\ \A r \in Row : NameOf[r] = n /\ Reaches(r) => public[r]
    [] who = "token"   -> token.live
    [] who = "license" -> license.live /\ license.bound[n] # NotEntitled

CredentialOverride(who) == CASE who = "nobody"  -> NoOverride
                             [] who = "token"   -> token.over
                             [] who = "license" -> license.over

Clears(r, overs) ==
  LET modes == {home.policy.mode} \cup {o.mode : o \in overs}
      cools == {home.policy.cool} \cup {o.cool : o \in overs}
      timed == "delayed" \in modes \/ \E o \in overs : o.mode = "none" /\ o.cool > 0
  IN \/ ver[r].approved
     \/ /\ "manual" \notin modes
        /\ timed => r \notin Undated /\ \A c \in cools : ver[r].age >= c

InIndex(r) == ver[r].live /\ ~ver[r].yanked /\ ~ver[r].held /\ ServedScope(r)
Fetchable(r) == ver[r].live /\ ~ver[r].yanked /\ ServedScope(r)

Moment ==
  LET who == req.who
      n == req.name
  IN CASE req.kind = "root" ->
            {r \in Row : /\ Unlocks(who, NameOf[r])
                         /\ who = "token" => \E s \in Row : NameOf[s] = NameOf[r] /\ ServedScope(s)}
       [] req.kind = "index" ->
            {r \in Row : /\ InIndex(r) /\ Unlocks(who, NameOf[r])
                         /\ Clears(r, {CredentialOverride(who)})}
       [] req.kind = "p2" ->
            {r \in Row : /\ NameOf[r] = n /\ InIndex(r) /\ Unlocks(who, n)
                         /\ \E g \in GrantPolicy(n) : Clears(r, {CredentialOverride(who), g})
                         /\ who = "license" => InBound(r, license.bound[n])}
       [] req.kind = "dist" ->
            {r \in Row : /\ NameOf[r] = n /\ DistOf[r] = DistOf[req.row]
                         /\ Fetchable(r) /\ Unlocks(who, n)}
       [] req.kind = "path" ->
            {r \in Row : /\ PathOf[r] = PathOf[req.row] /\ OwnOrMember(r)
                         /\ Fetchable(r) /\ Unlocks(who, NameOf[r])
                         /\ ~\E s \in Row : /\ PathOf[s] = PathOf[r] /\ RowId[s] < RowId[r]
                                            /\ OwnOrMember(s) /\ Fetchable(s)}

\* Of several grants under a name the policy of any is read: what is answered
\* whichever it is.
Certain ==
  IF req.kind = "p2"
  THEN {r \in Moment : \A g \in GrantPolicy(req.name) : Clears(r, {CredentialOverride(req.who), g})}
  ELSE Moment

\* ------------------------------------------------------------------------
\* The request's steps.

Step(from, to) == req.at = from /\ req' = [req EXCEPT !.at = to] /\ UNCHANGED <<world, seen>>
Answer(from, rows) ==
  /\ req.at = from
  /\ req' = [req EXCEPT !.at = "done", !.got = rows]
  /\ UNCHANGED <<world, seen>>

\* Where each route goes once the access is known.
AfterAuthorize == CASE req.kind \in {"p2", "dist"} -> "allows"
                    [] req.kind = "path" -> "find"
                    [] OTHER -> "names"

\* serve_index asks repo_settings before it decides whether to authorize.
IndexSettings ==
  /\ req.kind = "index"
  /\ IF req.who = "nobody" /\ ~home.anonymous
     THEN Answer("arrived", {})
     ELSE Step("arrived", "authorize")

\* Every other route: a request is located (Tenancy), then authorized; on a
\* custom domain by_host has located it.
Route(kind) == req.kind = kind /\ Step("arrived", "authorize")
PackagesJson == Route("root")
P2 == Route("p2")
Dist == Route("dist")
UpstreamDist == Route("path")
DomainRoute == PackagesJson \/ P2 \/ Dist \/ UpstreamDist

Admit(access, over, bounds, to) ==
  /\ req' = [req EXCEPT !.at = to, !.access = access, !.over = over, !.bounds = bounds]
  /\ UNCHANGED <<world, seen>>

AuthorizeAnonymous ==
  /\ req.at = "authorize" /\ req.who = "nobody"
  /\ IF home.anonymous
     THEN Admit("anonymous", NoOverride, req.bounds, AfterAuthorize)
     ELSE Answer("authorize", {})

\* resolve_token_policy comes first, whatever the credential is.
ResolveTokenPolicy ==
  /\ req.at = "authorize" /\ req.who # "nobody"
  /\ IF req.who = "token" /\ token.live
     THEN Admit("full", token.over, req.bounds, AfterAuthorize)
     ELSE Step("authorize", "license")

ResolveLicense ==
  IF req.who = "license" /\ license.live
  THEN Step("license", "entitled")
  ELSE Answer("license", {})

EntitledPackageBounds ==
  /\ req.at = "entitled"
  /\ Admit("licensed", req.over, license.bound, "license policy")

LicensePolicy ==
  /\ req.at = "license policy"
  /\ Admit("licensed", license.over, req.bounds, AfterAuthorize)

\* Access::allows: the names a licence carries, and for nobody a query.
Allows(n) == CASE req.access = "full"      -> TRUE
               [] req.access = "licensed"  -> req.bounds[n] # NotEntitled
               [] req.access = "anonymous" -> n \in AnonymousPackageNames

BoundFor(n) == IF req.access = "licensed" THEN req.bounds[n] ELSE NoBound

CheckAllowed ==
  /\ req.at = "allows"
  /\ IF ~Allows(req.name) THEN Answer("allows", {})
     ELSE Step("allows", IF req.kind = "p2" THEN "repo policy"
                         ELSE IF req.kind = "dist" THEN "serves" ELSE "send")

\* serve_upstream_path finds the row before it asks whether it is allowed.
FindUpstreamPath ==
  /\ req.at = "find"
  /\ LET found == DistByUpstreamPath(PathOf[req.row])
     IN IF found = {} THEN Answer("find", {})
        ELSE \E r \in found :
               /\ req' = [req EXCEPT !.at = "allows", !.name = NameOf[r], !.row = r]
               /\ UNCHANGED <<world, seen>>

\* The names a root document or an index may show.
ReadableNames == CASE req.access = "full"      -> AllPackageNames
                   [] req.access = "licensed"  -> {n \in Name : req.bounds[n] # NotEntitled}
                   [] req.access = "anonymous" -> AnonymousPackageNames

ServeRoot ==
  /\ req.kind = "root"
  /\ Answer("names", {r \in Row : NameOf[r] \in ReadableNames})

IndexNames ==
  /\ req.kind = "index" /\ req.at = "names"
  /\ req' = [req EXCEPT !.at = "repo policy", !.names = ReadableNames]
  /\ UNCHANGED <<world, seen>>

\* update_policy, folded with the credential's override.
ReadUpdatePolicy ==
  /\ req.at = "repo policy"
  /\ req' = [req EXCEPT !.at = IF req.kind = "p2" THEN "grant policy" ELSE "summaries",
                        !.policy = Effective(req.over, home.policy)]
  /\ UNCHANGED <<world, seen>>

ReadGrantPolicy ==
  /\ req.at = "grant policy"
  /\ \E g \in GrantPolicy(req.name) :
       req' = [req EXCEPT !.at = "versions", !.policy = Effective(g, req.policy)]
  /\ UNCHANGED <<world, seen>>

ServeP2 == Answer("versions", VisibleVersions(req.name, req.policy, BoundFor(req.name)))

ServeIndex ==
  Answer("summaries", {r \in ServedVersionSummaries(req.policy) : NameOf[r] \in req.names})

\* repo_serves_dist, and the blob is what the sha named.
ServeDist == Answer("serves", RepoServesDist(req.name, DistOf[req.row]))

\* serve_blob of the row an upstream path named.
ServeUpstreamPath == Answer("send", {req.row})

Serve ==
  \/ PackagesJson \/ P2 \/ Dist \/ UpstreamDist \/ DomainRoute
  \/ IndexSettings
  \/ AuthorizeAnonymous \/ ResolveTokenPolicy
  \/ ResolveLicense \/ EntitledPackageBounds \/ LicensePolicy
  \/ CheckAllowed \/ FindUpstreamPath
  \/ ServeRoot \/ IndexNames
  \/ ReadUpdatePolicy \/ ReadGrantPolicy
  \/ ServeP2 \/ ServeIndex \/ ServeDist \/ ServeUpstreamPath

\* ------------------------------------------------------------------------
\* What operators and publishers change meanwhile.

\* For nobody one change can alter both of what is read apart.  A row joins a
\* name that was let through; or a path leads to another row and a name is let
\* through that was not.
Crosses ==
  /\ req.who = "nobody"
  /\ \/ req.kind # "path" /\ \E r \in Row : ~Reaches(r) /\ Reaches(r)'
     \/ /\ req.kind = "path"
        /\ DistByUpstreamPath(PathOf[req.row])' # DistByUpstreamPath(PathOf[req.row])
        /\ ~(AnonymousPackageNames' \subseteq AnonymousPackageNames)

\* early: the change touches something a request reads before the versions.
Change(early) ==
  /\ req.at # "done" /\ seen.changes < MaxChanges
  /\ UNCHANGED req
  /\ seen' = [could |-> seen.could \cup Moment',
              always |-> seen.always \cap Certain',
              changes |-> seen.changes + 1,
              early |-> seen.early \/ early,
              crossed |-> seen.crossed \/ Crosses]

SetHome(field, value) ==
  /\ home' = [home EXCEPT ![field] = value]
  /\ UNCHANGED <<ver, public, grants, token, license>>
  /\ Change(TRUE)

SetUpdatePolicy(p) == p # home.policy /\ SetHome("policy", p)

\* update_repo_settings, field by field (Packages has its read and write).
SetAnonymous == SetHome("anonymous", ~home.anonymous)
SetAllowPrivate == SetHome("private", ~home.private)

ListGrantRules == {home.rule} \ {FALSE}
AddGrantRule == HasAgency /\ ~home.rule /\ SetHome("rule", TRUE)
RemoveGrantRule == ListGrantRules # {} /\ SetHome("rule", FALSE)

\* attach and detach (Members has their guards).
AttachMember(m) ==
  /\ \A i \in DOMAIN home.members : home.members[i] # m
  /\ SetHome("members", Append(home.members, m))
DetachMember == home.members # <<>> /\ SetHome("members", Tail(home.members))

SetGrant(rows, value) ==
  /\ grants' = [r \in Row |-> IF r \in rows THEN value ELSE grants[r]]
  /\ UNCHANGED <<ver, public, home, token, license>>
  /\ Change(TRUE)

ListGrants == {r \in Row : grants[r].given}

\* insert ... on conflict do nothing: a grant made again keeps its policy.
GrantPackage(r) == ~Own(r) /\ r \notin ListGrants /\ SetGrant({r}, [given |-> TRUE, over |-> NoOverride])

SetGrantPolicy(n, o) ==
  LET named == {r \in ListGrants : NameOf[r] = n}
  IN named # {} /\ SetGrant(named, [given |-> TRUE, over |-> o])

\* Private needs a repository that allows it (others' rows: any that do).
SetVisibility(r) ==
  /\ public[r] /\ Own(r) => home.private
  /\ public' = [public EXCEPT ![r] = ~@]
  /\ UNCHANGED <<ver, grants, home, token, license>>
  /\ Change(TRUE)

SetToken(t) ==
  /\ token' = t
  /\ UNCHANGED <<ver, public, grants, home, license>>
  /\ Change(TRUE)
SetTokenPolicy(o) == token.live /\ SetToken([token EXCEPT !.over = o])
RevokeToken == token.live /\ SetToken([token EXCEPT !.live = FALSE])

SetLicense(l) ==
  /\ license' = l
  /\ UNCHANGED <<ver, public, grants, home, token>>
  /\ Change(TRUE)
SetLicensePolicy(o) == license.live /\ SetLicense([license EXCEPT !.over = o])
RevokeLicense == license.live /\ SetLicense([license EXCEPT !.live = FALSE])
SetBound(n, b) == license.bound[n] # b /\ SetLicense([license EXCEPT !.bound[n] = b])

SetVersions(v) ==
  /\ ver' = v
  /\ UNCHANGED <<public, grants, home, token, license>>
  /\ Change(FALSE)

\* set_version_timestamp: one flag of one version, whatever the others say.
SetVersionTimestamp(r, flag, value) ==
  /\ ver[r].live
  /\ ver[r][flag] # value
  /\ SetVersions([ver EXCEPT ![r][flag] = value])

HoldVersion(r) == SetVersionTimestamp(r, "held", TRUE)
UnholdVersion(r) == SetVersionTimestamp(r, "held", FALSE)
YankVersion(r) == SetVersionTimestamp(r, "yanked", TRUE)
UnyankVersion(r) == SetVersionTimestamp(r, "yanked", FALSE)
ApproveVersion(r) == SetVersionTimestamp(r, "approved", TRUE)

\* What Home's pages list: its own versions in a state, by package; "pending"
\* is gated by the repository's policy.
AdminPackageVersions(state) ==
  {r \in Row : /\ Own(r) /\ ver[r].live
               /\ CASE state = "held" -> ver[r].held
                    [] state = "yanked" -> ver[r].yanked
                    [] state = "approved" -> ver[r].approved
                    [] state = "pending" ->
                         /\ ~ver[r].held /\ ~ver[r].yanked /\ ~ver[r].approved
                         /\ \/ home.policy.mode = "manual"
                            \/ /\ home.policy.mode = "delayed"
                               /\ r \in Undated \/ ver[r].age < home.policy.cool}
CountPackageVersions(state) == Cardinality(AdminPackageVersions(state))
AdminPackageGroups(state) ==
  [n \in {NameOf[r] : r \in AdminPackageVersions(state)} |->
     {r \in AdminPackageVersions(state) : NameOf[r] = n}]
CountPackages(state) == Cardinality(DOMAIN AdminPackageGroups(state))

\* Everything undecided of an owner, whatever the policy says of it.
Undecided(o, ns) ==
  {r \in Row : /\ RepoOf[r] = o /\ NameOf[r] \in ns
               /\ ver[r].live /\ ~ver[r].held /\ ~ver[r].yanked /\ ~ver[r].approved}

ApproveAllPending(o, ns) ==
  /\ Undecided(o, ns) # {}
  /\ SetVersions([r \in Row |-> IF r \in Undecided(o, ns) THEN [ver[r] EXCEPT !.approved = TRUE]
                                ELSE ver[r]])

\* A publish or a sync adds the row's version (Publish, Mirror).
AddVersion(r) == ~ver[r].live /\ SetVersions([ver EXCEPT ![r].live = TRUE])

\* A day passes.
Tick ==
  /\ \E r \in Row : ver[r].age < MaxCool
  /\ SetVersions([r \in Row |-> [ver[r] EXCEPT !.age = IF @ < MaxCool THEN @ + 1 ELSE @]])

VersionAction(r) == HoldVersion(r) \/ UnholdVersion(r) \/ YankVersion(r) \/ UnyankVersion(r)
                    \/ ApproveVersion(r)

\* The approvals tab: each version ticked on the page, one call after another,
\* or all that is pending.
ApproveBulk ==
  \/ CountPackages("pending") > 0
     /\ \E n \in DOMAIN AdminPackageGroups("pending") :
          \E r \in AdminPackageGroups("pending")[n] : ApproveVersion(r)
  \/ \E o \in Repo, ns \in {Name} \cup {{n} : n \in Name} : ApproveAllPending(o, ns)
HoldBulk == CountPackageVersions("pending") > 0
            /\ \E r \in AdminPackageVersions("pending") : HoldVersion(r)

\* The command line: no yank, and a grant without being a member of its source.
CliVersionAction(r) == HoldVersion(r) \/ UnholdVersion(r) \/ ApproveVersion(r)
PolicySet == \E p \in PolicyChoice : SetUpdatePolicy(p)
CliGrant == \E r \in Row : GrantPackage(r)
TokenPolicy == \E o \in OverrideChoice : SetTokenPolicy(o)

\* The forms of the repository page.  A grant is made by the source's own rows,
\* and a policy of a grant or a license is typed whole, never one field of it.
AddAutogrant == AddGrantRule
RemoveAutogrant == RemoveGrantRule
CreateGrant(from) == \E r \in Row : RepoOf[r] = from /\ GrantPackage(r)
SetGrantPolicyAction(n) == \E o \in OverrideChoice : SetGrantPolicy(n, o)
LicensePolicyForm == \E o \in OverrideChoice : SetLicensePolicy(o)

Operate ==
  \/ SetAnonymous \/ SetAllowPrivate
  \/ AddAutogrant \/ RemoveAutogrant
  \/ \E m \in Repo \ {Home} : AttachMember(m)
  \/ DetachMember
  \/ \E o \in Repo \ {Home} : CreateGrant(o)
  \/ \E n \in Name : SetGrantPolicyAction(n)
  \/ \E r \in Row : SetVisibility(r)
  \/ TokenPolicy \/ RevokeToken
  \/ LicensePolicyForm
  \/ RevokeLicense
  \/ \E n \in Name, b \in {NotEntitled, NoBound} \cup BoundChoice : SetBound(n, b)
  \/ \E r \in Row : VersionAction(r)
  \/ ApproveBulk \/ HoldBulk
  \/ \E r \in Row : CliVersionAction(r)
  \/ PolicySet \/ CliGrant
  \/ \E r \in Row : AddVersion(r)
  \/ Tick

\* ------------------------------------------------------------------------

\* A request has just arrived.
ServingInit ==
  /\ \E c \in StartCatalogs : /\ ver = c.ver /\ public = c.public /\ grants = c.grants
                              /\ home = c.home /\ token = c.token /\ license = c.license
  /\ \E q \in Requests :
       req = [at |-> "arrived", kind |-> q[1], who |-> q[2], name |-> q[3], row |-> q[4],
              access |-> "none", over |-> NoOverride, bounds |-> [n \in Name |-> NotEntitled],
              policy |-> [mode |-> "auto", cool |-> 0], names |-> {}, got |-> {}]
  /\ seen = [could |-> Moment, always |-> Certain, changes |-> 0, early |-> FALSE, crossed |-> FALSE]

ServingNext == Serve \/ Operate

\* ------------------------------------------------------------------------
\* Two changes, one of them to something read before the versions, can make a
\* request mix two moments, and for nobody one that crosses (Access::allows, then
\* visible_versions; dist_by_upstream_path, then Access::allows).
Skewed ==
  /\ seen.early
  /\ seen.changes >= 2 \/ seen.crossed

\* An answer lists, or sends, only versions that a request answered in one
\* instant of its life would have had, and leaves out none that it would have
\* had at every instant by every grant under the name - although it reads the
\* credential, the two policies, the visibility and the versions in up to six
\* awaits - unless the request was Skewed (authorize, Access::allows, serve_p2,
\* serve_dist, serve_upstream_path).
AnswerFromOneMoment ==
  req.at = "done" /\ ~Skewed => req.got \subseteq seen.could /\ seen.always \subseteq req.got

ServingSpec == ServingInit /\ [][ServingNext]_servingVars
=============================================================================
