# A verification of sconce in TLA+

sconce is a private Composer registry: it mirrors and re-archives packages, takes
publishes and database snapshots, stores their bytes once by content, and serves
them under licences and update policy. This directory holds TLA+ modules of the
parts whose correctness depends on interleavings, crashes and retries, TLC
configurations that check them on small instances, and proofs that TLAPS checks
for every size.

- [Running](#running)
- [The system](#the-system): parts, state, operations, what is hard about each
- [The modules](#the-modules): what corresponds to what
- [Runs](#runs), bounds and fairness
- [Where code and documentation disagree](#where-code-and-documentation-disagree)
- [Proofs](#proofs)
- [Not modelled](#not-modelled), and [what could come next](#what-could-come-next)

`PROJECT.json` maps every definition to the source lines it stands for, and lists
the hazards with the properties that cover them.

## Running

    tlc -workers 2 -config BlobGC.cfg MC_BlobGC        # X.cfg is run on MC_X
    tlapm --stretch 0.5 BlobGC_proofs.tla              # and the other X_proofs

Three configurations state what a comment says and are *expected* to be violated:
`JobQueue_retry` (on `MC_JobQueue`), `Licenses_renew` (on `MC_Licenses`) and
`Tenancy_retired` (on `MC_Tenancy`); see
[below](#where-code-and-documentation-disagree). An `MC_` module gives the constants
that a `.cfg` cannot write down. Where several modules are small and share no
state, one `MC_` module takes them together: its variable `part` says which of them a
behaviour is of, and the others stay at one initial state.

## The system

All shared state is in Postgres (crate `sconce-catalog`, `migrations/`) and in an
object store (crate `sconce-cas`, a directory or an S3 bucket). Processes share
nothing else: any number of `sconce serve` (the wire server, an optional admin UI
and an in-process worker), `sconce worker`, and one-shot commands (`sconce gc`,
`sconce snapshot prune`, ...) run against the same two stores. Nearly every
catalog call is one statement that commits by itself, so two calls of one handler
are two steps between which anybody else may run, and the database and the object
store never commit together. That is where the hard behaviour is.

| Part | State | Operations | Hard about it | Correct means |
|---|---|---|---|---|
| Blob store and GC (`sconce-cas`, `Catalog::upsert_blob`, `orphan_blobs`, `delete_blob_if_orphan`, `gc` in `main.rs`, triggers of migrations 0036 and 0045) | objects; `blobs` with `refcount`, `last_seen_at`; the referencing rows | put, delete; upsert, reference, repoint, unreference by cascade; sweep | two stores without a common transaction; a scan that is stale by the time it is used; crash between row and object | counts exact; what is referenced has its row and its bytes |
| Job queue (`enqueue_job` ... `fail_mirror_job`, `run_worker_loop`) | `mirror_jobs`; the worker loops; NOTIFY | enqueue (deduplicated), claim, complete, fail, retry with backoff, cancel, cascade | several workers, a worker's death, a lost NOTIFY, an enqueue during a run, an index that a retry can violate | one worker per job; a requested run is not lost and starts eventually |
| Snapshots (`snapshots.rs`, `create_snapshot`, `advance_latest`, `prune_snapshots`) | `snapshots`, `snapshot_latest` | upload (row, then pointer), retention, delete | uploads overtaking each other; retention deciding on old tables; cascade into the pointer | `latest` names the newest row of its own channel |
| Publishing (`publish.rs`, upload sessions of migration 0044, `insert_version_once`) | `upload_sessions`, `upload_parts`, staged chunks, `package_versions` | open, stage a part, complete, abort, single-shot publish | concurrent parts and completes, rival publishers, collected chunks, a session checked once and used later | a version never changes; answers are those of a store that takes one request at a time |
| Packages, visibility, members (`upsert_package`, `set_package_visibility`, `set_repo_settings`, `set_repo_members`) | `packages`, `repository_members`, repository settings | declare, publish, mirror, compose | checks that are statements before the write | a declared visibility survives; one level of members; a repository with members owns no packages |
| Mirroring (`sconce-mirror`) | upstreams and their require-lists, packages' binding and flags, the dependency plan | sync of a registry, of a package, of a git upstream; reconcile; archive; resolve a closure | a registry that changes under the sync, two syncs at once, a sync that dies, an upstream deleted meanwhile | stored bytes stay; broken means refused; archived means frozen; private wins |
| Serving and policy (`sconce-server` `lib.rs`, `index.rs`, `cache.rs`) | reads only; a shared cache in front | root, p2, index, dist, upstream path | six awaits, each with a fresh look at what operators are changing; answers that outlive what they say | an answer is one that an instant could have given; a cache never widens it |
| Editions and licences | `editions`, `package_sets`, `org_entitlements`, `license_keys`, edges, `license_renewals` | create within the SKU cap, issue, add, merge, renew, revoke | caps and merges under concurrency; duplicated webhooks; a pool that the cap check needs twice | cap respected; an order buys one key, a renewal counts once, what was bought stays open |
| Organisations and slugs | `organizations`, `repositories`, `slug_history`, `org_remotes` | create, rename, delete, look up, redirect | a name retired between check and use; a path resolved in four statements | an old name never answers for somebody else |
| Accounts | users, memberships, sessions, reset links, SSO connections and flows, device codes | sign in, reset, change, offboard, approve, poll | verified before, acted on after; a form saving what it read | what is good once is good once; a reset signs out; the offboarded are out |
| Tokens and CI | `tokens`, `service_tokens`, `publish_tokens`, token policies, `ci_oidc_policies` | make, exchange a JWT, use, revoke, expire | the policy is read before the insert | a token was allowed by policies that stood together |
| Rate limiter, CSRF | in-memory windows | count, refuse | two critical sections, a cap on what is kept, a sweep | the limit holds per window |
| Archives, git, metadata, SigV4, secrets, UI pages, mail, most of the CLI | none, or external processes | pure functions and I/O | little that interleaves | deterministic output |

How they meet: publishes, mirror jobs and snapshot uploads all end in *put the
object, `upsert_blob`, insert the row that references it*, which is the writer of
`BlobGC`. Deleting a repository cascades into nearly all of it. The worker
loop of `JobQueue` runs the syncs of `Mirror` and the walks of `Closure`, whose
entries queue further jobs. Chunks of an upload session are blobs that nothing
references, which is why the collector appears in `Publish` as well. What `Packages`
and `Licenses` decide, `Serving` reads; what `Serving` answers, `ReadCache` keeps.

## The modules

| Module | Models | Checked by | Proved in |
|---|---|---|---|
| `BlobGC` | store, `blobs`, writers, sweeps | `MC_BlobGC` | `BlobGC_proofs` |
| `WorkQueue` | what the queue promises: one set of waiting jobs, a job lost only with its worker | refined by `JobQueue` | `JobQueue_proofs` |
| `JobQueue` | `mirror_jobs`, callers, worker loops | `MC_JobQueue` | `JobQueue_proofs` |
| `Snapshots` | `snapshots`, `snapshot_latest`, uploads, retention | `MC_BlobGC` | `Snapshots_proofs` |
| `VersionStore` | what publishing promises: a store handling one request at a time | refined by `Publish` | `Publish_proofs` |
| `Publish` | sessions, parts, completes, immutable versions | `MC_Publish` | `Publish_proofs` |
| `Packages` | visibility of packages, repository settings | `MC_Packages` | `Repositories_proofs` |
| `Members` | repositories made of members, which member serves a name | `MC_Packages` | `Repositories_proofs` |
| `Licenses` | keys, their entitlements, orders, renewals, merges | `MC_Licenses` | `Licenses_proofs` |
| `Editions` | plans, package sets, the cap on active editions, the pool | `MC_Accounts` | `Tenancy_proofs` |
| `Tenancy` | names, renames, lookups, custom domains, team manifests | `MC_Tenancy` | `Tenancy_proofs` |
| `Tokens` | token policies, CI exchange, what each token opens | `MC_Accounts` | `Tenancy_proofs` |
| `Accounts` | passwords, sessions, resets, SSO, SCIM, device codes | `MC_Accounts` | `Tenancy_proofs` |
| `RateLimit` | the sliding windows | `MC_Accounts` | `Tenancy_proofs` |
| `Serving` | one read request against a changing catalog | `MC_Serving` | `Repositories_proofs` |
| `ReadCache` | cache directives, and a shared cache obeying them | `MC_Serving` | `Repositories_proofs` |
| `Mirror` | syncs of registries and git upstreams | `MC_Mirror` | `Mirror_proofs` |
| `Closure` | the dependency plan | `MC_Mirror` | `Mirror_proofs` |

Common conventions. A database statement, or a transaction whose locks make it one,
is one action; so is one call of the object store. A handler is the sequence of its
calls, kept in a per-process record (`writer`, `worker`, `upload`, `request`, `call`,
`visit`, `sale`, `sync`, ...) whose field `at` is the program counter and whose other
fields are what the handler has read and still uses. A process that dies forgets that
record and leaves the tables alone. Variables commented *history* or *ghost* are read
by no action's guard and only serve the properties. Operators whose name has a suffix
(`UpsertBlob_KeepsSeen`) are mutants: the same step with a plausible bug, used to see
that each property notices one; nothing else refers to them.

### BlobGC

`objects` is the store's content, `blobs`/`refcount`/`lastSeen` the table, `versions`
and `snapshots` the two kinds of referencing rows with the blob they hold. A writer
goes *put* (`PutPresent` when the object is there, which is the put-if-absent early
return; `PutAbsent` then `PutRename` for the temporary file and its rename),
*upsert* (`UpsertBlob`), *reference*: `InsertVersion` and `KeepVersion` are the two
outcomes of `insert_version_once`, `RepointVersion` the git mirror's upsert,
`CreateSnapshot` a snapshot; `ReferenceRefused` the foreign key's refusal. The
triggers are part of these actions. A collector goes `Scan`, then per blob
`DeleteRow` or `SkipRow` (the re-checked guard), then `DeleteObject` or
`DeleteObjectFails`; `CollectorCrash` and `Abandon` are deaths. `overlapped` is a
history variable: blobs a put of which returned inside a collection of the same
blob (between the collector's row and object deletes, or before the former with the
row not yet recorded).

Left out: object sizes, the storage statistics, the difference of file and S3
stores (S3's put is the same exists-then-put), leaked temporary files.

### JobQueue and WorkQueue

`jobs` maps row ids to key, status and `wait`, which is `run_after - now()`: `Tick`
moves it. How long a job is overdue only matters by rank (the claim orders by
`run_after`), so `Tick` ages a job only as far as that ranking needs. The claim is
two actions because its transaction holds a row lock over two statements
(`ClaimSelect`, `ClaimCommit`); a row `Locked` by one is skipped by others and
waited for by deletes. `EnqueueDuplicate` is `ON CONFLICT DO NOTHING`; `Notify` is
`pg_notify`, a statement of its own, and may be lost. `RetryRefused` is the unique
index refusing `retry_mirror_job`. Every `?` of the loop ends it: `Die` stands for
all database errors and for the process's death; `Restart` is the operator. `asked`
records which keys were enqueued since a run of them started, `abandoned` the rows
whose worker died.

`WorkQueue` is the promise: jobs wait in a set, so that asking for one that waits is
asking once (`Ask`); a taker takes what waits (`Take`), ends with a verdict
(`Finish`), and the job goes back (`Retry`) unless the verdict is final (`Settle`).
What waits may be called off (`Cancel`), what runs may be withdrawn from under its
taker (`Withdraw`), and a taker that dies loses what it has (`Die`). The mapping:
what waits is the keys with a pending row, a run is that of a worker past its claim
and has the key of its row (none once the row is deleted), and `owed` is `asked`. A
claim takes at its commit; a retry that the index refuses is a `Retry` of what waits
already, followed by the loop's end. That a pending row exists is thus said of every
owed job, of a job put back, and of one asked for while it runs.

Left out: the attempts counter (it only sets the backoff, which is any value here),
error texts, what a job does (`Mirror`, `Closure`).

### Snapshots

Rows are numbered in the order of `(created_at, seq)`, which is taken to be the
order of the inserts' commits. `Create` and `Advance` are the upload's two
statements; the prune is split into `PruneScan` (its subqueries, on the statement's
snapshot) and `PruneDelete` because under READ COMMITTED a row is not re-examined
when only a foreign-key lock, not an update, came in between. `DeleteRows` carries
the cascade into the pointer. `advanced`, `overtaken` and `emptied` are histories:
channels ever pointed at, channels where an upload was overtaken or died between its
two statements, channels pruned with `--keep 0`.

### Publish and VersionStore

`session` and `parts` are the tables, `stored` the chunks in the store,
`published` what each version or snapshot channel holds, `request` the handlers.
`PartCheck`, `PartStore`, `PartRecord` are `upload_part`; `CompleteCheck`,
`CompleteRead`, `CompleteAssemble`, `Insert` or `InsertNothing` with `Compare`, and
`CompleteFinish` are `upload_complete`; `SinglePrepare` enters the same path from the
single-shot routes; `AbortCheck`, `AbortSet` are `upload_abort`; `Fail` is every early
return and every crash. A body is a sequence of chunks, equal checksums are equal
bodies, and `ArchiveOf` is the re-archiving, a function that may refuse. `Reap` is
the collector (whose timing is `BlobGC`'s subject and is free here).

`VersionStore` is the promise: clients ask (`Ask`) for content to be put under a
target, and at one moment each is told that it was created, that the version has these
very bytes, or that it was declined (`Create`, `Confirm`, `Decline`), and goes
(`Leave`). `Publish` refines it: `Wish` maps a request to what its checksum stands
for, `published` is `given`, an outcome is what the client is `told`. Opening
sessions, staging, overwriting and collecting chunks are stutters; the one
statement that inserts, or the one that compares, is where a request takes effect.

Left out: size caps (an early return, so `Fail`), names and normalisation of versions,
the visibility `persist` decides (`Packages`), authorisation (`Tokens`).

### Packages

`package` is a name's visibility and whether `visibility_declared_at` is set,
`settings` the repository's two boolean settings, `call` the handlers.
`upsert_package` is `UpsertRead` (the declared visibility, else the one passed in,
is the effective one), `UpsertAllowed` (`ensure_private_allowed`) and `UpsertInsert`
(the `ON CONFLICT` clause that leaves a declared visibility alone). A publish enters
it through `Publish` and `PublishDefault`, which are `persist`'s read of the package
and of the settings, and declares afterwards if it asked for a visibility of a new
package; a sync enters it with the visibility derived from the source.
`set_package_visibility` is `DeclareAllowed` and `DeclareUpdate`. `SettingsRead` and
`SettingsSave` are `sconce repo-settings`; `SettingsForm` is the page, which writes
what it was filled in with. `said` and `allowed` are histories: what each package
was last declared, and whether private packages were ever allowed.

Left out: the repository itself, which exists throughout (a delete cascades into all
of this), the package's kind and source.

### Members

`rows` is `repository_members`, a set of positions and members for each repository
(positions from 1), `owns` the names of the packages a repository has itself.
`set_repo_members` is `SetMembers` (the checks of the list itself), `CheckNested`,
`CheckOwns`, `DeleteMembers` and `CommitMembers`, one action per statement of its READ
COMMITTED transaction: what it deletes is what was committed when the DELETE started,
and the primary key, the unique position and the foreign keys meet what is committed
at the end. The row locks of two DELETEs only decide which of them is first, which is
free here. A rival's replaced rows are gone for whoever had seen them, although equal
rows may be back. `AdmitPackage` and `InsertPackage` are `upsert_package`'s look for
members and its insert. `DeleteRepo` cascades both ways. `Sources` is `MEMBER_EXISTS`:
which repositories' rows are served under a name. `raced` (repositories changed between
a check of them and the write relying on it) is a history.

Left out: the order of the checks of one statement, messages, and the visibility
half of `upsert_package` (`Packages`).

### Licenses and Editions

`key` is `license_keys` (status, edition, order, the key's own bound), `edge` what each
key is entitled to, sets and packages, each with a bound whose null axes stand for the
key's own, `ledger` the table of renewals, `members` what each package set resolves
to. A bound is a record of two axes, a month and a major version, null being
unbounded. Issuing (`IssueRequest`, `IssueResolved`, `Mint`, with `IssueReplayed` and
`IdempotencyHit` for an order that is known), adding an edition (`AddCheck`,
`AddAttach`) and merging (`MergeRead`, `MergeCommit`) take several steps of READ
COMMITTED transactions that do not lock what they read; renewals (`RenewLicense`,
`RenewEdition`), revocation and the operators' forms are one statement. `admits` is
who is let in, so that a service token revoked in the middle shuts a caller out.
`Effective` is the bound `entitled_package_bounds` gives a package, the more
permissive of all the edges that reach it. `answered`, `extended` and `bought` are
histories of what callers were told; `spoiled` has the keys written by a call on what
another had changed since it looked.

`Editions` is the other side: `plan` (`org_entitlements`), `sets`, `skus`. Creating
and switching on an edition are `Begin`, `TakeLock` (the advisory lock), `ReadCap` on
*a second connection*, the count, and the write. `pool` is how many connections
there are; a transaction waiting for the lock keeps its own.

Left out: what a licence document looks like, order numbers, prices, e-mail.

### Tenancy

`org` and `repo` are the live names, `history` is `slug_history` (the scope is
`Nothing`, the null `org_id`, for organisations, else the repository's organisation),
`remote` is `org_remotes` with who set its snapshot, sources and recipes. Creating is a
check, then a write. What is typed may have space around it, and `Trim` takes it away:
the forms ask about the name without it (`CreateOrgCheck`, `CreateRepoCheck`), the
commands about the name as it is (`OrgCreateCheck`, `RepoCreateCheck`, of which the
latter asks nothing when it does not find the organisation), and both create what was
typed; a rename trims. Renaming is three statements: the row's present name
(`RenameOrgRead`), whether the new one is free (`RenameOrgCheck`), and the transaction
that writes both. `ResolveOrg`, `ResolveOrgByHistory`, `ResolveLiveRepo` and `ResolveRepoByHistory`
are `resolve_repo_canonical`'s four queries; `ByHost` is the custom domain. `GetManifest`
reads a remote's owner, and `ManifestParts` then its snapshot, sources and recipes one
after the other. Histories: `held` has every name an entity ever had; `raced` the retired
names taken again by somebody whose check did not find them retired, or asked nothing;
`spaced` those taken again because a form asked about another spelling; `handed` the
remotes that went to another organisation.

### Tokens

`orgRule` and `repoRule` are the two levels of token policy, `ci` the CI policies by
position in the order they were made, `tokens` all three kinds of credential with what they open.
`CreateTokenCheck` and `CreateToken`, `CiMatch` and `CreateCiToken` (or its organisation
and publish forms) are the pairs of statements between which the policies change.
`EffectiveTokenPolicy` lets a repository only tighten. `rules` and `offers` are
histories: which settings, and which policies, stood during a request. Signatures and
claims are what `ValidateJwt` says of issuer and audience; their cryptography is left out.

### Accounts and RateLimit

One organisation's people. `account`, `member`, `sessions`, `resets`, `devices`,
`conns`, `flows` and `scim` are the tables; a `call` is one request, and its place says
what it has verified. Sign-in is `LoginVerify` and `LoginSession`; a page is let in by
`PageSession` and `PageMemberships` (`resolve_session`'s two queries) and acts later
(`ChangePassword`, `GrantTenant`, `SaveOidcRead` and `SaveOidc`, `ApproveDeviceFlow`, ...);
single sign-on is `AuthStart`/`AuthRoute`, `AuthCallback`, `AuthIdentity`, `AuthJoin`,
`AuthSession` (in `AuthIdentity` the read of the connection, the provider's answer to
`oidc::finish` and `find_or_create_sso_user` are one step: a rule changed in between
would let in whom the old one let in, which no property here speaks of); SCIM offboarding is `ScimSetActive` and `ScimRevoke`, which may fail
and be swallowed; a device's poll is `PollDeviceFlow`, whose update decides.
Transactions that hold the row they check (`ResetPassword`) are one action. Time is
what it makes lapse (`Lapse`). The histories say how often a password was reset
(`epoch`), what each ticket was good for (`spent`), how far an offboarding is (`gone`),
and which calls of one kind crossed (`crossed`). What an identity provider asserts is
any user it is set up for.

`RateLimit` keeps for each key the moments of its attempts (`windows`); `Allow` asks and
counts in one critical section, `BasicAsk` and `Record` are the two of basic
authentication. `Prune`, `Sweep` and the cap `Kept` are those of `hit`. `admitted` is
what an unbounded memory would hold. The clock is read inside the critical section; the
code reads it just before taking the mutex, so a tick stands for something far longer
than the wait for that mutex (the windows are minutes).

### Serving and ReadCache

A request of `Serving` goes through the awaits of its route: `Admit` (credential and
what it unlocks), for a name `CheckAllowed` or `FindUpstreamPath`, `ReadUpdatePolicy`,
`ReadGrantPolicy`, and at last the query (`ServeRoot`, `ServeP2`, `ServeIndex`, `ServeDist`,
`ServeUpstreamPath`). Between any two, `Operate` may change the update policy, a
token's or licence's or grant's override, the bound of a licence, grants, grant rules,
visibility, anonymous reading, or the flags of a version (held, yanked, approved).
`VisibleVersions` is the query with `POLICY_GATE`: held and yanked out, approval under
`manual`, age against the effective cooldown, the licence's bound (a latest date, which
leaves out undated versions, a highest major, which does not, or both), and where two rows
share a name the one the precedence picks. `Moment` is what the same request would
have been answered in one instant; `seen` collects it over the request's life. Where
several grants have one name `grant_policy` takes any (`limit 1`), and `Certain` is what
`Moment` has whichever it takes. A request may find any catalog: `StartCatalogs` is a
parameter. An answer need not be of one instant where the request was `Skewed`: two
changes, one of them to what is read before the versions, came between its awaits; or
it came without a credential and one change altered both reads (`Crosses`), because
a row joined a name already let through, or a path came to lead to another row while a
name was let through that had not been.

`ReadCache` is one URL. `Forward` is the server with its middleware (`Cache`: scope by
whether the read was anonymous, life by the kind of body, `Vary`, `no-store` for
refusals; a package that nobody may read has an *empty* document, cached like another) and, with an object store that signs, redirects that expire. `Arrive`,
`Hit` and `Fresh` are a shared cache that does what the directives say and is external.
A tick is a minute; only the order of the ages counts, and `DistAge` stands for a day.

### Mirror and Closure

`remote` is each upstream as it is: whether its root answers, what it lists (or that it
only publishes patterns), what it says of a package's document, and the bytes behind
each version. `World` changes any of it at any time. `upstream` and `row` are the
tables; `sync` is what a worker or command is doing. A registry sync is `FetchRoot`,
`ReadArchived`, then per package `FetchDocument` (the document lists what can be
downloaded, and may list dists that are gone already), `ReadStored`, and per version
`KeepStored` or `Download`, `UpsertPackage`, `BindUpstream`, `InsertVersion`, then
`MarkSynced`; at the end `Reconcile` and `FlagVanished`. A git sync is `Clone` and
`ArchiveTag` with the same four calls, of which the insert overwrites. `MarkBroken` is a refusal
for good; whatever fails in passing gives up the package (`Abandon`), or the sync if
it is of a git upstream. `Changed` is `upstream_change`: shasum, else reference.
Versions are numbers so that a require-list's floors can be compared; a dist is its
bytes. `refused` and `late` are histories of what the upstream refused, and what was
archived, while a sync ran.

`Closure` is `resolve_closure`: `ReadPresent`, `ReadUpstreams` (private ones first),
`ReadRequires` (the repository's direct requirements and, whatever versions are stored of
what it mirrored, some of theirs), then `Take` a name and ask one upstream after the other (`Found`,
`NotFound`, `Missing`; what a name requires is what the registry that answers says), and
`Store` the plan. `FindDep` finds an entry and `AddDep` queues a job from it, a call later;
`RunJob` brings a package; upstreams go and registries answer differently meanwhile
(`Meanwhile`).

Left out: how a version string or a constraint is parsed, what a p2 document says
beyond names and bytes, the HTTP and git clients.

## Runs

| Run | Instance | Shows |
|---|---|---|
| `blob_gc` | 2 blobs, 2 repositories, 1 version key, 1 snapshot, 2 writers, 2 collectors, grace 1, clock to 3; 1 repository, 2 variants, 4 rows, 2 uploads, 2 prunes, keep 0 to 2 | `RefcountExact`: counts are the number of rows that refer; `GraceProtects`: a writer in the window finds its row; `LossNeedsOverlap`: bytes are lost only to a put overlapping a collection of the same blob; `LatestIsNewest`, `LossNeedsOvertake`, `NewestSurvives` of the snapshots |
| `job_queue` | 1 upstream, 1 package, 1 repository (3 keys), 2 rows, 2 workers, 1 death | `SingleClaimant`; `ImplementsQueue`: the refinement of `WorkQueue`; `AskedIsServed` under `FairSpec`; no deadlock |
| `publish` | 1 session, 2 requests, 1 version, 1 channel, 2 chunks, 2 bodies that differ in one chunk | `AnswersTruthful`, `CompletedIsPublished`; `ImplementsStore`: the refinement of `VersionStore` |
| `packages` | 1 package, 3 calls; 3 repositories, lists of length 0 to 2, 2 `set_repo_members`, 1 upsert | `DeclaredStands`, `PublicOnlyHolds`; `MixingNeedsRace`, `NestingNeedsRace` |
| `licenses` | 2 keys, 1 order, 2 calls, a time and a perpetual edition of one set, 1 package, 1 act of the operator, months 0 and 1 | `OneLicensePerOrder`, `OneExtensionPerRenewal`, `LossNeedsRace`: what was bought stays open; `MergeJoins`: a merge is the union |
| `tenancy` | 2 organisations, 2 repositories, the names "acme", " acme" and "beta", 1 host, 1 remote, 3 requests, 2 at once | `OldNamesFollow`, `AnswersAreRight` |
| `accounts` | 1 person, 2 passwords, 2 sessions, 2 links, 3 requests, 2 at once; 2 keys, 1 key of failures, 2 clients, window 2, 2 kept, sweep at 2, clock to 5; 2 repositories, 2 workloads, 1 token, 3 requests; 2 editions, 2 products, caps 0, 1 and none, pools of 2 and 3, 3 requests | `ResetSignsOut`, `OneUseEach`, `LinksNeedRace`, `OffboardedIsOut`, `SecretLossNeedsRace`; `LimitsHold`; `TokenWithinPolicy`, `ExchangeMatches`; `CapHolds`, `SalesHold`: a stall needs a full pool behind the lock, and a product's edition sells that product |
| `serving` | 3 rows of 2 names in 2 repositories, every route as nobody, token or licence, 2 changes meanwhile; 2 clients, 2 answers in flight, 6 minutes, 2 changes | `AnswerFromOneMoment`: an answer is one the catalog could have given in an instant of the request; `HandedInTime`: a cache hands nobody another's answer, and nothing older than its age |
| `mirror` | a registry and a git upstream of 1 package and 1 version, 2 bytes, 2 workers, 2 changes outside, 1 by an operator, 2 syncs; 5 names, a public and a private registry, cap 4, 2 walks, 2 moves | `FirstBytesStay`, `SyncedIsStored`, `FlagsHaveGrounds`, `FreezeNeedsRace`; `PlanClosed`, `PublicNeedsMiss` |
| `job_queue_retry`, `licenses_renew`, `tenancy_retired` | as theirs, 1 worker, 1 call, and 1 request at a time | one violation each, next section |

A property of the form *XNeedsRace* is a guarantee with its exact exception: the code
checks and writes in separate statements, so the claim is false as such, and the
property says that only calls which really overlapped, recorded in a history
variable, can break it. The record is made at the overlap, not at the breach. Such a
property confines a hazard and does not rule it out: of channels where an upload was
overtaken, requests that were `Skewed`, and names in `raced` or `spaced`, nothing is
claimed.

Why the bounds suffice for the cases that matter. In `BlobGC` two collectors and two
writers over two blobs give a sweep that is stale against another sweep and against
a writer of the same blob, while the second blob shows that counts do not mix; a
clock of three ticks with a grace of one lets a blob become old, be refreshed and
become old again. In `JobQueue` two rows are one running and one pending behind it; a
second worker competes for each, and rows are reused after deletion. In
`Snapshots` four rows give two overtaking uploads with an older and a newer row
around them; a second prune works from a different moment. In `Publish` two requests
on one session cover part against complete, complete against complete, abort against
complete, and a session against a single-shot publish of the same version. In
`Packages` names do not affect each other but through the settings, and three calls
are a publish or sync, a declaration and a settings command all at once. In `Members`
three repositories are the fewest with two levels or with one member shadowing
another. In `Licenses` two keys and two calls are a merge against whatever may
overtake it, and two editions of one set meet on one key. In `Tenancy` three slugs let
a name be left, taken by another and asked for, two of them one name to whoever trims
(the first repository comes by one of these two); an entity may have left one before the start; two organisations and two
repositories are who it could wrongly lead to. In `Editions` a pool of two with two
sellers is the smallest that stalls, one of three the smallest that does not, and one edition is under
a cap of 1, at it, or above it. In
`Tokens` three requests are a settings change, a policy change and the token made
across them. In `Accounts` one person with two requests at once has every pair of
handlers of the same account, and roles are taken in turn. In `RateLimit` two kept
attempts with a sweep at two keys make both forget something. In `Serving` rows 1
and 2 share a name and a path, so precedence matters, and two changes between
awaits are enough to make a wrong mixture of three reads; the catalogs it starts from
have row 2 unshared, granted under each policy, granted by rule too, or a member's, and
published, private or still to come. In `ReadCache` the ages keep
the order of the real ones. In `Mirror` two changes outside are a document and the
bytes behind it changing apart; a second worker is another sync of either kind. In
`Closure` five names have a cycle and a chain past the cap, and the private registry
lists other requirements of one name from request to request, which may open a second
way to another. Counts beyond these are what the proofs are for.

Symmetry is used where the values are interchangeable, and not in `job_queue`,
which checks liveness. Deadlock is checked in the two `JobQueue` runs. It is off
elsewhere because the bounds really do end the instances: the clock stops, all row
numbers are used, every session is spent and the repository deleted, the requests
have all been served.

Fairness. `JobQueue!FairSpec` assumes that time passes, that a worker loop that is
draining takes its next step, that a run ends, and that the 30-second poll fires:
these are a running `tokio` task's own steps. It also assumes a stopped worker is
started again. *No code does that* (`serve` logs "worker loop exited" and goes on
without one); it is the operator's part, and without it `AskedIsServed` is false.
Nothing is assumed of `Notify`: the poll alone is enough. The other modules state
safety only: what their handlers eventually do is to end, by answering or failing.

## Where code and documentation disagree

1. **A retry can be refused and end the worker** (`job_queue_retry`). Enqueueing during
   a run is meant to be possible (migration 0015). If that run then fails without
   being terminal, `retry_mirror_job` makes a second pending row of the key, the
   index refuses, the error ends the loop, and the row stays `running`. The
   requested run is not lost (theorem `EnqueueNotLost`), but nobody is left to do it.
2. **A renewal can bound an unbounded key** (`licenses_renew`). A key-level renewal is
   documented to refuse a key that is not time-bounded (`api.rs:273`, `lib.rs:6823`).
   The statement asks for the edition's kind only; an account key has no bound of its
   own, `greatest(null, now())` is now, and what inherited "for ever" ends with the period.
3. **A retired name can be taken again** (`tenancy_retired`). `slug_history` makes names
   "never re-assignable to a *different*" entity (`0027_slug_history.sql:8`). The admin
   UI asks whether `slug.trim()` is retired (`ui.rs:2707`, 2749) and creates `slug` as it was typed
   (2720, 2762). A name with space around it that was retired is thus taken again, by one
   operator and with no race, and what was one entity's name leads to another. A rename
   trims, so such a name can only have come from a creation. `OldNamesFollow`
   says that names recorded in `spaced`, these, and in `raced`, the next section's, are
   the only ones that come to lead elsewhere.

Races that break what a document says, each described exactly by a passing property:

- **A sweep beside a live writer can lose bytes** (README.md:74-77 calls `gc` "safe to
  run against a live server"). An old orphan's object is still in the store; a writer
  of the same content finds it (`put` returns without writing); the sweep deletes the
  row (`main.rs:2315`), the writer upserts a new one and references it, the sweep deletes
  the object (`main.rs:2322`). The window cannot help: `last_seen_at` moves after `put`.
  `LossNeedsOverlap` says this is the only way a row is left without its object.
- **`latest` can be lost to a prune** (`lib.rs:7414`: "so `latest` always resolves"). The
  DELETE decides before an advance that commits ahead of it; the row it then deletes
  takes the pointer with it (cascade of `0045_snapshots.sql:34`). It needs an upload that
  was overtaken by another: `LossNeedsOvertake`.
- **A publish can change an existing package's visibility** (`publish.rs:579` against
  544-553). Two first publishes that ask for different visibilities both find no
  package; the later one upserts and declares its own. `DeclaredStands` still holds: the
  second *is* a declaration, made by a publish that should have been refused.
- **A repository can have members and packages**, and members can be nested
  (`0060_repo_members.sql:8`, `main.rs:485`): all checks are statements before the write
  and none locks (`lib.rs:4004`, 4865, 4880). `MixingNeedsRace`, `NestingNeedsRace`.
- **A merge can lose what was bought**: `merge_license_keys` reads both keys without
  locking them, and a renewal or addition in between is overwritten. `LossNeedsRace`.
- **A retired name can be taken in a race** (`0027_slug_history.sql:8`): it is asked about
  before it is created, and retired in between; or `repo_create` (`main.rs:2831`) does not find
  the organisation, asks nothing, and then creates the repository in one made meanwhile.
  `OldNamesFollow`.
- **A dependency goes to a public upstream when the private one cannot be reached**,
  although "private wins": a probe that fails counts as not found. `PublicNeedsMiss`.

Seen while reading, without a configuration of their own:

- `gc`'s comment (`main.rs:2307`) says "delete the store object, then the row"; it is
  the other way round. A crash in between leaves an object that no later scan finds,
  so re-running does not repair it. The code's order is the better one for readers:
  the comment's would widen the first race above.
- `publish.rs:37` speaks of "the worker sweep" that aborts unfinished upload sessions.
  `expire_upload_sessions` (`lib.rs:7282`) has no caller and `open_session` does not look
  at `expires_at`, so a session stays open for ever and `Publish` has no deadline. An
  abort sets its status without regard to the one it replaces (`publish.rs:322`), so a
  session may be aborted after it has published; completing a snapshot session twice
  registers two snapshots (`snapshots.rs:139`).
- A publish that dies between the upsert and the declaration (`publish.rs:578`) leaves
  a package whose visibility nobody declared. `sconce repo-settings` ("Omit to leave
  unchanged", `main.rs:448`) saves all settings it has read: one changed in between is
  set back. A job whose worker dies stays `running` for ever (`lib.rs:5356`); the theorem
  `RunningAccounted` says every running row has a worker or is such a one.
- Sign-in and people. `save_oidc` stores a new client secret as it is given
  (`ui.rs:777-816`), `oidc_secret` decrypts what it reads (`lib.rs:2941`). A single sign-on
  re-activates an offboarded member and makes an administrator a member again.
  `create_user` is an upsert that leaves the old password's sessions. A sign-in verified
  before a reset may open its session after it. SCIM's
  `let _ = delete_user_sessions(...)` swallows its failure: `OffboardedIsOut` speaks of
  the offboardings that got past it. A denied sign-in still uses a slot of its
  address's window.
- Names. An entity whose live slug is also in `slug_history` can never be renamed or
  deleted. A renamed
  slug's 301 has no cache directives. Registering a remote again for another organisation
  hands its sources, recipes and snapshot over.
- Tokens. Organisation-wide CI and session tokens are neither listed nor revocable
  by `list_tokens` and `revoke_token`.
- Editions. Who waits for the advisory lock holds a pool connection while the lock's
  holder needs a second one to read the cap; with a full pool only the pool's timeout
  frees them (`SalesHold`).
- Serving. The human index ignores the grant's tighter policy and the licence's bound;
  downloads by dist or upstream path deliberately ignore holds and policy. With two
  grants of one name `grant_policy`'s `limit 1` takes either, and applies to an owned row
  of that name too. A private row granted between `allows` and the query is served to
  an anonymous request. So is one found by its upstream path just before it is withdrawn
  (its member detached, say), if that was what kept its name from being read.
- Mirroring. A git sync overwrites a stored version. `mirror_package` takes no notice
  of archiving. A reconciliation on an old listing says "removed upstream". A refusal is
  recorded by name, so that one upstream's flags a package bound to another, and a name
  in a private and a public upstream takes the last syncer's visibility. A crash
  between `upsert_package` and `set_package_upstream` leaves the old binding. A
  require-list's patterns are compiled only when a sync runs.

## Proofs

The proof modules have the same form: an inductive invariant, `Init => IInv`,
`IInv /\ [Next]_vars => IInv'` with one step per action, and the theorems from these
by PTL. They assume nothing but the modules' named assumptions on constants
(finiteness of the sets that are counted, distinctness of the null values).

- `BlobGC_proofs` builds its invariant in layers, each inductive relative to the ones
  before. `TypeInv` adds to `TypeOK` that a writer that is not idle has a blob.
  `RefcountExact` is then inductive by itself; lemmas count the rows that hold a blob
  before and after one is added, moved or dropped, and a whole repository's for the
  cascade. `ReferencedHasRow` follows from the count: an orphan's is 0, so nothing
  refers to it. For `GraceProtects`, `SeenInv` says that the row a writer recorded is
  there and no older than the writer remembers, or the window is over. For
  `LossNeedsOverlap`, `OverlapInv` extends the claim to blobs that a writer has put and
  not recorded, and adds that a blob in either state whose object a collector is
  about to delete is overlapped. Theorems: `TypeCorrect`, `CountCorrect`, `RowsKept`,
  `GraceCorrect`, `LossConfined`.
- `JobQueue_proofs` has two invariants. `SingleClaimant` is not inductive: the claim
  reads a status that another worker may be about to change. `HoldsByPlace` (a worker
  has a job exactly between claim and outcome), `StatusByPlace` (a job under claim is
  pending, one that runs is running or deleted) and `NoSharing` make it so, together
  with `RunningIsHeld` and `AskedIsPending`. Theorems: `TypeCorrect`, `ClaimsExclude`,
  `EnqueueNotLost`, `RunningAccounted`. The second, `QInv`, is for the refinement: of
  a key one row is pending (`OnePending`, the unique index), a row is whole or gone
  (`RowsWhole`), and a worker has a verdict exactly when its run has ended
  (`VerdictByPlace`). With it `Implements` proves the refinement of `WorkQueue`: one
  lemma per statement says which step of the promise it is (`AskMaps`, `CancelMaps`,
  `WithdrawMaps`, `CommitMaps`, `RunMaps`, `SettleMaps`, `RetryMaps`, `DieMaps`, and
  `RestMaps` for those that change nothing of it). That a claim takes the only pending
  row of its key is what `OnePending` is needed for: with two the job would still wait.
- `Snapshots_proofs`: `Placed` says rows are only added behind all others and that what
  an upload or a prune remembers is still of its channel or deleted. `Retained` says
  of a live channel never pruned to nothing that it has a newest row and, for each
  prune, a row that outlives its victims: row numbers come from a bounded set, but
  which of them exist does not follow from that, and two prunes that scanned at
  different moments must not empty a channel together. `PointerSafe` says that,
  where no upload was overtaken, rows newer than the pointer belong to uploads in
  flight and no prune has chosen the pointer's. Theorems: `TypeCorrect`,
  `PointerInChannel`, `PointerIsNewest`, `PointerKept`, `NewestKept`.
- `Publish_proofs`: `TablesOK` is about the tables, `RequestOK` about one handler: it
  has a session while it works on one, and what it has read of an immutable version is
  still true. `Keeps` is the frame condition under which the other handlers'
  `RequestOK` survives a step, so that each action needs only its own
  handler and `Keeps`. Theorems: `TypeCorrect`, `Truthful`, `CreatedOnce`,
  `CompletedPublished`, `Immutable`. On the same invariant `Implements` proves the
  refinement of `VersionStore`: one lemma per kind of mapped step (quiet, asking,
  deciding, leaving), then every action by one of them.
- `Repositories_proofs` takes `Packages`, `Members`, `Serving` and `ReadCache`, four
  invariants side by side. In `Packages` the checks are stale by the time of the insert;
  what makes `PublicOnlyHolds` inductive is that a private visibility carried past its
  check was allowed, or the row was declared when it was read, and no row is ever
  undeclared. In `Members` a check that has passed is still true, or both repositories it
  was about are in `raced`: `OwningHolds` and `NestingHolds` say so of a
  `set_repo_members` past its checks, `WriterHolds` of an `upsert_package` past its own,
  `Unmixed` of the tables. In `ReadCache` every body, under way (`FlightOK`), kept
  (`CopyOK`) or handed over (`HandedOK`), is one the origin could have sent at a minute
  `t`, and is used no later than `t` plus its way and its max-age. That a redirect's
  signature is still good needs `DeliveryAssumption`: an answer is under way for less than
  a redirect leaves of it. The assertion in `cache.rs:41` (twice the redirect's age is
  below the signature's) is that assumption for a network no slower than the redirect's
  age. Theorems: `PackagesTypesCorrect`, `DeclarationsStand`, `PublicOnly`,
  `MembersTypesCorrect`, `MixingConfined`, `NestingConfined`, `CacheHandsInTime`,
  `CacheTypesCorrect` (`BodiesOK`: whatever is under way, kept or handed over is an
  answer), `OneMoment`, `ServingTypesCorrect`.
  - `ServingIInv`. `Gets` says of every await of every route what the request would be
    answered if nothing more changed, and `Answered` that all of it was right at a moment
    so far and nothing always right is missing. A step of the request leaves `Gets` as it
    is (`ServeKeeps`, one lemma per await). While no change has touched what is read early,
    what has been read is what would be read now (`Reads`), and a path still leads to the
    row found (`Found`, until the first change). Each kind of change then settles
    (`Settles`) in one of two ways: what was read is still current, so that `Gets` is
    `Moment` after the change (`FreshSettles`), or the change is to nothing still to be read
    (`SameSettles`); rows withdrawn from an anonymous request fall between the two and are
    `ShrinkSettles`, an upstream path `PathSettles`. That the policies folded one after
    another (`Effective`) let through what every policy in force does is `GateIs`.
- `Licenses_proofs`: `OneKey` is the unique index on order and edition, which an insert
  has to respect; `Answered` says that whoever was answered was told a key of
  that order and edition; `Unminted` that a key not issued has no row. A renewal extends
  only when its row enters the ledger. For `LossNeedsRace` and `MergeJoins` a second
  invariant, `HInv`, relates a key that no overtaken call has written to what was bought:
  the key is active, the edge is there, and its bound is no narrower (`Holding`). Bounds
  are a lattice: `CoversOrder`, `WiderOrder` and `JoinedLeast` are its laws, and a key's
  effective bound is the least one covering its edges (`CeilingLeast`), so a merged key's
  is the join of the two (`CeilingOfUnion`). Finite sets of numbers have a greatest element
  by well-foundedness (`Greatest`), which takes the place of an induction. The types need
  a third, `RestOK`: a key once minted is never unminted, so the ledger's rows have their
  keys (`KeyStays`). Theorems: `OrderBuysOneKey`, `RenewalCountsOnce`, `BuyersKeep`,
  `MergesJoin`, `TypeCorrect`.
- `Tenancy_proofs` takes the four modules of an organisation's people, names, plans and
  credentials, and the limiter in front of them. They share no state and have an
  invariant each.
  - `TenancyIInv`: every name an entity has had is in `held` and is live or retired
    (`HeldStands`); one name of a scope is of one entity unless it was retired under
    somebody about to take it, or has space around it and a form asked about it without
    (`Unshared`, which leaves out `Retaken`); a request in flight remembers only what the
    path led to while it ran, all of which `seen` has noted (`VisitOK`); the parts of a
    manifest were set under its remote's present owner or are in `handed` (`RemotesOK`).
    `IndexOK` adds the unique indexes and foreign keys of these tables: a slug, a path and
    a host are of one row, a name is history once, and a manifest's snapshot is there.
    Theorems: `NamesLeadHome`, `AnswersRight`, `TenancyTypesCorrect`.
  - `EditionsIInv`: a transaction past `pg_advisory_xact_lock` holds the lock, and nobody
    else makes an edition active while it does, so the count it read can only have shrunk
    when it writes (`SaleOK`, `LockOK`). `StockOK` says that the connections in use are no
    more than the pool has and that no edition, nor a sale under way, is of a set that was
    deleted. Theorems: `CapAlwaysHolds`, `SalesKeep`, `EditionsTypesCorrect`.
  - `TokensIInv`: the settings and policies a request has read are among those noted as
    in force during it (`RequestOK`, on `Noted`). Theorems: `HandMadeWithinPolicy`,
    `ExchangeWithinPolicy`.
  - `AccountsIInv`: of each table of tickets, the rows that wait and the calls that hold
    one are all different and none is spent (`TicketsGood`); of a user not in `crossed` at
    most one request for a link is under way, and it has seen every open one (`OneForgot`);
    once `gone` is "out" no membership is active and what is let in came before (`GoneOK`); a
    save that leaves the secret blank carries the stored one (`SecretOK`). The foreign keys
    need two more: no account is ever taken away, so members, sessions, links and the calls
    about to make one are of known users (`HoldersOK`), and a connection's id is its own,
    so the flows of a replaced row are the ones that go with it (`ConnsOK`). Theorems:
    `PasswordSignsOut`, `GoodOnce`, `OneLiveLink`, `OffboardingHolds`, `SecretsKept`,
    `AccountsTypesCorrect`.
  - `LimiterIInv`: of the attempts that count, a key's window holds the newest, counted
    back from its end: all of them, or as many as are kept (`Remembered`, from
    `Remembers`). Pruning, the cap and the sweep then forget nothing a limit could ask
    for, since a limit is at most `Kept` and a window at most `MaxWindow`. Every request
    in flight with a key was let in under its limit, so failures pass it by no more than
    there are clients. Theorem: `LimitsKept`, for any keys, limits and clients.
- `Mirror_proofs`: the invariant says four things of each sync. What it holds of a
  document is of the package it is at (`DocOK`). What it has dealt with is stored, or is
  the version on its way through upsert, bind and insert (`StoredOK`). What it may flag,
  now or when it reconciles, its upstream has refused since it began (`FlagOK`: a listing
  read once stays grounds, because every name missing from it was noted then). And what
  a registry sync has before it was not archived when it looked, or has been noted since
  (`FreezeOK`). `LateNoted` is the frame: whatever others do to the rows, as long as rows
  and versions stay and what is newly archived is noted, none of this is lost; `StepOK`
  is what one step of a sync may do to the rows. Theorems: `TypeCorrect`, `SyncedStored`,
  `FirstBytes`, `FlagsGrounded`, `FreezeConfined`, for any number of overlapping syncs
  and any registry. The same module has `Closure`: while a name is asked for, a private
  upstream is still to be asked or has missed it (`Asking`, on the sorted order of what is
  left), a name is met when it has its one entry or is being asked for (`Met`), and below
  the cap what was met or waits is exactly what the entries so far require (`Waiting`).
  `PlanKeyed` is about the foreign keys of what was stored: a plan that names an upstream
  deleted during its walk is not stored, and a deleted one leaves the plan and the queue.
  Theorems: `PrivateWins`, `PlanWhole`, `ClosureTypesCorrect`.

What the assumptions say. Counted sets are finite. Null values are none of the values
(`NoCap` is no cap, no seller is called so, `Forever` is no number of days, `None` is no row
of a table and no generated password). The row of `oidc_connections` a state starts with is
none of those made later. An edition called `"new"` or a place called `"org"` would be confused with the
markers of that name. A token is of one table, since the tables' tokens are drawn apart.
`Registry` lists the composer upstreams in the order of their rows.

What the proofs corrected. The initial names of `Tenancy` had only been unique against one
organisation: right for the two that TLC saw, wrong for three. The scope of an
organisation's name is a null value of its own. `PrivateFirst` and `ListUpstreams` are
stated by what a stable sort returns rather than computed by selection, about which the
provers know nothing; so `Prune` is stated by the first attempt still in the window, which
is what popping from the front stops at. `HandedInTime` had used the document's max-age
for a redirect too; they happen to be equal in the code, and each body now has its own.
`Serving` had started from catalogs where next to nothing was shared. The theorem is about
any, where several grants of a name may differ (`Certain`); and from a repository that has
a member TLC found that one change can cross a request for an upstream path too.

Only model-checked: `AskedIsServed`, which is liveness and out of the prover's reach;
and of course the two violations. Type invariants are theorems for every module that
states one but `Tokens`: deleting a repository filters the list of its policies, and what
`SelectSeq` returns is defined by recursion, out of the prover's reach; what the other
proofs about `Tokens` need of types is part of `TokensIInv`.

## Not modelled

Canonical archives, git plumbing, Composer metadata, S3 request signing, encryption of
secrets at rest, the same-origin check, mail, and the pages of the UI and commands of
the CLI that are one catalog call or only show something (lists, token introspection):
pure functions, or input and output around calls that are modelled. An archive appears as the function `ArchiveOf`,
a parsed version as a number, a signed URL as its expiry. What external parties do
(identity providers, CI issuers, upstream registries, caches) is whatever their
interface lets them say.

Not claimed: liveness of anything but the queue. An upload, a sync or a request ends
when its process goes on, and the code promises no more. One hazard of the list is
without a property, for the reason given there.

## What could come next

1. A reference-counted store implemented by `BlobGC`, as `WorkQueue` is by `JobQueue`.
2. `Mirror` composed with `JobQueue`, so that a sync's failure is the retry of its job, and
   `Publish` with `BlobGC`, so that the collector of its chunks keeps to the grace window.
