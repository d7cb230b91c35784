------------------------------ MODULE JobQueue ------------------------------
(***************************************************************************)
(* The background job queue: the Postgres table mirror_jobs, the callers   *)
(* that enqueue into it and the worker loops that drain it.                *)
(*                                                                         *)
(* The partial unique index mirror_jobs_pending_uniq allows one pending    *)
(* row per job key and says nothing of rows in other states.  A worker     *)
(* claims in one transaction (a row lock taken with FOR UPDATE SKIP        *)
(* LOCKED, then the update), runs the job outside any transaction, and     *)
(* records the outcome.  Every database call of the loop ends in `?`: an   *)
(* error ends the loop, and nothing in the code starts it again short of a *)
(* restart of the process.                                                 *)
(***************************************************************************)
EXTENDS Integers, FiniteSets

CONSTANTS
    Upstreams, Packages, Repos,
    RepoOf,      \* the repository an upstream belongs to
    JobIds,      \* row ids; bound: as many rows are ever inserted
    Workers,     \* worker loops
    MaxBackoff,  \* longest retry backoff, in ticks
    MaxAge,      \* bound: the ranks of overdue jobs that are told apart
    MaxDeaths,   \* bound: how often workers die by themselves
    NoJob        \* absence of a job

ASSUME JobQueueAssumption ==
    /\ RepoOf \in [Upstreams -> Repos]
    /\ MaxBackoff \in Nat \ {0}
    /\ MaxAge \in Nat
    /\ MaxDeaths \in Nat
    /\ NoJob \notin JobIds
    /\ IsFiniteSet(JobIds)

(* The columns the unique index covers, by kind.                            *)
UpstreamKeys == [kind : {"mirror_upstream"}, upstream : Upstreams]
PackageKeys  == [kind : {"mirror_package"}, upstream : Upstreams, package : Packages]
ClosureKeys  == [kind : {"resolve_closure"}, repo : Repos]
Keys == UpstreamKeys \union PackageKeys \union ClosureKeys

NoKey == [kind |-> "none"]

VARIABLES
    jobs,       \* the table: key, status, and run_after relative to now()
    worker,     \* where each worker loop is, the job it has, its outcome
    notified,   \* a NOTIFY waits in the worker's listener
    notifying,  \* an enqueue has inserted and not yet sent its NOTIFY
    deaths,     \* bound: deaths so far
    asked,      \* history: keys enqueued since a run of them last started
    abandoned   \* history: jobs whose worker died while it had them

vars == <<jobs, worker, notified, notifying, deaths, asked, abandoned>>

Statuses == {"absent", "pending", "running", "ready", "failed"}
Places   == {"draining", "claiming", "running", "ended", "waiting", "dead"}
Outcomes == {"ok", "terminal", "transient"}
Waits    == (- MaxAge) .. MaxBackoff

JobRow      == [key : Keys \union {NoKey}, status : Statuses, wait : Waits]
WorkerState == [at : Places, job : JobIds \union {NoJob},
                outcome : Outcomes \union {"none"}]

NoRow == [key |-> NoKey, status |-> "absent", wait |-> 0]
At(place) == [at |-> place, job |-> NoJob, outcome |-> "none"]

TypeOK ==
    /\ jobs \in [JobIds -> JobRow]
    /\ worker \in [Workers -> WorkerState]
    /\ notified \in [Workers -> BOOLEAN]
    /\ notifying \in BOOLEAN
    /\ deaths \in 0 .. MaxDeaths
    /\ asked \subseteq Keys
    /\ abandoned \subseteq JobIds

Init ==
    /\ jobs = [j \in JobIds |-> NoRow]
    /\ worker = [w \in Workers |-> At("draining")]
    /\ notified = [w \in Workers |-> FALSE]
    /\ notifying = FALSE
    /\ deaths = 0
    /\ asked = {}
    /\ abandoned = {}

Pending(j)    == jobs[j].status = "pending"
PendingFor(k) == \E j \in JobIds : Pending(j) /\ jobs[j].key = k
Holds(w, j)   == worker[w].job = j
Locked(j)     == \E w \in Workers : worker[w].at = "claiming" /\ Holds(w, j)

(* gen_random_uuid(): no row and no worker knows the id.                    *)
Fresh(j) == jobs[j].status = "absent" /\ \A w \in Workers : ~ Holds(w, j)

(* The row mirror_jobs_pending_uniq would have collide with row j pending.  *)
Collides(j) == \E i \in JobIds \ {j} : Pending(i) /\ jobs[i].key = jobs[j].key

-----------------------------------------------------------------------------
(* Callers.                                                                 *)

(* enqueue_job: insert unless an identical job is pending, then NOTIFY in a *)
(* statement of its own, deduplicated or not.                               *)
EnqueueNew(k, j) ==
    /\ ~ PendingFor(k)
    /\ Fresh(j)
    /\ jobs' = [jobs EXCEPT ![j] = [key |-> k, status |-> "pending", wait |-> 0]]
    /\ notifying' = TRUE
    /\ asked' = asked \union {k}
    /\ UNCHANGED <<worker, notified, deaths, abandoned>>

(* Mutant of EnqueueDuplicate: a running job blocks a new pending one too.  *)
EnqueueDuplicate_ByRunning(k) ==
    /\ \E j \in JobIds : jobs[j].key = k /\ jobs[j].status \in {"pending", "running"}
    /\ notifying' = TRUE
    /\ asked' = asked \union {k}
    /\ UNCHANGED <<jobs, worker, notified, deaths, abandoned>>

EnqueueDuplicate(k) ==
    /\ PendingFor(k)
    /\ notifying' = TRUE
    /\ asked' = asked \union {k}
    /\ UNCHANGED <<jobs, worker, notified, deaths, abandoned>>

Notify ==
    /\ notifying
    /\ notifying' = FALSE
    /\ notified' = [w \in Workers |-> notified[w] \/ worker[w].at # "dead"]
    /\ UNCHANGED <<jobs, worker, deaths, asked, abandoned>>

(* The enqueuer dies between its two statements, or the NOTIFY fails.       *)
NotifyLost ==
    /\ notifying
    /\ notifying' = FALSE
    /\ UNCHANGED <<jobs, worker, notified, deaths, asked, abandoned>>

(* The deletes below wait for the row locks of claims in progress.          *)
DeleteRows(rows) ==
    /\ \A j \in rows : ~ Locked(j)
    /\ jobs' = [j \in JobIds |-> IF j \in rows THEN NoRow ELSE jobs[j]]
    /\ asked' = {k \in asked : \A j \in rows : Pending(j) => jobs[j].key # k}
    /\ abandoned' = abandoned \ rows

(* archive_package: cancel the package's pending jobs in the repository.    *)
ArchivePackage(r, p) ==
    LET cancelled == {j \in JobIds :
            /\ Pending(j)
            /\ jobs[j].key.kind = "mirror_package"
            /\ jobs[j].key.package = p
            /\ RepoOf[jobs[j].key.upstream] = r} IN
    /\ cancelled # {}
    /\ DeleteRows(cancelled)
    /\ UNCHANGED <<worker, notified, notifying, deaths>>

OfUpstream(u) == {j \in JobIds : jobs[j].key \in UpstreamKeys \union PackageKeys
                                   /\ jobs[j].key.upstream = u}

(* An upstream is deleted: its jobs cascade, running ones included.         *)
DeleteUpstream(u) ==
    /\ OfUpstream(u) # {}
    /\ DeleteRows(OfUpstream(u))
    /\ UNCHANGED <<worker, notified, notifying, deaths>>

(* A repository is deleted: so do its upstreams' jobs and its own.          *)
DeleteRepo(r) ==
    LET rows == {j \in JobIds :
            \/ \E u \in Upstreams : RepoOf[u] = r /\ j \in OfUpstream(u)
            \/ jobs[j].key = [kind |-> "resolve_closure", repo |-> r]} IN
    /\ rows # {}
    /\ DeleteRows(rows)
    /\ UNCHANGED <<worker, notified, notifying, deaths>>

-----------------------------------------------------------------------------
(* A worker loop.                                                           *)

(* Mutant of Eligible: the select takes no lock and skips none.             *)
Eligible_Unlocked(j) == Pending(j) /\ jobs[j].wait <= 0

Eligible(j) == Pending(j) /\ jobs[j].wait <= 0 /\ ~ Locked(j)

(* claim_mirror_job, its select: the oldest run_after not locked by another. *)
ClaimSelect(w, j) ==
    /\ worker[w].at = "draining"
    /\ Eligible(j)
    /\ \A i \in JobIds : Eligible(i) => jobs[j].wait <= jobs[i].wait
    /\ worker' = [worker EXCEPT ![w] = [At("claiming") EXCEPT !.job = j]]
    /\ UNCHANGED <<jobs, notified, notifying, deaths, asked, abandoned>>

(* claim_mirror_job, its update and commit: the run starts.                 *)
ClaimCommit(w) ==
    LET j == worker[w].job IN
    /\ worker[w].at = "claiming"
    /\ jobs' = [jobs EXCEPT ![j].status = "running"]
    /\ worker' = [worker EXCEPT ![w].at = "running"]
    /\ asked' = asked \ {jobs[j].key}
    /\ UNCHANGED <<notified, notifying, deaths, abandoned>>

(* claim_mirror_job finds nothing: the loop goes to wait.                   *)
ClaimNone(w) ==
    /\ worker[w].at = "draining"
    /\ \A j \in JobIds : ~ Eligible(j)
    /\ worker' = [worker EXCEPT ![w] = At("waiting")]
    /\ UNCHANGED <<jobs, notified, notifying, deaths, asked, abandoned>>

(* run_job returns: a summary, or a failure that is terminal or is not.     *)
RunJob(w, outcome) ==
    /\ worker[w].at = "running"
    /\ worker' = [worker EXCEPT ![w].at = "ended", ![w].outcome = outcome]
    /\ UNCHANGED <<jobs, notified, notifying, deaths, asked, abandoned>>

(* The row of an ended job, if it is still there, gets a final status.      *)
Settle(w, outcome, status) ==
    LET j == worker[w].job IN
    /\ worker[w].at = "ended"
    /\ worker[w].outcome = outcome
    /\ jobs' = IF jobs[j].status = "absent" THEN jobs
               ELSE [jobs EXCEPT ![j].status = status]
    /\ worker' = [worker EXCEPT ![w] = At("draining")]
    /\ UNCHANGED <<notified, notifying, deaths, asked, abandoned>>

CompleteJob(w) == Settle(w, "ok", "ready")
FailJob(w)     == Settle(w, "terminal", "failed")

(* retry_mirror_job: pending again after a backoff, when the index allows.  *)
RetryJob(w) ==
    LET j == worker[w].job IN
    /\ worker[w].at = "ended"
    /\ worker[w].outcome = "transient"
    /\ \/ /\ jobs[j].status = "absent"
          /\ UNCHANGED jobs
       \/ /\ jobs[j].status # "absent"
          /\ ~ Collides(j)
          /\ \E backoff \in 1 .. MaxBackoff :
                jobs' = [jobs EXCEPT ![j].status = "pending", ![j].wait = backoff]
    /\ worker' = [worker EXCEPT ![w] = At("draining")]
    /\ UNCHANGED <<notified, notifying, deaths, asked, abandoned>>

(* A worker that stops leaves its row as it is; an open claim rolls back.   *)
StopWith(w) ==
    /\ worker' = [worker EXCEPT ![w] = At("dead")]
    /\ notified' = [notified EXCEPT ![w] = FALSE]
    /\ abandoned' = IF worker[w].at \in {"running", "ended"}
                    THEN abandoned \union {worker[w].job} ELSE abandoned

(* retry_mirror_job meets an identical job enqueued during the run: the     *)
(* index refuses the update and the error ends the loop.                    *)
RetryRefused(w) ==
    LET j == worker[w].job IN
    /\ worker[w].at = "ended"
    /\ worker[w].outcome = "transient"
    /\ jobs[j].status # "absent"
    /\ Collides(j)
    /\ StopWith(w)
    /\ UNCHANGED <<jobs, notifying, deaths, asked>>

(* The process dies, or another database error ends the loop.               *)
Die(w) ==
    /\ worker[w].at # "dead"
    /\ deaths < MaxDeaths
    /\ deaths' = deaths + 1
    /\ StopWith(w)
    /\ UNCHANGED <<jobs, notifying, asked>>

(* The process is started again.  It takes no account of running rows.      *)
Restart(w) ==
    /\ worker[w].at = "dead"
    /\ worker' = [worker EXCEPT ![w] = At("draining")]
    /\ UNCHANGED <<jobs, notified, notifying, deaths, asked, abandoned>>

Wake(w) ==
    /\ worker[w].at = "waiting"
    /\ notified[w]
    /\ worker' = [worker EXCEPT ![w] = At("draining")]
    /\ notified' = [notified EXCEPT ![w] = FALSE]
    /\ UNCHANGED <<jobs, notifying, deaths, asked, abandoned>>

(* Mutant of Poll: the loop only ever wakes on a NOTIFY.                    *)
Poll_OnNotify(w) ==
    /\ worker[w].at = "waiting"
    /\ notified[w]
    /\ worker' = [worker EXCEPT ![w] = At("draining")]
    /\ UNCHANGED <<jobs, notified, notifying, deaths, asked, abandoned>>

(* The 30-second poll, or the return from a broken LISTEN connection.       *)
Poll(w) ==
    /\ worker[w].at = "waiting"
    /\ worker' = [worker EXCEPT ![w] = At("draining")]
    /\ UNCHANGED <<jobs, notified, notifying, deaths, asked, abandoned>>

(* Time passes: every pending job is a tick closer to, or past, run_after.  *)
(* How long a job is overdue is told only so far as it ranks the overdue:   *)
(* one is aged no further than keeps it behind those overdue for longer.    *)
Tick ==
    LET older(j) == {i \in JobIds : Pending(i) /\ jobs[i].wait < jobs[j].wait}
        ages(j)  == Pending(j) /\ jobs[j].wait > Cardinality(older(j)) - MaxAge IN
    /\ jobs' = [j \in JobIds |->
                  IF ages(j) THEN [jobs[j] EXCEPT !.wait = @ - 1] ELSE jobs[j]]
    /\ UNCHANGED <<worker, notified, notifying, deaths, asked, abandoned>>

-----------------------------------------------------------------------------
Claim(w) == (\E j \in JobIds : ClaimSelect(w, j)) \/ ClaimCommit(w) \/ ClaimNone(w)

Finish(w) == CompleteJob(w) \/ FailJob(w) \/ RetryJob(w) \/ RetryRefused(w)

WorkerStep(w) ==
    \/ Claim(w)
    \/ \E outcome \in Outcomes : RunJob(w, outcome)
    \/ Finish(w)
    \/ Die(w) \/ Restart(w)
    \/ Wake(w) \/ Poll(w)

CallerStep ==
    \/ \E k \in Keys : EnqueueDuplicate(k) \/ \E j \in JobIds : EnqueueNew(k, j)
    \/ Notify \/ NotifyLost
    \/ \E r \in Repos, p \in Packages : ArchivePackage(r, p)
    \/ \E u \in Upstreams : DeleteUpstream(u)
    \/ \E r \in Repos : DeleteRepo(r)

Next == CallerStep \/ Tick \/ \E w \in Workers : WorkerStep(w)

Spec == Init /\ [][Next]_vars

(* The loop never rests with a job ready to claim, a run ends, the poll     *)
(* timer fires, time passes.  Nothing in the code restarts a worker: its    *)
(* restart is the operator's part, assumed by FairSpec only.                *)
WorkerFairness ==
    /\ WF_vars(Tick)
    /\ \A w \in Workers :
        /\ WF_vars(Claim(w))
        /\ WF_vars(\E outcome \in Outcomes : RunJob(w, outcome))
        /\ WF_vars(Finish(w))
        /\ WF_vars(Poll(w))

FairSpec == Spec /\ WorkerFairness /\ \A w \in Workers : WF_vars(Restart(w))

-----------------------------------------------------------------------------
(* claim_mirror_job: "concurrent workers never grab the same job": no two   *)
(* workers have one job, and a job some worker runs is marked running, or   *)
(* its row was deleted meanwhile.                                           *)
SingleClaimant ==
    \A w \in Workers : worker[w].job # NoJob =>
        /\ \A v \in Workers \ {w} : ~ Holds(v, worker[w].job)
        /\ worker[w].at \in {"running", "ended"} =>
             jobs[worker[w].job].status \in {"running", "absent"}

(* Migration 0015: "a sync requested mid-run still triggers a fresh pass    *)
(* afterward": as long as no run of an enqueued key has started, a row for  *)
(* it is pending, whatever dedup, retries and deaths happen in between.     *)
AskedIsPending == \A k \in asked : PendingFor(k)

(* A row says running only while a worker has it, unless that worker died   *)
(* with it: no outcome of a run leaves the row behind in that state.        *)
RunningIsHeld ==
    \A j \in JobIds : jobs[j].status = "running" =>
        j \in abandoned \/ \E w \in Workers : Holds(w, j)

(* What a worker's run amounts to, told by the row: nothing outside a run,  *)
(* and no job any more once the row is deleted.                             *)
RunOf(w) ==
    IF worker[w].at \in {"running", "ended"}
    THEN [job |-> jobs[worker[w].job].key, verdict |-> worker[w].outcome]
    ELSE [job |-> NoKey, verdict |-> "resting"]

Runs        == [w \in Workers |-> RunOf(w)]
PendingKeys == {k \in Keys : PendingFor(k)}

Queue == INSTANCE WorkQueue WITH
            Jobs <- Keys, Takers <- Workers,
            Verdicts <- Outcomes, Final <- {"ok", "terminal"}, Withdrawn <- NoKey,
            owed <- asked, waiting <- PendingKeys, run <- Runs

(* Rows, the unique index, skipped locks, backoffs, lost NOTIFYs and        *)
(* deletions under a worker together are one set of waiting jobs: a request *)
(* "deduped against an identical pending one" (lib.rs:5302) is not lost,    *)
(* "concurrent workers never grab the same job" (claim_mirror_job), and     *)
(* only the death of its worker loses a run: even a retry that the index    *)
(* refuses does not.                                                        *)
ImplementsQueue == Queue!QueueSpec

(* A requested run starts: NOTIFY may be lost and a backoff may have to     *)
(* elapse, the poll makes up for both; a row deleted meanwhile is not owed. *)
AskedIsServed == \A k \in Keys : k \in asked ~> k \notin asked

(* main.rs:2542: "never give up ... retry indefinitely": a job whose run    *)
(* failed without being terminal is pending again when its worker is done   *)
(* with it.                                                                 *)
RetryReschedules ==
    [][\A w \in Workers :
         (/\ worker[w].at = "ended" /\ worker[w].outcome = "transient"
          /\ jobs[worker[w].job].status # "absent"
          /\ worker'[w].at # "ended" /\ deaths' = deaths)
           => jobs'[worker[w].job].status = "pending"]_vars
=============================================================================
