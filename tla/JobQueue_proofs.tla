-------------------------- MODULE JobQueue_proofs --------------------------
(* The safety invariants of the job queue, for every set of upstreams,      *)
(* packages, repositories, job rows and workers, and every backoff.         *)
EXTENDS JobQueue, FiniteSetTheorems, TLAPS

(* The inductive invariant.  A worker has a job exactly from its claim to   *)
(* its record of the outcome; a job under claim is still pending and a job  *)
(* in a worker's hands is running, or its row was deleted under it; no two  *)
(* workers have the same one.                                               *)
HoldsByPlace ==
    \A w \in Workers :
        worker[w].job # NoJob <=> worker[w].at \in {"claiming", "running", "ended"}

StatusByPlace ==
    \A w \in Workers :
        /\ worker[w].at = "claiming" => jobs[worker[w].job].status = "pending"
        /\ worker[w].at \in {"running", "ended"} =>
             jobs[worker[w].job].status \in {"running", "absent"}

NoSharing ==
    \A v, w \in Workers :
        v # w /\ worker[w].job # NoJob => worker[v].job # worker[w].job

IInv == TypeOK /\ HoldsByPlace /\ StatusByPlace /\ NoSharing
          /\ RunningIsHeld /\ AskedIsPending

LEMMA InitIInv == Init => IInv
<1>. SUFFICES ASSUME Init PROVE IInv
  OBVIOUS
<1>1. TypeOK
  <2>1. 0 \in Waits /\ 0 \in 0 .. MaxDeaths
    BY JobQueueAssumption DEF Waits
  <2>2. NoRow \in JobRow /\ At("draining") \in WorkerState
    BY <2>1 DEF NoRow, JobRow, Statuses, At, WorkerState, Places
  <2>. QED
    BY <2>1, <2>2 DEF Init, TypeOK
<1>2. HoldsByPlace /\ StatusByPlace /\ NoSharing /\ RunningIsHeld /\ AskedIsPending
  BY DEF Init, HoldsByPlace, StatusByPlace, NoSharing, RunningIsHeld, AskedIsPending, NoRow, At
<1>. QED
  BY <1>1, <1>2 DEF IInv

(* A set of unlocked rows is deleted.                                       *)
LEMMA DeleteRowsIInv ==
    ASSUME IInv, NEW rows \in SUBSET JobIds, DeleteRows(rows),
           UNCHANGED <<worker, notified, notifying, deaths>>
    PROVE  IInv'
<1>. USE DEF IInv, DeleteRows, NoRow
<1>1. TypeOK'
  BY JobQueueAssumption DEF TypeOK, JobRow, Statuses, Waits
<1>2. HoldsByPlace' /\ NoSharing'
  BY DEF HoldsByPlace, NoSharing
<1>3. StatusByPlace'
  BY JobQueueAssumption DEF StatusByPlace, HoldsByPlace, Locked, Holds, TypeOK, WorkerState
<1>4. RunningIsHeld'
  BY DEF RunningIsHeld, Holds
<1>5. AskedIsPending'
  BY DEF AskedIsPending, PendingFor, Pending
<1>. QED
  BY <1>1, <1>2, <1>3, <1>4, <1>5

LEMMA CallerIInv == ASSUME IInv, CallerStep PROVE IInv'
<1>. USE DEF IInv
<1>1. ASSUME NEW k \in Keys, EnqueueDuplicate(k) PROVE IInv'
  BY <1>1 DEF EnqueueDuplicate, TypeOK, HoldsByPlace, StatusByPlace, NoSharing,
     RunningIsHeld, Holds, AskedIsPending, PendingFor, Pending
<1>2. ASSUME NEW k \in Keys, NEW j \in JobIds, EnqueueNew(k, j) PROVE IInv'
  <2>1. TypeOK'
    BY <1>2, JobQueueAssumption DEF EnqueueNew, TypeOK, JobRow, Statuses, Waits
  <2>2. HoldsByPlace' /\ NoSharing'
    BY <1>2 DEF EnqueueNew, HoldsByPlace, NoSharing
  <2>3. StatusByPlace'
    BY <1>2 DEF EnqueueNew, Fresh, Holds, StatusByPlace, TypeOK
  <2>4. RunningIsHeld'
    BY <1>2 DEF EnqueueNew, RunningIsHeld, Holds, TypeOK
  <2>5. AskedIsPending'
    BY <1>2 DEF EnqueueNew, Fresh, AskedIsPending, PendingFor, Pending, TypeOK
  <2>. QED
    BY <2>1, <2>2, <2>3, <2>4, <2>5
<1>3. CASE Notify \/ NotifyLost
  <2>1. UNCHANGED <<jobs, worker, deaths, asked, abandoned>> /\ notifying' \in BOOLEAN
    BY <1>3 DEF Notify, NotifyLost
  <2>2. notified' \in [Workers -> BOOLEAN]
    BY <1>3, Zenon DEF Notify, NotifyLost, TypeOK
  <2>. QED
    BY <2>1, <2>2 DEF TypeOK, HoldsByPlace, StatusByPlace, NoSharing,
       RunningIsHeld, Holds, AskedIsPending, PendingFor, Pending
<1>4. ASSUME NEW r \in Repos, NEW p \in Packages, ArchivePackage(r, p) PROVE IInv'
  BY <1>4, DeleteRowsIInv DEF ArchivePackage
<1>5. ASSUME NEW u \in Upstreams, DeleteUpstream(u) PROVE IInv'
  BY <1>5, DeleteRowsIInv, OfUpstream(u) \in SUBSET JobIds DEF DeleteUpstream, OfUpstream
<1>6. ASSUME NEW r \in Repos, DeleteRepo(r) PROVE IInv'
  BY <1>6, DeleteRowsIInv DEF DeleteRepo
<1>. QED
  BY <1>1, <1>2, <1>3, <1>4, <1>5, <1>6 DEF CallerStep

(* A worker that holds no job, and still holds none after the step.         *)
LEMMA IdleMoveIInv ==
    ASSUME IInv, NEW w \in Workers, worker[w].job = NoJob,
           NEW place \in Places, place \notin {"claiming", "running", "ended"},
           worker' = [worker EXCEPT ![w] = At(place)],
           notified' \in [Workers -> BOOLEAN], deaths' \in 0 .. MaxDeaths,
           UNCHANGED <<jobs, notifying, asked, abandoned>>
    PROVE  IInv'
<1>. USE DEF IInv, At
<1>1. TypeOK'
  BY DEF TypeOK, WorkerState
<1>2. HoldsByPlace' /\ StatusByPlace' /\ NoSharing'
  BY DEF HoldsByPlace, StatusByPlace, NoSharing, TypeOK
<1>3. RunningIsHeld'
  BY JobQueueAssumption DEF RunningIsHeld, Holds, TypeOK
<1>4. AskedIsPending'
  BY DEF AskedIsPending, PendingFor, Pending
<1>. QED
  BY <1>1, <1>2, <1>3, <1>4

LEMMA ClaimIInv == ASSUME IInv, NEW w \in Workers, Claim(w) PROVE IInv'
<1>. USE DEF IInv
<1>1. ASSUME NEW j \in JobIds, ClaimSelect(w, j) PROVE IInv'
  <2>1. TypeOK'
    BY <1>1 DEF ClaimSelect, At, TypeOK, WorkerState, Places
  <2>2. HoldsByPlace'
    BY <1>1, JobQueueAssumption DEF ClaimSelect, At, HoldsByPlace, TypeOK
  <2>3. StatusByPlace'
    BY <1>1 DEF ClaimSelect, At, Eligible, Pending, StatusByPlace, TypeOK
  <2>4. \A v \in Workers : worker[v].job # j
    BY <1>1, JobQueueAssumption DEF ClaimSelect, Eligible, Pending, Locked, Holds,
       StatusByPlace, HoldsByPlace
  <2>5. NoSharing'
    BY <1>1, <2>4 DEF ClaimSelect, At, NoSharing, TypeOK
  <2>6. RunningIsHeld'
    BY <1>1, JobQueueAssumption DEF ClaimSelect, At, RunningIsHeld, Holds, HoldsByPlace, TypeOK
  <2>7. AskedIsPending'
    BY <1>1 DEF ClaimSelect, AskedIsPending, PendingFor, Pending
  <2>. QED
    BY <2>1, <2>2, <2>3, <2>5, <2>6, <2>7
<1>2. CASE ClaimCommit(w)
  <2>0. worker[w].job \in JobIds
    BY <1>2 DEF ClaimCommit, HoldsByPlace, TypeOK, WorkerState
  <2>1. TypeOK'
    <3>1. jobs' \in [JobIds -> JobRow]
      BY <1>2, <2>0 DEF ClaimCommit, TypeOK, JobRow, Statuses
    <3>2. worker' \in [Workers -> WorkerState]
      BY <1>2 DEF ClaimCommit, TypeOK, WorkerState, Places
    <3>. QED
      BY <1>2, <3>1, <3>2 DEF ClaimCommit, TypeOK
  <2>2. HoldsByPlace' /\ NoSharing'
    BY <1>2 DEF ClaimCommit, HoldsByPlace, NoSharing, TypeOK, WorkerState
  <2>3. StatusByPlace'
    BY <1>2, <2>0 DEF ClaimCommit, StatusByPlace, HoldsByPlace, NoSharing, TypeOK, WorkerState
  <2>4. RunningIsHeld'
    BY <1>2, <2>0 DEF ClaimCommit, RunningIsHeld, Holds, TypeOK, WorkerState
  <2>5. AskedIsPending'
    BY <1>2, <2>0 DEF ClaimCommit, AskedIsPending, PendingFor, Pending, TypeOK
  <2>. QED
    BY <2>1, <2>2, <2>3, <2>4, <2>5
<1>3. CASE ClaimNone(w)
  <2>1. worker[w].job = NoJob /\ notified' \in [Workers -> BOOLEAN] /\ deaths' \in 0 .. MaxDeaths
    BY <1>3 DEF ClaimNone, HoldsByPlace, TypeOK
  <2>. QED
    BY <1>3, <2>1, IdleMoveIInv DEF ClaimNone, Places
<1>. QED
  BY <1>1, <1>2, <1>3 DEF Claim

(* A worker lets go of its ended job j, whose row ends in a status that is  *)
(* not running, or had been deleted.                                        *)
LEMMA ReleaseIInv ==
    ASSUME IInv, NEW w \in Workers, worker[w].at = "ended",
           NEW j, j = worker[w].job,
           NEW row \in JobRow, row.status \in {"pending", "ready", "failed", "absent"},
           row.key = jobs[j].key, row.status = "absent" => jobs[j].status = "absent",
           jobs' = [jobs EXCEPT ![j] = row],
           worker' = [worker EXCEPT ![w] = At("draining")],
           UNCHANGED <<notified, notifying, deaths, asked, abandoned>>
    PROVE  IInv'
<1>. USE DEF IInv, At
<1>1. j \in JobIds /\ jobs[j].status \in {"running", "absent"}
  BY DEF HoldsByPlace, StatusByPlace, TypeOK, WorkerState
<1>2. TypeOK'
  BY DEF TypeOK, WorkerState, Places
<1>3. HoldsByPlace' /\ NoSharing'
  BY DEF HoldsByPlace, NoSharing, TypeOK, WorkerState
<1>4. StatusByPlace'
  BY <1>1, JobQueueAssumption DEF StatusByPlace, HoldsByPlace, NoSharing, TypeOK, WorkerState
<1>5. RunningIsHeld'
  BY <1>1 DEF RunningIsHeld, Holds, TypeOK, WorkerState
<1>6. AskedIsPending'
  BY <1>1 DEF AskedIsPending, PendingFor, Pending, TypeOK
<1>. QED
  BY <1>2, <1>3, <1>4, <1>5, <1>6

LEMMA SettleIInv ==
    ASSUME IInv, NEW w \in Workers, NEW outcome, NEW status \in {"ready", "failed"},
           Settle(w, outcome, status)
    PROVE  IInv'
<1>. DEFINE j == worker[w].job
            row == IF jobs[j].status = "absent" THEN jobs[j]
                   ELSE [jobs[j] EXCEPT !.status = status]
<1>1. j \in JobIds /\ jobs[j] \in JobRow
  BY DEF Settle, IInv, HoldsByPlace, TypeOK, WorkerState
<1>2. /\ row \in JobRow
      /\ row.status \in {"pending", "ready", "failed", "absent"}
      /\ row.key = jobs[j].key
      /\ row.status = "absent" => jobs[j].status = "absent"
  BY <1>1 DEF JobRow, Statuses
<1>3. jobs' = [jobs EXCEPT ![j] = row]
  BY <1>1 DEF Settle, IInv, TypeOK
<1>. HIDE DEF row
<1>. QED
  BY <1>2, <1>3, ReleaseIInv DEF Settle

LEMMA RetryIInv == ASSUME IInv, NEW w \in Workers, RetryJob(w) PROVE IInv'
<1>. DEFINE j == worker[w].job
<1>1. j \in JobIds /\ jobs[j] \in JobRow
  BY DEF RetryJob, IInv, HoldsByPlace, TypeOK, WorkerState
<1>2. CASE jobs[j].status = "absent"
  <2>1. jobs' = [jobs EXCEPT ![j] = jobs[j]]
    BY <1>1, <1>2 DEF RetryJob, IInv, TypeOK
  <2>. QED
    BY <1>1, <1>2, <2>1, ReleaseIInv DEF RetryJob
<1>3. CASE jobs[j].status # "absent"
  <2>1. PICK backoff \in 1 .. MaxBackoff :
           jobs' = [jobs EXCEPT ![j].status = "pending", ![j].wait = backoff]
    BY <1>3 DEF RetryJob
  <2>. DEFINE row == [jobs[j] EXCEPT !.status = "pending", !.wait = backoff]
  <2>0. backoff \in Waits
    BY JobQueueAssumption DEF Waits
  <2>2. /\ row \in JobRow
        /\ row.status = "pending"
        /\ row.key = jobs[j].key
    BY <1>1, <2>0 DEF JobRow, Statuses
  <2>3. jobs' = [jobs EXCEPT ![j] = row]
    BY <1>1, <2>1 DEF IInv, TypeOK
  <2>. HIDE DEF row
  <2>. QED
    BY <2>2, <2>3, ReleaseIInv DEF RetryJob
<1>. QED
  BY <1>2, <1>3

LEMMA StopIInv ==
    ASSUME IInv, NEW w \in Workers, StopWith(w), deaths' \in 0 .. MaxDeaths,
           UNCHANGED <<jobs, notifying, asked>>
    PROVE  IInv'
<1>. USE DEF IInv, StopWith, At
<1>1. TypeOK'
  BY DEF TypeOK, WorkerState, Places, HoldsByPlace
<1>2. HoldsByPlace' /\ StatusByPlace' /\ NoSharing'
  BY DEF HoldsByPlace, StatusByPlace, NoSharing, TypeOK, WorkerState
<1>3. RunningIsHeld'
  BY JobQueueAssumption DEF RunningIsHeld, Holds, HoldsByPlace, StatusByPlace, TypeOK, WorkerState
<1>4. AskedIsPending'
  BY DEF AskedIsPending, PendingFor, Pending
<1>. QED
  BY <1>1, <1>2, <1>3, <1>4

LEMMA TickIInv == ASSUME IInv, Tick PROVE IInv'
<1>. USE DEF IInv, Tick
<1>. DEFINE Older(j) == {i \in JobIds : Pending(i) /\ jobs[i].wait < jobs[j].wait}
<1>1. \A j \in JobIds : Cardinality(Older(j)) \in Nat
  <2>1. \A j \in JobIds : Older(j) \in SUBSET JobIds
    OBVIOUS
  <2>. QED
    BY ONLY <2>1, JobQueueAssumption, FS_Subset, FS_CardinalityType
<1>2. ASSUME NEW j \in JobIds
      PROVE  jobs'[j] \in JobRow /\ jobs'[j].status = jobs[j].status
               /\ jobs'[j].key = jobs[j].key
  <2>1. jobs[j] \in JobRow /\ jobs[j].wait \in Waits
    BY DEF TypeOK, JobRow
  <2>2. jobs[j].wait > Cardinality(Older(j)) - MaxAge => jobs[j].wait - 1 \in Waits
    BY <1>1, <2>1, JobQueueAssumption DEF Waits
  <2>3. \/ jobs'[j] = jobs[j]
        \/ /\ jobs[j].wait - 1 \in Waits
           /\ jobs'[j] = [jobs[j] EXCEPT !.wait = @ - 1]
    BY <2>2
  <2>. QED
    BY <2>1, <2>3 DEF JobRow
<1>3. TypeOK'
  BY <1>2 DEF TypeOK
<1>4. HoldsByPlace' /\ NoSharing'
  BY DEF HoldsByPlace, NoSharing
<1>5. StatusByPlace'
  BY <1>2 DEF StatusByPlace, HoldsByPlace, TypeOK, WorkerState
<1>6. RunningIsHeld'
  BY <1>2 DEF RunningIsHeld, Holds
<1>7. AskedIsPending'
  BY <1>2 DEF AskedIsPending, PendingFor, Pending
<1>. QED
  BY <1>3, <1>4, <1>5, <1>6, <1>7

LEMMA WorkerIInv == ASSUME IInv, NEW w \in Workers, WorkerStep(w) PROVE IInv'
<1>1. CASE Claim(w)
  BY <1>1, ClaimIInv
<1>2. ASSUME NEW outcome \in Outcomes, RunJob(w, outcome) PROVE IInv'
  <2>. USE <1>2 DEF RunJob, IInv
  <2>1. TypeOK'
    BY DEF TypeOK, WorkerState, Places
  <2>2. HoldsByPlace' /\ NoSharing'
    BY DEF HoldsByPlace, NoSharing, TypeOK, WorkerState
  <2>3. StatusByPlace'
    BY DEF StatusByPlace, TypeOK, WorkerState
  <2>4. RunningIsHeld'
    BY DEF RunningIsHeld, Holds, TypeOK, WorkerState
  <2>5. AskedIsPending'
    BY DEF AskedIsPending, PendingFor, Pending
  <2>. QED
    BY <2>1, <2>2, <2>3, <2>4, <2>5
<1>3. CASE Finish(w)
  <2>1. CASE CompleteJob(w) \/ FailJob(w)
    BY <2>1, SettleIInv DEF CompleteJob, FailJob
  <2>2. CASE RetryJob(w)
    BY <2>2, RetryIInv
  <2>3. CASE RetryRefused(w)
    BY <2>3, StopIInv DEF RetryRefused, IInv, TypeOK
  <2>. QED
    BY <1>3, <2>1, <2>2, <2>3 DEF Finish
<1>4. CASE Die(w)
  BY <1>4, StopIInv, JobQueueAssumption DEF Die, IInv, TypeOK
<1>5. CASE Restart(w) \/ Wake(w) \/ Poll(w)
  <2>1. /\ worker[w].job = NoJob
        /\ notified' \in [Workers -> BOOLEAN]
        /\ deaths' \in 0 .. MaxDeaths
    BY <1>5 DEF Restart, Wake, Poll, IInv, HoldsByPlace, TypeOK
  <2>. QED
    BY <1>5, <2>1, IdleMoveIInv DEF Restart, Wake, Poll, Places
<1>. QED
  BY <1>1, <1>2, <1>3, <1>4, <1>5 DEF WorkerStep

LEMMA StutterIInv == ASSUME IInv, UNCHANGED vars PROVE IInv'
BY DEF vars, IInv, TypeOK, HoldsByPlace, StatusByPlace, NoSharing, RunningIsHeld,
   Holds, AskedIsPending, PendingFor, Pending

LEMMA IInvariant == Spec => []IInv
<1>1. IInv /\ [Next]_vars => IInv'
  BY CallerIInv, TickIInv, WorkerIInv, StutterIInv DEF Next
<1>. QED
  BY <1>1, InitIInv, PTL DEF Spec

(* The rows, workers and histories of every reachable state are well typed. *)
THEOREM TypeCorrect == Spec => []TypeOK
BY IInvariant, PTL DEF IInv

(* No two workers ever have the same job: FOR UPDATE SKIP LOCKED and the    *)
(* status it leads to are enough for mutual exclusion, with any number of   *)
(* workers that crash, restart and give jobs back.                          *)
THEOREM ClaimsExclude == Spec => []SingleClaimant
<1>1. IInv => SingleClaimant
  BY DEF IInv, HoldsByPlace, StatusByPlace, NoSharing, SingleClaimant, Holds
<1>. QED
  BY <1>1, IInvariant, PTL

(* An enqueue is never swallowed: until a run of its key starts, a pending  *)
(* row stands for it, or the row was cancelled with its package or owner.   *)
THEOREM EnqueueNotLost == Spec => []AskedIsPending
BY IInvariant, PTL DEF IInv

(* Only the death of its worker can leave a row in status running.          *)
THEOREM RunningAccounted == Spec => []RunningIsHeld
BY IInvariant, PTL DEF IInv

-----------------------------------------------------------------------------
(* That the queue is a set of waiting jobs.  A second invariant: the unique *)
(* index, which every insert and every retry has to respect, allows one     *)
(* pending row of a key; a row that is gone has no key, every other has     *)
(* one; and a run has a verdict exactly when it has ended.                  *)
OnePending ==
    \A i, j \in JobIds :
        Pending(i) /\ Pending(j) /\ jobs[i].key = jobs[j].key => i = j

RowsWhole ==
    \A j \in JobIds :
        IF jobs[j].status = "absent" THEN jobs[j].key = NoKey ELSE jobs[j].key \in Keys

VerdictByPlace ==
    \A w \in Workers :
        /\ worker[w].at \in {"claiming", "running"} => worker[w].outcome = "none"
        /\ worker[w].at = "ended" => worker[w].outcome \in Outcomes

QInv == OnePending /\ RowsWhole /\ VerdictByPlace

LEMMA InitQInv == Init => QInv
BY DEF Init, QInv, OnePending, RowsWhole, VerdictByPlace, Pending, NoRow, At

(* Workers move without touching a row: only verdicts matter.               *)
LEMMA RowsSameQInv ==
    ASSUME QInv, VerdictByPlace', UNCHANGED jobs
    PROVE  QInv'
BY DEF QInv, OnePending, RowsWhole, Pending

(* A worker that is sent to a place where it has no run.                    *)
LEMMA MoveVerdict ==
    ASSUME TypeOK, VerdictByPlace, NEW w \in Workers, NEW state,
           state.at \notin {"running", "ended"}, state.outcome = "none",
           worker' = [worker EXCEPT ![w] = state]
    PROVE  VerdictByPlace'
BY DEF VerdictByPlace, TypeOK

(* One row changes its status and keeps its key; pending only where no      *)
(* other row of the key is.                                                 *)
LEMMA StatusQInv ==
    ASSUME TypeOK, QInv, VerdictByPlace', NEW j \in JobIds, NEW row \in JobRow,
           jobs' = [jobs EXCEPT ![j] = row],
           row.key = jobs[j].key,
           row.status = "absent" <=> jobs[j].status = "absent",
           row.status = "pending" => jobs[j].status = "pending" \/ ~ Collides(j)
    PROVE  QInv'
<1>1. OnePending'
  BY DEF QInv, OnePending, Pending, Collides, TypeOK
<1>2. RowsWhole'
  BY DEF QInv, RowsWhole, TypeOK
<1>. QED
  BY <1>1, <1>2 DEF QInv

LEMMA DeleteRowsQInv ==
    ASSUME QInv, NEW rows \in SUBSET JobIds, DeleteRows(rows), UNCHANGED worker
    PROVE  QInv'
BY DEF QInv, OnePending, RowsWhole, VerdictByPlace, Pending, DeleteRows, NoRow

LEMMA CallerQInv == ASSUME IInv, QInv, CallerStep PROVE QInv'
<1>1. ASSUME NEW k \in Keys, EnqueueDuplicate(k) PROVE QInv'
  BY <1>1 DEF EnqueueDuplicate, QInv, OnePending, RowsWhole, VerdictByPlace, Pending
<1>2. ASSUME NEW k \in Keys, NEW j \in JobIds, EnqueueNew(k, j) PROVE QInv'
  <2>1. OnePending'
    BY <1>2 DEF EnqueueNew, PendingFor, Pending, QInv, OnePending, IInv, TypeOK
  <2>2. RowsWhole' /\ VerdictByPlace'
    BY <1>2 DEF EnqueueNew, QInv, RowsWhole, VerdictByPlace, IInv, TypeOK
  <2>. QED
    BY <2>1, <2>2 DEF QInv
<1>3. CASE Notify \/ NotifyLost
  BY <1>3 DEF Notify, NotifyLost, QInv, OnePending, RowsWhole, VerdictByPlace, Pending
<1>4. ASSUME NEW r \in Repos, NEW p \in Packages, ArchivePackage(r, p) PROVE QInv'
  BY <1>4, DeleteRowsQInv DEF ArchivePackage
<1>5. ASSUME NEW u \in Upstreams, DeleteUpstream(u) PROVE QInv'
  BY <1>5, DeleteRowsQInv, OfUpstream(u) \in SUBSET JobIds DEF DeleteUpstream, OfUpstream
<1>6. ASSUME NEW r \in Repos, DeleteRepo(r) PROVE QInv'
  BY <1>6, DeleteRowsQInv DEF DeleteRepo
<1>. QED
  BY <1>1, <1>2, <1>3, <1>4, <1>5, <1>6 DEF CallerStep

LEMMA WorkerQInv == ASSUME IInv, QInv, NEW w \in Workers, WorkerStep(w) PROVE QInv'
<1>. USE DEF IInv
<1>1. ASSUME NEW j \in JobIds, ClaimSelect(w, j) PROVE QInv'
  <2>. DEFINE state == [At("claiming") EXCEPT !.job = j]
  <2>1. state.at = "claiming" /\ state.outcome = "none"
    BY DEF At
  <2>2. worker' = [worker EXCEPT ![w] = state] /\ UNCHANGED jobs
    BY <1>1 DEF ClaimSelect
  <2>. HIDE DEF state
  <2>. QED
    BY <2>1, <2>2, MoveVerdict, RowsSameQInv DEF QInv
<1>2. CASE ClaimCommit(w)
  <2>. DEFINE j   == worker[w].job
              row == [jobs[j] EXCEPT !.status = "running"]
  <2>1. j \in JobIds /\ jobs[j] \in JobRow /\ jobs[j].status = "pending"
    BY <1>2 DEF ClaimCommit, HoldsByPlace, StatusByPlace, TypeOK, WorkerState
  <2>2. row \in JobRow /\ row.status = "running" /\ row.key = jobs[j].key
    BY <2>1 DEF JobRow, Statuses
  <2>3. jobs' = [jobs EXCEPT ![j] = row]
    BY <1>2, <2>1 DEF ClaimCommit, TypeOK
  <2>4. worker[w].outcome = "none"
    BY <1>2 DEF ClaimCommit, QInv, VerdictByPlace
  <2>5. VerdictByPlace'
    BY <1>2, <2>4 DEF ClaimCommit, QInv, VerdictByPlace, TypeOK
  <2>. HIDE DEF row
  <2>. QED
    BY <2>1, <2>2, <2>3, <2>5, StatusQInv
<1>3. CASE ClaimNone(w) \/ Restart(w) \/ Wake(w) \/ Poll(w)
  <2>1. PICK place \in {"draining", "waiting"} : worker' = [worker EXCEPT ![w] = At(place)]
    BY <1>3 DEF ClaimNone, Restart, Wake, Poll
  <2>2. At(place).at = place /\ At(place).outcome = "none"
    BY DEF At
  <2>3. UNCHANGED jobs
    BY <1>3 DEF ClaimNone, Restart, Wake, Poll
  <2>. QED
    BY <2>1, <2>2, <2>3, MoveVerdict, RowsSameQInv DEF QInv
<1>4. ASSUME NEW outcome \in Outcomes, RunJob(w, outcome) PROVE QInv'
  <2>1. VerdictByPlace'
    BY <1>4 DEF RunJob, QInv, VerdictByPlace, TypeOK
  <2>. QED
    BY <1>4, <2>1, RowsSameQInv DEF RunJob
<1>5. ASSUME NEW place \in {"draining", "dead"}, worker' = [worker EXCEPT ![w] = At(place)]
      PROVE  VerdictByPlace'
  <2>1. At(place).at = place /\ At(place).outcome = "none"
    BY DEF At
  <2>. QED
    BY <1>5, <2>1, MoveVerdict DEF QInv
<1>6. ASSUME NEW outcome, NEW status \in {"ready", "failed"}, Settle(w, outcome, status)
      PROVE  QInv'
  <2>. DEFINE j   == worker[w].job
              row == [jobs[j] EXCEPT !.status = status]
  <2>1. VerdictByPlace'
    BY <1>5, <1>6 DEF Settle
  <2>2. j \in JobIds /\ jobs[j] \in JobRow
    BY <1>6 DEF Settle, HoldsByPlace, TypeOK, WorkerState
  <2>3. CASE jobs[j].status = "absent"
    BY <1>6, <2>1, <2>3, RowsSameQInv DEF Settle
  <2>4. CASE jobs[j].status # "absent"
    <3>1. row \in JobRow /\ row.status = status /\ row.key = jobs[j].key
      BY <2>2 DEF JobRow, Statuses
    <3>2. jobs' = [jobs EXCEPT ![j] = row]
      BY <1>6, <2>2, <2>4 DEF Settle, TypeOK
    <3>. HIDE DEF row
    <3>. QED
      BY <2>1, <2>2, <2>4, <3>1, <3>2, StatusQInv
  <2>. QED
    BY <2>3, <2>4
<1>7. CASE RetryJob(w)
  <2>. DEFINE j == worker[w].job
  <2>1. VerdictByPlace'
    BY <1>5, <1>7 DEF RetryJob
  <2>2. j \in JobIds /\ jobs[j] \in JobRow
    BY <1>7 DEF RetryJob, HoldsByPlace, TypeOK, WorkerState
  <2>3. CASE jobs[j].status = "absent"
    BY <1>7, <2>1, <2>3, RowsSameQInv DEF RetryJob
  <2>4. CASE jobs[j].status # "absent"
    <3>1. PICK backoff \in 1 .. MaxBackoff :
             jobs' = [jobs EXCEPT ![j].status = "pending", ![j].wait = backoff]
      BY <1>7, <2>4 DEF RetryJob
    <3>. DEFINE row == [jobs[j] EXCEPT !.status = "pending", !.wait = backoff]
    <3>2. backoff \in Waits
      BY JobQueueAssumption DEF Waits
    <3>3. row \in JobRow /\ row.status = "pending" /\ row.key = jobs[j].key
      BY <2>2, <3>2 DEF JobRow, Statuses
    <3>4. jobs' = [jobs EXCEPT ![j] = row]
      BY <2>2, <3>1 DEF TypeOK
    <3>5. ~ Collides(j)
      BY <1>7, <2>4 DEF RetryJob
    <3>. HIDE DEF row
    <3>. QED
      BY <2>1, <2>2, <2>4, <3>3, <3>4, <3>5, StatusQInv
  <2>. QED
    BY <2>3, <2>4
<1>8. CASE RetryRefused(w) \/ Die(w)
  <2>1. worker' = [worker EXCEPT ![w] = At("dead")] /\ UNCHANGED jobs
    BY <1>8 DEF RetryRefused, Die, StopWith
  <2>. QED
    BY <1>5, <2>1, RowsSameQInv
<1>. QED
  BY <1>1, <1>2, <1>3, <1>4, <1>6, <1>7, <1>8
  DEF WorkerStep, Claim, Finish, CompleteJob, FailJob

LEMMA TickRows ==
    ASSUME Tick
    PROVE  \A j \in JobIds : jobs'[j].status = jobs[j].status /\ jobs'[j].key = jobs[j].key
BY DEF Tick

LEMMA TickQInv == ASSUME QInv, Tick PROVE QInv'
<1>1. UNCHANGED worker
  BY DEF Tick
<1>. QED
  BY <1>1, TickRows DEF QInv, OnePending, RowsWhole, VerdictByPlace, Pending

LEMMA QInvariant == Spec => [](IInv /\ QInv)
<1>1. IInv /\ QInv /\ [Next]_vars => QInv'
  <2>1. QInv /\ UNCHANGED vars => QInv'
    BY DEF vars, QInv, OnePending, RowsWhole, VerdictByPlace, Pending
  <2>. QED
    BY <2>1, CallerQInv, WorkerQInv, TickQInv DEF Next
<1>. QED
  BY <1>1, InitQInv, IInvariant, PTL DEF Spec

(* How a step shows in the set of waiting jobs and in the runs.             *)
QStep == [Queue!QueueNext]_(Queue!queueVars)

LEMMA QuietStep ==
    ASSUME UNCHANGED <<asked, deaths>>, Runs' = Runs, PendingKeys' = PendingKeys
    PROVE  QStep
BY DEF QStep, Queue!queueVars

(* The same rows are pending, with the same keys.                           *)
LEMMA PendingSame ==
    ASSUME \A j \in JobIds : jobs'[j].key = jobs[j].key,
           \A j \in JobIds : Pending(j)' <=> Pending(j)
    PROVE  PendingKeys' = PendingKeys
<1>1. \A k \in Keys : PendingFor(k)' <=> PendingFor(k)
  BY DEF PendingFor
<1>. QED
  BY <1>1 DEF PendingKeys

LEMMA RunsSame ==
    ASSUME \A v \in Workers : RunOf(v)' = RunOf(v)
    PROVE  Runs' = Runs
BY DEF Runs

(* Only worker w moves, and the rows the others have keep their keys.       *)
LEMMA RunsMove ==
    ASSUME NEW w \in Workers, NEW state, TypeOK,
           worker' = [worker EXCEPT ![w] = state],
           \A j \in JobIds : jobs'[j].key = jobs[j].key,
           HoldsByPlace
    PROVE  /\ RunOf(w)' = IF state.at \in {"running", "ended"}
                          THEN [job |-> jobs'[state.job].key, verdict |-> state.outcome]
                          ELSE Queue!Resting
           /\ Runs' = [Runs EXCEPT ![w] = RunOf(w)']
<1>1. worker'[w] = state /\ \A v \in Workers \ {w} : worker'[v] = worker[v]
  BY DEF TypeOK
<1>2. RunOf(w)' = IF state.at \in {"running", "ended"}
                  THEN [job |-> jobs'[state.job].key, verdict |-> state.outcome]
                  ELSE Queue!Resting
  BY <1>1 DEF RunOf, Queue!Resting
<1>3. \A v \in Workers \ {w} : RunOf(v)' = RunOf(v)
  BY <1>1 DEF RunOf, HoldsByPlace, TypeOK, WorkerState
<1>4. Runs' = [Runs EXCEPT ![w] = RunOf(w)']
  BY <1>3 DEF Runs
<1>. QED
  BY <1>2, <1>4

LEMMA RunsAt == ASSUME NEW w \in Workers PROVE Runs[w] = RunOf(w)
BY DEF Runs

LEMMA NoKeyIsNone == NoKey \notin Keys
BY DEF NoKey, Keys, UpstreamKeys, PackageKeys, ClosureKeys

(* An enqueue asks, whether it inserts or meets a row.                      *)
LEMMA AskMaps ==
    ASSUME IInv, QInv, NEW k \in Keys,
           EnqueueDuplicate(k) \/ \E j \in JobIds : EnqueueNew(k, j)
    PROVE  QStep
<1>1. asked' = asked \union {k} /\ UNCHANGED deaths
  BY DEF EnqueueDuplicate, EnqueueNew
<1>2. CASE EnqueueDuplicate(k)
  <2>1. PendingKeys' = PendingKeys \union {k}
    BY <1>2 DEF EnqueueDuplicate, PendingKeys, PendingFor, Pending
  <2>2. Runs' = Runs
    BY <1>2, RunsSame DEF EnqueueDuplicate, RunOf
  <2>. QED
    BY <1>1, <2>1, <2>2 DEF QStep, Queue!QueueNext, Queue!Ask
<1>3. ASSUME NEW j \in JobIds, EnqueueNew(k, j) PROVE QStep
  <2>1. PendingKeys' = PendingKeys \union {k}
    BY <1>3 DEF EnqueueNew, Fresh, PendingKeys, PendingFor, Pending, IInv, TypeOK
  <2>2. \A v \in Workers : RunOf(v)' = RunOf(v)
    BY <1>3 DEF EnqueueNew, Fresh, Holds, RunOf, IInv, TypeOK
  <2>3. Runs' = Runs
    BY <2>2, RunsSame
  <2>. QED
    BY <1>1, <2>1, <2>3 DEF QStep, Queue!QueueNext, Queue!Ask
<1>. QED
  BY <1>2, <1>3

(* Rows that go are, of the pending ones, those of some keys.               *)
LEMMA DeletedKeys ==
    ASSUME IInv, NEW rows \in SUBSET JobIds, DeleteRows(rows), NEW some \in SUBSET Keys,
           \A j \in JobIds : Pending(j) => (j \in rows <=> jobs[j].key \in some)
    PROVE  asked' = asked \ some /\ PendingKeys' = PendingKeys \ some
<1>1. asked' = asked \ some
  BY DEF DeleteRows, IInv, AskedIsPending, PendingFor
<1>2. \A j \in JobIds : Pending(j)' <=> Pending(j) /\ jobs[j].key \notin some
  BY DEF DeleteRows, Pending, NoRow
<1>3. \A j \in JobIds : Pending(j)' => jobs'[j] = jobs[j]
  BY DEF DeleteRows, Pending, NoRow
<1>4. PendingKeys' = PendingKeys \ some
  BY <1>2, <1>3 DEF PendingKeys, PendingFor
<1>. QED
  BY <1>1, <1>4

LEMMA CancelMaps ==
    ASSUME IInv, QInv, NEW r \in Repos, NEW p \in Packages, ArchivePackage(r, p)
    PROVE  QStep
<1>. DEFINE cancelled == {j \in JobIds :
                /\ Pending(j)
                /\ jobs[j].key.kind = "mirror_package"
                /\ jobs[j].key.package = p
                /\ RepoOf[jobs[j].key.upstream] = r}
            some == {k \in PackageKeys : k.package = p /\ RepoOf[k.upstream] = r}
<1>1. DeleteRows(cancelled) /\ UNCHANGED <<worker, deaths>>
  BY DEF ArchivePackage
<1>2. ASSUME NEW j \in JobIds, Pending(j) PROVE j \in cancelled <=> jobs[j].key \in some
  <2>1. jobs[j].key \in Keys
    BY <1>2 DEF QInv, RowsWhole, Pending
  <2>. QED
    BY <1>2, <2>1 DEF Keys, UpstreamKeys, PackageKeys, ClosureKeys
<1>3. some \in SUBSET Keys
  BY DEF Keys
<1>4. asked' = asked \ some /\ PendingKeys' = PendingKeys \ some
  <2>. HIDE DEF some, cancelled
  <2>1. cancelled \in SUBSET JobIds
    BY DEF cancelled
  <2>. QED
    BY <1>1, <1>2, <1>3, <2>1, DeletedKeys
<1>5. \A v \in Workers : RunOf(v)' = RunOf(v)
  <2>1. \A j \in JobIds : j \in cancelled => jobs[j].status = "pending"
    BY DEF Pending
  <2>2. \A j \in JobIds : jobs[j].status # "pending" => jobs'[j] = jobs[j]
    BY <1>1, <2>1 DEF DeleteRows
  <2>. QED
    BY <1>1, <2>2 DEF RunOf, IInv, TypeOK, WorkerState, HoldsByPlace, StatusByPlace
<1>6. Runs' = Runs
  BY <1>5, RunsSame
<1>. QED
  BY <1>1, <1>3, <1>4, <1>6 DEF QStep, Queue!QueueNext, Queue!Cancel

(* All rows of some keys go, whatever their status.                         *)
LEMMA WithdrawMaps ==
    ASSUME IInv, QInv, NEW rows \in SUBSET JobIds, DeleteRows(rows),
           UNCHANGED <<worker, deaths>>, NEW some \in SUBSET Keys,
           \A j \in JobIds : j \in rows <=> jobs[j].key \in some
    PROVE  QStep
<1>1. asked' = asked \ some /\ PendingKeys' = PendingKeys \ some
  BY DeletedKeys
<1>2. ASSUME NEW v \in Workers
      PROVE  RunOf(v)' = IF RunOf(v).job \in some
                         THEN [RunOf(v) EXCEPT !.job = NoKey] ELSE RunOf(v)
  <2>. DEFINE j == worker[v].job
  <2>1. CASE worker[v].at \in {"running", "ended"}
    <3>1. j \in JobIds
      BY <2>1 DEF IInv, TypeOK, WorkerState, HoldsByPlace
    <3>2. jobs'[j].key = IF jobs[j].key \in some THEN NoKey ELSE jobs[j].key
      BY <3>1 DEF DeleteRows, NoRow
    <3>. QED
      BY <2>1, <3>2 DEF RunOf
  <2>2. CASE worker[v].at \notin {"running", "ended"}
    BY <2>2, NoKeyIsNone DEF RunOf
  <2>. QED
    BY <2>1, <2>2
<1>3. Runs' = [v \in Workers |-> IF Runs[v].job \in some
                                 THEN [Runs[v] EXCEPT !.job = NoKey] ELSE Runs[v]]
  BY <1>2 DEF Runs
<1>. QED
  BY <1>1, <1>3 DEF QStep, Queue!QueueNext, Queue!Withdraw

DeleteUpstreamKeys(u) == {k \in UpstreamKeys \union PackageKeys : k.upstream = u}

LEMMA DeleteMaps ==
    ASSUME IInv, QInv,
           (\E u \in Upstreams : DeleteUpstream(u)) \/ \E r \in Repos : DeleteRepo(r)
    PROVE  QStep
<1>1. \A j \in JobIds : jobs[j].key \in Keys \union {NoKey}
  BY DEF QInv, RowsWhole
<1>2. \A u \in Upstreams, j \in JobIds :
        j \in OfUpstream(u) <=> jobs[j].key \in DeleteUpstreamKeys(u)
  BY DEF OfUpstream, DeleteUpstreamKeys
<1>3. ASSUME NEW u \in Upstreams, DeleteUpstream(u) PROVE QStep
  <2>1. DeleteUpstreamKeys(u) \in SUBSET Keys
    BY DEF DeleteUpstreamKeys, Keys
  <2>2. OfUpstream(u) \in SUBSET JobIds
    BY DEF OfUpstream
  <2>. QED
    BY <1>2, <1>3, <2>1, <2>2, WithdrawMaps DEF DeleteUpstream
<1>4. ASSUME NEW r \in Repos, DeleteRepo(r) PROVE QStep
  <2>. DEFINE own  == [kind |-> "resolve_closure", repo |-> r]
              rows == {j \in JobIds :
                  \/ \E u \in Upstreams : RepoOf[u] = r /\ j \in OfUpstream(u)
                  \/ jobs[j].key = own}
              some == {k \in Keys : \/ \E u \in Upstreams : RepoOf[u] = r /\ k \in DeleteUpstreamKeys(u)
                                    \/ k = own}
  <2>1. some \in SUBSET Keys
    OBVIOUS
  <2>2. \A j \in JobIds : j \in rows <=> jobs[j].key \in some
    <3>1. own \in Keys
      BY DEF Keys, ClosureKeys
    <3>2. \A u \in Upstreams : DeleteUpstreamKeys(u) \subseteq Keys
      BY DEF DeleteUpstreamKeys, Keys
    <3>. HIDE DEF own
    <3>. QED
      BY <1>2, <3>1, <3>2
  <2>3. DeleteRows(rows) /\ UNCHANGED <<worker, deaths>>
    BY <1>4 DEF DeleteRepo
  <2>. HIDE DEF some
  <2>. QED
    BY <2>1, <2>2, <2>3, WithdrawMaps
<1>. QED
  BY <1>3, <1>4

(* A worker that moves between places where it runs nothing shows nothing.  *)
LEMMA RestMaps ==
    ASSUME IInv, NEW w \in Workers, NEW state, worker' = [worker EXCEPT ![w] = state],
           worker[w].at \notin {"running", "ended"}, state.at \notin {"running", "ended"},
           UNCHANGED <<jobs, asked>>, deaths' = deaths \/ deaths' = deaths + 1
    PROVE  QStep
<1>1. PendingKeys' = PendingKeys
  BY DEF PendingKeys, PendingFor, Pending
<1>2. RunOf(w)' = Queue!Resting /\ Runs' = [Runs EXCEPT ![w] = Queue!Resting]
  BY RunsMove DEF IInv
<1>3. Runs[w] = Queue!Resting
  BY RunsAt DEF RunOf, Queue!Resting
<1>4. CASE deaths' = deaths
  <2>1. Runs' = Runs
    BY <1>2, <1>3 DEF Runs
  <2>. QED
    BY <1>1, <1>4, <2>1, QuietStep
<1>5. CASE deaths' = deaths + 1
  BY <1>1, <1>2, <1>5 DEF QStep, Queue!QueueNext, Queue!Die
<1>. QED
  BY <1>4, <1>5

(* The commit of a claim takes the job: no other row of its key is pending. *)
LEMMA CommitMaps == ASSUME IInv, QInv, NEW w \in Workers, ClaimCommit(w) PROVE QStep
<1>. DEFINE j == worker[w].job
            k == jobs[j].key
            state == [worker[w] EXCEPT !.at = "running"]
<1>1. /\ j \in JobIds /\ jobs[j].status = "pending"
      /\ worker[w] \in WorkerState /\ worker[w].outcome = "none"
  BY DEF ClaimCommit, IInv, HoldsByPlace, StatusByPlace, TypeOK, WorkerState, QInv, VerdictByPlace
<1>2. k \in Keys
  BY <1>1 DEF QInv, RowsWhole
<1>3. /\ \A i \in JobIds : jobs'[i].key = jobs[i].key
      /\ jobs'[j].status = "running"
      /\ \A i \in JobIds \ {j} : jobs'[i].status = jobs[i].status
  BY <1>1 DEF ClaimCommit, IInv, TypeOK, JobRow
<1>4. \A x \in Keys : PendingFor(x)' <=> PendingFor(x) /\ x # k
  BY <1>1, <1>3 DEF PendingFor, Pending, QInv, OnePending
<1>5. PendingKeys' = PendingKeys \ {k} /\ k \in PendingKeys
  BY <1>1, <1>2, <1>4 DEF PendingKeys, PendingFor, Pending
<1>6. worker' = [worker EXCEPT ![w] = state]
  BY <1>1 DEF ClaimCommit, IInv, TypeOK
<1>7. state.at = "running" /\ state.job = j /\ state.outcome = "none"
  BY <1>1 DEF WorkerState
<1>8. Runs' = [Runs EXCEPT ![w] = [job |-> k, verdict |-> "none"]]
  <2>. HIDE DEF state
  <2>1. RunOf(w)' = [job |-> k, verdict |-> "none"] /\ Runs' = [Runs EXCEPT ![w] = RunOf(w)']
    <3>1. jobs'[j].key = k
      BY <1>1, <1>3
    <3>2. \A i \in JobIds : jobs'[i].key = jobs[i].key
      BY <1>3
    <3>. HIDE DEF k
    <3>. QED
      BY <1>6, <1>7, <3>1, <3>2, RunsMove DEF IInv
  <2>. QED
    BY <2>1
<1>9. Runs[w] = Queue!Resting
  BY RunsAt DEF ClaimCommit, RunOf, Queue!Resting
<1>10. asked' = asked \ {k} /\ UNCHANGED deaths
  BY DEF ClaimCommit
<1>. HIDE DEF k
<1>. QED
  BY <1>2, <1>5, <1>8, <1>9, <1>10 DEF QStep, Queue!QueueNext, Queue!Take

LEMMA RunMaps ==
    ASSUME IInv, QInv, NEW w \in Workers, NEW outcome \in Outcomes, RunJob(w, outcome)
    PROVE  QStep
<1>. DEFINE state == [worker[w] EXCEPT !.at = "ended", !.outcome = outcome]
<1>1. worker[w] \in WorkerState /\ worker[w].job \in JobIds /\ worker[w].outcome = "none"
  BY DEF RunJob, IInv, HoldsByPlace, TypeOK, WorkerState, QInv, VerdictByPlace
<1>2. worker' = [worker EXCEPT ![w] = state]
  BY <1>1 DEF RunJob, IInv, TypeOK, WorkerState
<1>3. state.at = "ended" /\ state.job = worker[w].job /\ state.outcome = outcome
  BY <1>1 DEF WorkerState
<1>4. Runs[w] = [job |-> jobs[worker[w].job].key, verdict |-> "none"]
  BY <1>1, RunsAt DEF RunJob, RunOf
<1>5. /\ RunOf(w)' = [job |-> jobs[worker[w].job].key, verdict |-> outcome]
      /\ Runs' = [Runs EXCEPT ![w] = RunOf(w)']
  <2>. HIDE DEF state
  <2>. QED
    BY <1>2, <1>3, RunsMove DEF RunJob, IInv
<1>6. Runs' = [Runs EXCEPT ![w].verdict = outcome]
  <2>1. [Runs[w] EXCEPT !.verdict = outcome] = RunOf(w)'
    BY <1>4, <1>5
  <2>. QED
    BY <1>5, <2>1
<1>7. PendingKeys' = PendingKeys /\ UNCHANGED <<asked, deaths>>
  BY DEF RunJob, PendingKeys, PendingFor, Pending
<1>8. Runs[w].verdict = "none"
  BY <1>4
<1>. HIDE DEF state
<1>. QED
  BY <1>6, <1>7, <1>8 DEF QStep, Queue!QueueNext, Queue!Finish

(* A job whose outcome is recorded, or lost, is let go of.                  *)
LEMMA LetGo ==
    ASSUME IInv, QInv, NEW w \in Workers, NEW place \in {"draining", "dead"},
           worker' = [worker EXCEPT ![w] = At(place)],
           \A j \in JobIds : jobs'[j].key = jobs[j].key
    PROVE  Runs' = [Runs EXCEPT ![w] = Queue!Resting]
<1>1. At(place).at = place
  BY DEF At
<1>2. RunOf(w)' = Queue!Resting /\ Runs' = [Runs EXCEPT ![w] = RunOf(w)']
  BY <1>1, RunsMove DEF IInv
<1>. QED
  BY <1>2

LEMMA EndedRun ==
    ASSUME IInv, NEW w \in Workers, worker[w].at = "ended"
    PROVE  /\ Runs[w] = [job |-> jobs[worker[w].job].key, verdict |-> worker[w].outcome]
           /\ worker[w].job \in JobIds
           /\ jobs[worker[w].job].status \in {"running", "absent"}
BY RunsAt DEF IInv, HoldsByPlace, StatusByPlace, TypeOK, WorkerState, RunOf

(* A row whose status is written.                                           *)
LEMMA StatusWritten ==
    ASSUME TypeOK, NEW j \in JobIds, NEW status,
           \/ jobs' = [jobs EXCEPT ![j].status = status]
           \/ \E wait \in Int : jobs' = [jobs EXCEPT ![j].status = status, ![j].wait = wait]
    PROVE  /\ jobs'[j].status = status /\ jobs'[j].key = jobs[j].key
           /\ \A i \in JobIds \ {j} : jobs'[i] = jobs[i]
<1>1. jobs[j] \in JobRow
  BY DEF TypeOK
<1>2. CASE jobs' = [jobs EXCEPT ![j].status = status]
  <2>. DEFINE row == [jobs[j] EXCEPT !.status = status]
  <2>1. row.status = status /\ row.key = jobs[j].key
    BY <1>1 DEF JobRow
  <2>2. jobs' = [jobs EXCEPT ![j] = row]
    BY <1>1, <1>2 DEF TypeOK
  <2>. HIDE DEF row
  <2>. QED
    BY <2>1, <2>2 DEF TypeOK
<1>3. ASSUME NEW wait \in Int, jobs' = [jobs EXCEPT ![j].status = status, ![j].wait = wait]
      PROVE  /\ jobs'[j].status = status /\ jobs'[j].key = jobs[j].key
             /\ \A i \in JobIds \ {j} : jobs'[i] = jobs[i]
  <2>. DEFINE row == [jobs[j] EXCEPT !.status = status, !.wait = wait]
  <2>1. row.status = status /\ row.key = jobs[j].key
    BY <1>1 DEF JobRow
  <2>2. jobs' = [jobs EXCEPT ![j] = row]
    BY <1>1, <1>3 DEF TypeOK
  <2>. HIDE DEF row
  <2>. QED
    BY <2>1, <2>2 DEF TypeOK
<1>. QED
  BY <1>2, <1>3

LEMMA SettleMaps ==
    ASSUME IInv, QInv, NEW w \in Workers, NEW outcome \in {"ok", "terminal"},
           NEW status \in {"ready", "failed"}, Settle(w, outcome, status)
    PROVE  QStep
<1>. DEFINE j == worker[w].job
<1>1. Runs[w].verdict \in {"ok", "terminal"}
  <2>1. Runs[w] = [job |-> jobs[j].key, verdict |-> outcome]
    BY EndedRun DEF Settle
  <2>. QED
    BY <2>1
<1>2. j \in JobIds /\ jobs[j] \in JobRow /\ jobs[j].status \in {"running", "absent"}
  BY EndedRun DEF Settle, IInv, TypeOK
<1>3. \/ UNCHANGED jobs
      \/ /\ jobs'[j].status = status /\ jobs'[j].key = jobs[j].key
         /\ \A i \in JobIds \ {j} : jobs'[i] = jobs[i]
  BY <1>2, StatusWritten DEF Settle, IInv
<1>4. /\ \A i \in JobIds : jobs'[i].key = jobs[i].key
      /\ \A i \in JobIds : Pending(i)' <=> Pending(i)
  BY <1>2, <1>3 DEF Pending
<1>5. PendingKeys' = PendingKeys
  BY <1>4, PendingSame
<1>6. Runs' = [Runs EXCEPT ![w] = Queue!Resting]
  BY <1>4, LetGo DEF Settle
<1>7. UNCHANGED <<asked, deaths>>
  BY DEF Settle
<1>. QED
  BY <1>1, <1>5, <1>6, <1>7 DEF QStep, Queue!QueueNext, Queue!Settle

(* What a retry writes: its own row's status and clock, and nothing else.   *)
LEMMA PutBack ==
    ASSUME TypeOK, NEW w \in Workers, NEW j \in JobIds, j = worker[w].job,
           RetryJob(w), jobs[j].status # "absent"
    PROVE  /\ jobs'[j].status = "pending" /\ jobs'[j].key = jobs[j].key
           /\ \A i \in JobIds \ {j} : jobs'[i] = jobs[i]
<1>1. PICK backoff \in 1 .. MaxBackoff :
         jobs' = [jobs EXCEPT ![j].status = "pending", ![j].wait = backoff]
  BY DEF RetryJob
<1>2. backoff \in Int
  BY <1>1, JobQueueAssumption
<1>3. \E wait \in Int : jobs' = [jobs EXCEPT ![j].status = "pending", ![j].wait = wait]
  BY <1>1, <1>2
<1>. QED
  BY <1>3, StatusWritten

(* A retry puts the job back, or finds an equal one where it would put it.  *)
LEMMA RetryMaps ==
    ASSUME IInv, QInv, NEW w \in Workers, RetryJob(w) \/ RetryRefused(w)
    PROVE  QStep
<1>. DEFINE j == worker[w].job
            k == jobs[j].key
<1>1. worker[w].at = "ended" /\ worker[w].outcome = "transient"
  BY DEF RetryJob, RetryRefused
<1>2. /\ j \in JobIds /\ jobs[j] \in JobRow /\ jobs[j].status \in {"running", "absent"}
      /\ Runs[w] = [job |-> k, verdict |-> "transient"]
  BY <1>1, EndedRun DEF IInv, TypeOK
<1>3. IF jobs[j].status = "absent" THEN k = NoKey ELSE k \in Keys
  BY <1>2 DEF QInv, RowsWhole
<1>4. UNCHANGED <<asked, deaths>>
  BY DEF RetryJob, RetryRefused, StopWith
<1>5. \A i \in JobIds : jobs'[i].key = jobs[i].key
  <2>1. CASE UNCHANGED jobs
    BY <2>1
  <2>2. CASE RetryJob(w) /\ jobs[j].status # "absent"
    BY <1>2, <2>2, PutBack DEF IInv
  <2>. QED
    BY <2>1, <2>2 DEF RetryJob, RetryRefused
<1>6. Runs' = [Runs EXCEPT ![w] = Queue!Resting]
  BY <1>5, LetGo DEF RetryJob, RetryRefused, StopWith
<1>7. PendingKeys' = PendingKeys \union ({k} \ {NoKey})
  <2>1. CASE jobs[j].status = "absent"
    <3>1. UNCHANGED jobs
      BY <2>1 DEF RetryJob, RetryRefused
    <3>2. PendingKeys' = PendingKeys
      BY <3>1 DEF PendingKeys, PendingFor, Pending
    <3>. QED
      BY <1>3, <2>1, <3>2
  <2>2. CASE jobs[j].status # "absent" /\ RetryJob(w)
    <3>1. /\ \A i \in JobIds \ {j} : jobs'[i] = jobs[i]
          /\ jobs'[j].status = "pending"
      BY <1>2, <2>2, PutBack DEF IInv
    <3>2. \A x \in Keys : PendingFor(x)' <=> PendingFor(x) \/ x = k
      BY <1>2, <1>5, <3>1 DEF PendingFor, Pending
    <3>3. k \in Keys /\ k # NoKey
      BY <1>3, <2>2, NoKeyIsNone
    <3>. HIDE DEF k
    <3>. QED
      BY <3>2, <3>3 DEF PendingKeys
  <2>3. CASE RetryRefused(w)
    <3>1. k \in PendingKeys
      BY <1>3, <2>3 DEF RetryRefused, Collides, PendingKeys, PendingFor
    <3>2. PendingKeys' = PendingKeys
      BY <2>3 DEF RetryRefused, PendingKeys, PendingFor, Pending
    <3>. QED
      BY <3>1, <3>2
  <2>. QED
    BY <2>1, <2>2, <2>3
<1>8. Runs[w].job = k /\ Runs[w].verdict = "transient"
  BY <1>2
<1>9. "transient" \in Outcomes \ {"ok", "terminal"}
  BY DEF Outcomes
<1>. HIDE DEF k
<1>. QED
  BY <1>4, <1>6, <1>7, <1>8, <1>9 DEF QStep, Queue!QueueNext, Queue!Retry

LEMMA DieMaps == ASSUME IInv, QInv, NEW w \in Workers, Die(w) PROVE QStep
<1>1. Runs' = [Runs EXCEPT ![w] = Queue!Resting]
  BY LetGo DEF Die, StopWith
<1>2. PendingKeys' = PendingKeys /\ asked' = asked /\ deaths' = deaths + 1
  BY DEF Die, PendingKeys, PendingFor, Pending
<1>. QED
  BY <1>1, <1>2 DEF QStep, Queue!QueueNext, Queue!Die

LEMMA WorkerMaps == ASSUME IInv, QInv, NEW w \in Workers, WorkerStep(w) PROVE QStep
<1>1. CASE ClaimCommit(w)
  BY <1>1, CommitMaps
<1>2. ASSUME NEW j \in JobIds, ClaimSelect(w, j) PROVE QStep
  <2>. DEFINE state == [At("claiming") EXCEPT !.job = j]
  <2>1. state.at = "claiming"
    BY DEF At
  <2>2. worker' = [worker EXCEPT ![w] = state]
    BY <1>2 DEF ClaimSelect
  <2>. HIDE DEF state
  <2>. QED
    BY <1>2, <2>1, <2>2, RestMaps DEF ClaimSelect
<1>3. CASE ClaimNone(w) \/ Restart(w) \/ Wake(w) \/ Poll(w)
  <2>1. PICK place \in {"draining", "waiting"} : worker' = [worker EXCEPT ![w] = At(place)]
    BY <1>3 DEF ClaimNone, Restart, Wake, Poll
  <2>2. At(place).at = place
    BY DEF At
  <2>3. worker[w].at \notin {"running", "ended"} /\ UNCHANGED <<jobs, asked, deaths>>
    BY <1>3 DEF ClaimNone, Restart, Wake, Poll
  <2>. QED
    BY <2>1, <2>2, <2>3, RestMaps
<1>4. ASSUME NEW outcome \in Outcomes, RunJob(w, outcome) PROVE QStep
  BY <1>4, RunMaps
<1>5. CASE CompleteJob(w) \/ FailJob(w)
  BY <1>5, SettleMaps DEF CompleteJob, FailJob
<1>6. CASE RetryJob(w) \/ RetryRefused(w)
  BY <1>6, RetryMaps
<1>7. CASE Die(w)
  BY <1>7, DieMaps
<1>. QED
  BY <1>1, <1>2, <1>3, <1>4, <1>5, <1>6, <1>7 DEF WorkerStep, Claim, Finish

(* The rows, the unique index, skipped locks, retries, lost NOTIFYs,        *)
(* deletions and deaths together do what one set of waiting jobs does.      *)
THEOREM Implements == Spec => ImplementsQueue
<1>1. Init => Queue!QueueInit
  <2>. SUFFICES ASSUME Init PROVE Queue!QueueInit
    OBVIOUS
  <2>1. PendingKeys = {}
    BY DEF Init, PendingKeys, PendingFor, Pending, NoRow
  <2>2. Runs = [w \in Workers |-> Queue!Resting]
    BY DEF Init, Runs, RunOf, At, Queue!Resting
  <2>. QED
    BY <2>1, <2>2 DEF Init, Queue!QueueInit
<1>2. IInv /\ QInv /\ [Next]_vars => [Queue!QueueNext]_(Queue!queueVars)
  <2>. SUFFICES ASSUME IInv, QInv, [Next]_vars PROVE QStep
    BY DEF QStep
  <2>1. CASE CallerStep
    <3>1. CASE Notify \/ NotifyLost \/ UNCHANGED <<jobs, worker, asked, deaths>>
      <4>1. UNCHANGED <<jobs, worker, asked, deaths>>
        BY <3>1 DEF Notify, NotifyLost
      <4>2. Runs' = Runs /\ PendingKeys' = PendingKeys
        BY <4>1 DEF Runs, RunOf, PendingKeys, PendingFor, Pending
      <4>. QED
        BY <4>1, <4>2, QuietStep
    <3>. QED
      BY <2>1, <3>1, AskMaps, CancelMaps, DeleteMaps DEF CallerStep
  <2>2. CASE Tick \/ UNCHANGED vars
    <3>1. /\ UNCHANGED <<worker, asked, deaths>>
          /\ \A j \in JobIds : jobs'[j].status = jobs[j].status /\ jobs'[j].key = jobs[j].key
      BY <2>2, TickRows DEF Tick, vars
    <3>2. \A v \in Workers : RunOf(v)' = RunOf(v)
      BY <3>1 DEF RunOf, IInv, HoldsByPlace, TypeOK, WorkerState
    <3>3. \A j \in JobIds : Pending(j)' <=> Pending(j)
      BY <3>1 DEF Pending
    <3>. QED
      BY <3>1, <3>2, <3>3, RunsSame, PendingSame, QuietStep
  <2>. QED
    BY <2>1, <2>2, WorkerMaps DEF Next
<1>. QED
  BY <1>1, <1>2, QInvariant, PTL DEF Spec, ImplementsQueue, Queue!QueueSpec
=============================================================================
