------------------------------ MODULE WorkQueue ------------------------------
(***************************************************************************)
(* What the job queue promises those who enqueue: one set of jobs waiting, *)
(* in which a request joins an equal one, from which a job is taken by one *)
(* taker at a time, and to which a failed job goes back unless its failure *)
(* is final, it was withdrawn, or its taker died with it.                  *)
(***************************************************************************)
EXTENDS Naturals

CONSTANTS
    Jobs,       \* what may be asked for
    Takers,
    Verdicts, Final,    \* how a run may end, and which ends are not retried
    Withdrawn   \* the job of a taker that has none any more, or never had

VARIABLES
    owed,       \* jobs asked for since a run of them last began
    waiting,    \* jobs that will be taken
    run,        \* what each taker has, and how it ended
    deaths      \* how often a taker died

queueVars == <<owed, waiting, run, deaths>>

Resting == [job |-> Withdrawn, verdict |-> "resting"]

QueueInit ==
    /\ owed = {}
    /\ waiting = {}
    /\ run = [t \in Takers |-> Resting]
    /\ deaths = 0

Ask(k) ==
    /\ owed' = owed \union {k}
    /\ waiting' = waiting \union {k}
    /\ UNCHANGED <<run, deaths>>

(* What waits is called off, and what runs goes on ...                      *)
Cancel(some) ==
    /\ owed' = owed \ some
    /\ waiting' = waiting \ some
    /\ UNCHANGED <<run, deaths>>

(* ... or is not wanted any more either.                                    *)
Withdraw(some) ==
    /\ owed' = owed \ some
    /\ waiting' = waiting \ some
    /\ run' = [t \in Takers |-> IF run[t].job \in some
                                THEN [run[t] EXCEPT !.job = Withdrawn] ELSE run[t]]
    /\ UNCHANGED deaths

Take(t, k) ==
    /\ run[t] = Resting
    /\ k \in waiting
    /\ waiting' = waiting \ {k}
    /\ owed' = owed \ {k}
    /\ run' = [run EXCEPT ![t] = [job |-> k, verdict |-> "none"]]
    /\ UNCHANGED deaths

Finish(t, verdict) ==
    /\ run[t].verdict = "none"
    /\ run' = [run EXCEPT ![t].verdict = verdict]
    /\ UNCHANGED <<owed, waiting, deaths>>

Settle(t) ==
    /\ run[t].verdict \in Final
    /\ run' = [run EXCEPT ![t] = Resting]
    /\ UNCHANGED <<owed, waiting, deaths>>

Retry(t) ==
    /\ run[t].verdict \in Verdicts \ Final
    /\ waiting' = waiting \union ({run[t].job} \ {Withdrawn})
    /\ run' = [run EXCEPT ![t] = Resting]
    /\ UNCHANGED <<owed, deaths>>

Die(t) ==
    /\ deaths' = deaths + 1
    /\ run' = [run EXCEPT ![t] = Resting]
    /\ UNCHANGED <<owed, waiting>>

QueueNext ==
    \/ \E k \in Jobs : Ask(k)
    \/ \E some \in SUBSET Jobs : Cancel(some) \/ Withdraw(some)
    \/ \E t \in Takers :
        \/ \E k \in Jobs : Take(t, k)
        \/ \E verdict \in Verdicts : Finish(t, verdict)
        \/ Settle(t) \/ Retry(t) \/ Die(t)

QueueSpec == QueueInit /\ [][QueueNext]_queueVars
=============================================================================
