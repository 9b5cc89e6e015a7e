------------------------------ MODULE JobQueue ------------------------------
(***************************************************************************)
(* Durable background jobs: the table platform_jobs and those who take     *)
(* jobs from it.  Each job has two executors competing for it: the         *)
(* background task of the request that submitted it (a worker thread that  *)
(* claims it by id) and the application's JobRunner (which claims the      *)
(* oldest queued job, one at a time).  The table survives the process; the *)
(* executors do not, and a process that starts requeues what was running.  *)
(*                                                                         *)
(* Every statement on the table runs in a transaction under the lock of    *)
(* the store, so each is one step.  What a job computes (an archive, a     *)
(* snapshot) reads the workspace and changes nothing in it; only whether   *)
(* it raises matters here.                                                 *)
(***************************************************************************)
EXTENDS Naturals, FiniteSets

CONSTANTS
    Jobs,       \* ids of the jobs that may be submitted
    NoJob,      \* the runner has no job
    MaxDowns    \* bound: times the process stops or dies

ASSUME JobAssumption == IsFiniteSet(Jobs) /\ NoJob \notin Jobs /\ MaxDowns \in Nat

VARIABLES
    status,     \* platform_jobs.status ("absent": no row)
    created,    \* platform_jobs.created_at, taken before the row is inserted
    error,      \* platform_jobs.error
    app,        \* the process: up, stopping (lifespan shutdown), down
    request,    \* the thread of the request that submits each job
    runner,     \* the job JobRunner.run executes
    downs,      \* how often the process went down
    crashes,    \* ghost: how often it went down with work in progress
    runs        \* ghost: how often each job was begun

table    == <<status, created, error>>
memory   == <<request, runner>>
vars     == <<table, app, memory, downs, crashes, runs>>

Lifecycle == INSTANCE JobLifecycle

Terminal == Lifecycle!Terminal

Queued == {j \in Jobs : status[j] = "queued"}

\* The executors at work on a job.
Executors(j) ==
    {e \in {"request", "runner"} : (e = "request" /\ request[j] = "executing")
                                \/ (e = "runner" /\ runner = j)}

-----------------------------------------------------------------------------
\* POST /jobs draws a new id and reads the clock, then inserts the row in a
\* transaction.
Stamp(j) ==
    /\ app = "up"
    /\ created[j] = 0
    /\ created' = [created EXCEPT ![j] =
                     Cardinality({k \in Jobs : created[k] > 0}) + 1]
    /\ request' = [request EXCEPT ![j] = "stamped"]
    /\ UNCHANGED <<status, error, app, runner, downs, crashes, runs>>

\* The row is there; the response is sent and the background task is scheduled.
Insert(j) ==
    /\ request[j] = "stamped"
    /\ status' = [status EXCEPT ![j] = "queued"]
    /\ request' = [request EXCEPT ![j] = "scheduled"]
    /\ UNCHANGED <<created, error, app, runner, downs, crashes, runs>>

Begin(j) ==
    /\ status' = [status EXCEPT ![j] = "running"]
    /\ error' = [error EXCEPT ![j] = "none"]
    /\ runs' = [runs EXCEPT ![j] = @ + 1]

\* Mutant: the claim does not look at the status.
ClaimJobAnyway(j) ==
    /\ request[j] = "scheduled"
    /\ Begin(j)
    /\ request' = [request EXCEPT ![j] = "executing"]
    /\ UNCHANGED <<created, app, runner, downs, crashes>>

\* The background task claims its job, unless somebody else did.
ClaimJob(j) ==
    /\ request[j] = "scheduled"
    /\ IF status[j] = "queued"
       THEN Begin(j) /\ request' = [request EXCEPT ![j] = "executing"]
       ELSE /\ request' = [request EXCEPT ![j] = "none"]
            /\ UNCHANGED <<status, error, runs>>
    /\ UNCHANGED <<created, app, runner, downs, crashes>>

\* The runner claims the oldest queued job, until it is told to stop.
ClaimNextJob(j) ==
    /\ app = "up"
    /\ runner = NoJob
    /\ j \in Queued
    /\ \A k \in Queued : created[j] <= created[k]
    /\ Begin(j)
    /\ runner' = j
    /\ UNCHANGED <<created, app, request, downs, crashes>>

\* Mutant: the terminal status is stored as the error.
UpdateJobError(j, end) ==
    /\ status' = [status EXCEPT ![j] = end]
    /\ error' = [error EXCEPT ![j] = end]

\* update_job() at the end of an execution does not look at the status.
UpdateJob(j, end) ==
    /\ status' = [status EXCEPT ![j] = end]
    /\ error' = [error EXCEPT ![j] = IF end = "failed" THEN "failure" ELSE "none"]

FinishRequest(j) ==
    /\ request[j] = "executing"
    /\ \E end \in Terminal : UpdateJob(j, end)
    /\ request' = [request EXCEPT ![j] = "none"]
    /\ UNCHANGED <<created, app, runner, downs, crashes, runs>>

FinishRunner(j) ==
    /\ runner = j
    /\ \E end \in Terminal : UpdateJob(j, end)
    /\ runner' = NoJob
    /\ UNCHANGED <<created, app, request, downs, crashes, runs>>

-----------------------------------------------------------------------------
\* The server drains its requests, then the lifespan handler stops the runner,
\* which still completes the job it has.
Stop ==
    /\ app = "up"
    /\ downs < MaxDowns
    /\ \A j \in Jobs : request[j] = "none"
    /\ app' = "stopping"
    /\ downs' = downs + 1
    /\ UNCHANGED <<table, memory, crashes, runs>>

\* Mutant: shutdown cancels the runner instead of awaiting it.
ExitAtOnce ==
    /\ app = "stopping"
    /\ app' = "down"
    /\ runner' = NoJob
    /\ UNCHANGED <<table, request, downs, crashes, runs>>

Exit ==
    /\ app = "stopping"
    /\ runner = NoJob
    /\ app' = "down"
    /\ UNCHANGED <<table, memory, downs, crashes, runs>>

\* The process dies, and with it the threads.
Crash ==
    /\ app \in {"up", "stopping"}
    /\ downs < MaxDowns
    /\ app' = "down"
    /\ downs' = downs + 1
    /\ crashes' = crashes + 1
    /\ request' = [j \in Jobs |-> "none"]
    /\ runner' = NoJob
    /\ UNCHANGED <<table, runs>>

\* Mutant: every row is requeued.
StartAllOver ==
    /\ app = "down"
    /\ app' = "up"
    /\ status' = [j \in Jobs |-> IF status[j] = "absent" THEN "absent" ELSE "queued"]
    /\ UNCHANGED <<created, error, memory, downs, crashes, runs>>

\* Mutant: nothing is requeued.
StartAsItIs ==
    /\ app = "down"
    /\ app' = "up"
    /\ UNCHANGED <<table, memory, downs, crashes, runs>>

\* Opening the store requeues the jobs that the last process left running.
Start ==
    /\ app = "down"
    /\ app' = "up"
    /\ status' = [j \in Jobs |-> IF status[j] = "running" THEN "queued" ELSE status[j]]
    /\ error' = [j \in Jobs |-> IF status[j] = "running" THEN "requeued" ELSE error[j]]
    /\ UNCHANGED <<created, memory, downs, crashes, runs>>

Init ==
    /\ status = [j \in Jobs |-> "absent"]
    /\ created = [j \in Jobs |-> 0]
    /\ error = [j \in Jobs |-> "none"]
    /\ app = "up"
    /\ request = [j \in Jobs |-> "none"]
    /\ runner = NoJob
    /\ downs = 0
    /\ crashes = 0
    /\ runs = [j \in Jobs |-> 0]

Work(j) ==
    \/ Insert(j) \/ ClaimJob(j) \/ ClaimNextJob(j)
    \/ FinishRequest(j) \/ FinishRunner(j)

Next ==
    \/ \E j \in Jobs : Stamp(j) \/ Work(j)
    \/ Stop \/ Exit \/ Crash \/ Start

Spec == Init /\ [][Next]_vars

\* The runner's loop keeps polling, threads run on, and jobs end.  Nothing obliges
\* a client to submit, the background task to beat the runner, or the operator to
\* stop or to start the process.
Fairness ==
    /\ WF_vars(\E j \in Jobs : ClaimNextJob(j))
    /\ \A j \in Jobs : WF_vars(FinishRequest(j)) /\ WF_vars(FinishRunner(j))

FairSpec == Spec /\ Fairness

-----------------------------------------------------------------------------
(* Properties.                                                             *)

TypeOK ==
    /\ status \in [Jobs -> Lifecycle!Statuses]
    /\ created \in [Jobs -> Nat]
    /\ error \in [Jobs -> {"none", "failure", "requeued"}]
    /\ app \in {"up", "stopping", "down"}
    /\ request \in [Jobs -> {"none", "stamped", "scheduled", "executing"}]
    /\ runner \in Jobs \cup {NoJob}
    /\ downs \in Nat
    /\ crashes \in Nat
    /\ runs \in [Jobs -> Nat]

\* While the process is up, a job is marked running exactly when one executor
\* works on it, and never two: the atomic claims of claim_job and claim_next_job
\* keep the background task and the runner apart.
OneExecutor ==
    app # "down" =>
        \A j \in Jobs :
            IF status[j] = "running" THEN \E e \in {"request", "runner"} : Executors(j) = {e}
                                     ELSE Executors(j) = {}

\* Polling clients see the promised life cycle; in particular a terminal status is
\* final although update_job writes it unconditionally.
RefinesLifecycle == Lifecycle!LifeSpec

\* A job is begun again only because the process died: graceful restarts requeue
\* nothing, and the two executors never both run it.
RepeatedOnlyByCrashes == \A j \in Jobs : runs[j] <= crashes + 1

\* Submitted work is done: in a process that stays up every queued job ends, the
\* ones that an earlier process left behind included.
QueuedJobsEnd ==
    \A j \in Jobs : status[j] \in {"queued", "running"}
                        ~> (status[j] \in Terminal \/ app # "up")
=============================================================================
