---------------------------- MODULE JobLifecycle ----------------------------
(***************************************************************************)
(* What the durable job table promises to those who poll it: a job is      *)
(* queued once, is run, and ends; only an interruption sends jobs that     *)
(* were running back to the queue, and a job that ended stays as it is.    *)
(***************************************************************************)
CONSTANT Jobs

VARIABLE status

Terminal == {"succeeded", "failed"}
Statuses == {"absent", "queued", "running"} \cup Terminal

LifeInit == status = [j \in Jobs |-> "absent"]

Move(j, from, to) == status[j] = from /\ status' = [status EXCEPT ![j] = to]

Submit(j)    == Move(j, "absent", "queued")
Begin(j)     == Move(j, "queued", "running")
Complete(j)  == \E end \in Terminal : Move(j, "running", end)

\* Every running job at once: the process that ran them is gone.
Requeue == status' = [j \in Jobs |-> IF status[j] = "running" THEN "queued" ELSE status[j]]

LifeNext == Requeue \/ \E j \in Jobs : Submit(j) \/ Begin(j) \/ Complete(j)

LifeSpec == LifeInit /\ [][LifeNext]_status
=============================================================================
