--------------------------- MODULE JobQueue_proofs ---------------------------
(***************************************************************************)
(* What JobQueue guarantees for any number of jobs and of restarts: a job  *)
(* has one executor at a time, is begun again only because of a crash, and *)
(* its status follows JobLifecycle.  Every proof rests on IInv.            *)
(***************************************************************************)
EXTENDS JobQueue, FiniteSetTheorems, TLAPS

-----------------------------------------------------------------------------
(* The inductive invariant.                                                *)

\* A process that is down has no threads, one that stops has no requests.
Drained ==
    /\ app # "up" => \A j \in Jobs : request[j] = "none"
    /\ app = "down" => runner = NoJob

\* Rows appear only for the ids that a request stamped.
RowsAreInserted ==
    \A j \in Jobs :
        /\ created[j] = 0 => status[j] = "absent" /\ request[j] = "none"
        /\ request[j] = "stamped" => status[j] = "absent"

AtWork(j) == request[j] = "executing" \/ runner = j

\* Whoever works on a job claimed it, nobody else did, and nobody left it.
RunningIsAtWork ==
    \A j \in Jobs :
        /\ AtWork(j) => status[j] = "running"
        /\ app # "down" /\ status[j] = "running" => AtWork(j)
        /\ ~(request[j] = "executing" /\ runner = j)

\* A job in the queue, or left running by a process that is down, has been begun
\* at most once per crash.
RunsAreCounted ==
    \A j \in Jobs :
        /\ runs[j] <= crashes + 1
        /\ status[j] = "absent" => runs[j] = 0
        /\ status[j] = "queued" => runs[j] <= crashes
        /\ status[j] = "running" /\ app = "down" => runs[j] <= crashes

IInv == TypeOK /\ Drained /\ RowsAreInserted /\ RunningIsAtWork /\ RunsAreCounted

-----------------------------------------------------------------------------
\* An empty table satisfies every conjunct.
LEMMA InitIInv == Init => IInv
  BY JobAssumption DEF Init, IInv, TypeOK, Drained, RowsAreInserted, RunningIsAtWork,
     RunsAreCounted, AtWork, Lifecycle!Statuses, Lifecycle!Terminal

\* Every step of a request, of the runner and of the process preserves IInv.
LEMMA NextIInv == IInv /\ [Next]_vars => IInv'
<1> SUFFICES ASSUME IInv, [Next]_vars PROVE IInv'
  OBVIOUS
<1> USE JobAssumption
    DEF IInv, TypeOK, Drained, RowsAreInserted, RunningIsAtWork, RunsAreCounted, AtWork,
        Lifecycle!Statuses, Lifecycle!Terminal
<1>1. ASSUME NEW j \in Jobs, Stamp(j) PROVE IInv'
  <2>1. Cardinality({k \in Jobs : created[k] > 0}) + 1 \in Nat \ {0}
    <3> DEFINE stamped == {k \in Jobs : created[k] > 0}
    <3>1. IsFiniteSet(Jobs) /\ stamped \subseteq Jobs
      OBVIOUS
    <3> HIDE DEF stamped
    <3>2. IsFiniteSet(stamped)
      BY <3>1, FS_Subset
    <3>3. Cardinality(stamped) \in Nat
      BY <3>2, FS_CardinalityType
    <3> QED
      BY <3>3 DEF stamped
  <2> QED
    BY <1>1, <2>1 DEF Stamp
<1>2. ASSUME NEW j \in Jobs, Insert(j) PROVE IInv'
  BY <1>2 DEF Insert
<1>3. ASSUME NEW j \in Jobs, ClaimJob(j) PROVE IInv'
  BY <1>3 DEF ClaimJob, Begin
<1>4. ASSUME NEW j \in Jobs, ClaimNextJob(j) PROVE IInv'
  BY <1>4 DEF ClaimNextJob, Begin, Queued
<1>5. ASSUME NEW j \in Jobs, FinishRequest(j) PROVE IInv'
  BY <1>5 DEF FinishRequest, UpdateJob, Terminal
<1>6. ASSUME NEW j \in Jobs, FinishRunner(j) PROVE IInv'
  BY <1>6 DEF FinishRunner, UpdateJob, Terminal
<1>7. CASE Stop
  BY <1>7 DEF Stop, table, memory
<1>8. CASE Exit
  BY <1>8 DEF Exit, table, memory
<1>9. CASE Crash
  BY <1>9 DEF Crash, table
<1>10. CASE Start
  BY <1>10 DEF Start, memory
<1>11. CASE UNCHANGED vars
  BY <1>11 DEF vars, table, memory
<1>12. QED
  BY <1>1, <1>2, <1>3, <1>4, <1>5, <1>6, <1>7, <1>8, <1>9, <1>10, <1>11 DEF Next, Work

\* The inductive invariant holds in every reachable state.
LEMMA Invariance == Spec => []IInv
  BY InitIInv, NextIInv, PTL DEF Spec

-----------------------------------------------------------------------------
(* The theorems.                                                           *)

\* Every variable keeps its type.
THEOREM TypeCorrect == Spec => []TypeOK
<1>1. IInv => TypeOK
  BY DEF IInv
<1> QED
  BY <1>1, Invariance, PTL

\* The atomic claims keep the background task of the request and the runner apart.
THEOREM OneExecutorAtATime == Spec => []OneExecutor
<1>1. IInv => OneExecutor
  <2> SUFFICES ASSUME IInv, app # "down", NEW j \in Jobs
               PROVE  IF status[j] = "running"
                      THEN \E e \in {"request", "runner"} : Executors(j) = {e}
                      ELSE Executors(j) = {}
    BY DEF OneExecutor
  <2>1. CASE status[j] = "running" /\ request[j] = "executing"
    <3>1. Executors(j) = {"request"}
      BY <2>1 DEF Executors, IInv, RunningIsAtWork
    <3> QED
      BY <2>1, <3>1
  <2>2. CASE status[j] = "running" /\ runner = j
    <3>1. Executors(j) = {"runner"}
      BY <2>2 DEF Executors, IInv, RunningIsAtWork
    <3> QED
      BY <2>2, <3>1
  <2>3. CASE status[j] # "running"
    BY <2>3 DEF Executors, IInv, RunningIsAtWork, AtWork
  <2> QED
    BY <2>1, <2>2, <2>3 DEF IInv, RunningIsAtWork, AtWork
<1> QED
  BY <1>1, Invariance, PTL

\* A job is begun once, and once more for each crash at most.
THEOREM RepetitionNeedsACrash == Spec => []RepeatedOnlyByCrashes
<1>1. IInv => RepeatedOnlyByCrashes
  BY DEF IInv, RunsAreCounted, RepeatedOnlyByCrashes
<1> QED
  BY <1>1, Invariance, PTL

\* The table, its two claimers and the restarts implement the promised life cycle.
THEOREM ImplementsLifecycle == Spec => RefinesLifecycle
<1>1. Init => Lifecycle!LifeInit
  BY DEF Init, Lifecycle!LifeInit
<1>2. ASSUME IInv, [Next]_vars PROVE [Lifecycle!LifeNext]_status
  <2> USE DEF Lifecycle!LifeNext, Lifecycle!Move
  <2>1. ASSUME NEW j \in Jobs, Insert(j) PROVE Lifecycle!Submit(j)
    BY <1>2, <2>1 DEF Insert, Lifecycle!Submit, IInv, RowsAreInserted
  <2>2. ASSUME NEW j \in Jobs, ClaimJob(j) PROVE Lifecycle!Begin(j) \/ UNCHANGED status
    BY <2>2 DEF ClaimJob, Begin, Lifecycle!Begin
  <2>3. ASSUME NEW j \in Jobs, ClaimNextJob(j) PROVE Lifecycle!Begin(j)
    BY <2>3 DEF ClaimNextJob, Begin, Queued, Lifecycle!Begin
  <2>4. ASSUME NEW j \in Jobs, FinishRequest(j) \/ FinishRunner(j) PROVE Lifecycle!Complete(j)
    BY <1>2, <2>4 DEF FinishRequest, FinishRunner, UpdateJob, Terminal,
       Lifecycle!Complete, IInv, RunningIsAtWork, AtWork
  <2>5. CASE Start
    BY <2>5 DEF Start, Lifecycle!Requeue
  <2>6. CASE Stop \/ Exit \/ Crash \/ UNCHANGED vars
    BY <2>6 DEF Stop, Exit, Crash, vars, table
  <2>7. ASSUME NEW j \in Jobs, Stamp(j) PROVE UNCHANGED status
    BY <2>7 DEF Stamp
  <2> QED
    BY <1>2, <2>1, <2>2, <2>3, <2>4, <2>5, <2>6, <2>7 DEF Next, Work
<1> QED
  BY <1>1, <1>2, Invariance, PTL DEF Spec, RefinesLifecycle, Lifecycle!LifeSpec
=============================================================================
