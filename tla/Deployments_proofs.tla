------------------------- MODULE Deployments_proofs -------------------------
(***************************************************************************)
(* What Deployments guarantees for any definitions, worker threads and     *)
(* bounds: the releases of scenario deployments obey the rules that stood  *)
(* while they were made, a rollback releases what its source pins, and     *)
(* scenario deployments keep the runtime at the last release.              *)
(***************************************************************************)
EXTENDS Deployments, TLAPS

-----------------------------------------------------------------------------
(* The inductive invariant.                                                *)

\* What a deployment has in hand at each of its steps.
TaskIsOfRevision ==
    /\ task.at # "idle" /\ task.kind = "scenario" =>
          task.revision \in DOMAIN revisions /\ task.mappings = revisions[task.revision]
    /\ task.at \in {"breaking", "approval", "record"} => task.revision \in DOMAIN revisions
    /\ task.at = "file" => task.kind = "scenario"
    /\ task.at \in {"state", "read"} => task.kind = "simulation"
    /\ task.at = "read" => revisions # << >>
    /\ task.at = "idle" => ~task.require /\ ~task.block

\* The source of a rollback is a release, and the rollback is of its revision.
TaskIsOfRelease ==
    task.source # 0 =>
        /\ task.kind = "scenario"
        /\ task.source \in DOMAIN releases
        /\ task.revision = releases[task.source].revision

\* A rule that stood since the start stands now.
RulesStand == (task.require => policy.require) /\ (task.block => policy.block)

\* A scenario deployment past a check of the gate obeys its rule.
GateIsPassed ==
    task.kind = "scenario" /\ task.source = 0 =>
        /\ task.at \in {"approval", "file", "runtime", "record"} /\ task.block
              => ~IsBreaking(task.revision)
        /\ task.at \in {"file", "runtime", "record"} /\ task.require
              => Approved(task.revision)

ReleasesAreOfRevisions == \A n \in DOMAIN releases : releases[n].revision \in DOMAIN revisions

\* A compilation of the scenario has a definition in hand.
WorkersHaveDefinitions ==
    \A t \in Threads : worker[t].kind = "scenario" => worker[t].definition \in Definitions

TaskInv == TaskIsOfRevision /\ TaskIsOfRelease /\ RulesStand /\ GateIsPassed

LogInv == ReleasesAreOfRevisions /\ ScenarioReleasesAreGoverned /\ RollbacksPinTheirSource

IInv == TypeOK /\ WorkersHaveDefinitions /\ TaskInv /\ LogInv

-----------------------------------------------------------------------------
(* The gate looks at the past, which nothing changes.                      *)

\* New revisions leave the comparison of the recorded ones as it is.
LEMMA BreakingIsSettled ==
    ASSUME TypeOK, NEW d \in Definitions, revisions' = Append(revisions, d),
           NEW r \in DOMAIN revisions
    PROVE  IsBreaking(r)' <=> IsBreaking(r)
<1>1. r \in 1..Len(revisions) /\ DOMAIN revisions = 1..Len(revisions)
  BY DEF TypeOK
<1>2. \A n \in 1..Len(revisions) : revisions'[n] = revisions[n]
  BY DEF TypeOK
<1>3. CASE r > 1
  <2>1. r - 1 \in 1..Len(revisions)
    BY <1>1, <1>3
  <2> QED
    BY <1>1, <1>2, <1>3, <2>1 DEF IsBreaking
<1>4. CASE ~(r > 1)
  BY <1>4 DEF IsBreaking
<1> QED
  BY <1>3, <1>4

\* A new review, and the decision of a pending one, keep every approval.
LEMMA ApprovalIsFinal ==
    ASSUME TypeOK, NEW r, Approved(r),
           \/ \E q \in DOMAIN revisions : RequestReview(q)
           \/ \E n \in DOMAIN reviews, verdict \in {"approved", "rejected"} : DecideReview(n, verdict)
    PROVE  Approved(r)'
<1>1. PICK m \in DOMAIN reviews : reviews[m] = [revision |-> r, status |-> "approved"]
  BY DEF Approved
<1>2. m \in 1..Len(reviews) /\ reviews \in Seq(Review)
  BY DEF TypeOK
<1>3. CASE \E q \in DOMAIN revisions : RequestReview(q)
  <2>1. PICK q \in DOMAIN revisions : RequestReview(q)
    BY <1>3
  <2>2. q \in Nat \ {0}
    BY DEF TypeOK
  <2>3. [revision |-> q, status |-> "pending"] \in Review
    BY <2>2 DEF Review
  <2>4. m \in DOMAIN reviews' /\ reviews'[m] = reviews[m]
    BY <1>2, <2>1, <2>3 DEF RequestReview
  <2> QED
    BY <1>1, <2>4 DEF Approved
<1>4. CASE \E n \in DOMAIN reviews, verdict \in {"approved", "rejected"} : DecideReview(n, verdict)
  <2>1. PICK n \in DOMAIN reviews, verdict \in {"approved", "rejected"} : DecideReview(n, verdict)
    BY <1>4
  <2>2. m # n
    BY <1>1, <2>1 DEF DecideReview
  <2>3. m \in DOMAIN reviews' /\ reviews'[m] = reviews[m]
    BY <1>2, <2>1, <2>2 DEF DecideReview
  <2> QED
    BY <1>1, <2>3 DEF Approved
<1> QED
  BY <1>3, <1>4

\* So every step keeps what the gate once saw of a revision.
LEMMA PastIsSettled ==
    ASSUME TypeOK, [Next]_vars
    PROVE  \A r \in DOMAIN revisions :
               /\ r \in DOMAIN revisions' /\ revisions'[r] = revisions[r]
               /\ IsBreaking(r)' <=> IsBreaking(r)
               /\ Approved(r) => Approved(r)'
<1>1. CASE UNCHANGED <<revisions, reviews>>
  BY <1>1 DEF IsBreaking, Approved
<1>2. CASE \E d \in Definitions : Save(d)
  <2>1. PICK d \in Definitions : Save(d)
    BY <1>2
  <2>2. revisions' = Append(revisions, d) /\ reviews' = reviews
    BY <2>1 DEF Save
  <2>3. \A r \in DOMAIN revisions : r \in DOMAIN revisions' /\ revisions'[r] = revisions[r]
    BY <2>2 DEF TypeOK
  <2>4. \A r \in DOMAIN revisions : IsBreaking(r)' <=> IsBreaking(r)
    BY <2>2, BreakingIsSettled
  <2> QED
    BY <2>2, <2>3, <2>4 DEF Approved
<1>3. CASE \/ \E q \in DOMAIN revisions : RequestReview(q)
           \/ \E n \in DOMAIN reviews, verdict \in {"approved", "rejected"} : DecideReview(n, verdict)
  <2>1. revisions' = revisions
    BY <1>3 DEF RequestReview, DecideReview
  <2>2. \A r : Approved(r) => Approved(r)'
    BY <1>3, ApprovalIsFinal
  <2> QED
    BY <2>1, <2>2 DEF IsBreaking
<1>4. CASE \E new \in Policy : UpdatePolicy(new)
  BY <1>1, <1>4 DEF UpdatePolicy
<1>5. CASE \E t \in Threads : FinishCompile(t) \/ \E kind \in {"simulation", "scenario"} : StartCompile(t, kind)
  BY <1>1, <1>5 DEF FinishCompile, StartCompile, control
<1>6. CASE Deploy
  BY <1>1, <1>6 DEF Deploy, DeployScenario, Rollback, DeploySimulation, CheckBreaking, CheckApproval,
     WriteScenarioFile, DeployScenarioMappings, DeployBundle, SetInitialState, ReadForRelease,
     RecordRelease, control
<1>7. CASE ResetScenario \/ Crash \/ UNCHANGED vars
  BY <1>1, <1>7 DEF ResetScenario, Crash, vars, control
<1> QED
  BY <1>2, <1>3, <1>4, <1>5, <1>6, <1>7 DEF Next, Govern

-----------------------------------------------------------------------------
(* Types.                                                                  *)

\* No task is a task.
LEMMA NoTaskIsATask == NoTask \in Task
  BY DeploymentAssumption DEF NoTask, Task, Mappings

\* A task that moves on keeps the rest.
LEMMA GotoMovesOn ==
    ASSUME TypeOK, NEW label \in {"approval", "file", "runtime", "state", "read", "record"}, Goto(label)
    PROVE  /\ task' \in Task
           /\ task'.at = label
           /\ task'.kind = task.kind /\ task'.revision = task.revision
           /\ task'.source = task.source /\ task'.mappings = task.mappings
           /\ task'.require = task.require /\ task'.block = task.block
  BY DEF TypeOK, Goto, Task

\* The stored definition is a definition, once there is a revision.
LEMMA StoredIsADefinition ==
    ASSUME TypeOK
    PROVE  Stored \in Mappings /\ (revisions # << >> => Stored \in Definitions)
<1>1. CASE revisions = << >>
  BY <1>1 DEF Stored, Mappings
<1>2. CASE revisions # << >>
  <2>1. Len(revisions) \in DOMAIN revisions /\ revisions[Len(revisions)] \in Definitions
    BY <1>2 DEF TypeOK
  <2> QED
    BY <1>2, <2>1 DEF Stored, Last, Mappings
<1> QED
  BY <1>1, <1>2

\* The initial state satisfies every conjunct.
LEMMA InitIInv == Init => IInv
<1> SUFFICES ASSUME Init PROVE IInv
  OBVIOUS
<1>1. TypeOK
  <2>1. revisions \in Seq(Definitions) /\ reviews \in Seq(Review) /\ releases \in Seq(Release)
    BY DEF Init
  <2>2. policy \in Policy
    BY DEF Init, Policy
  <2>3. worker \in [Threads -> [kind : {"none", "simulation", "scenario"}, definition : Mappings]]
    BY DEF Init, Mappings
  <2>4. bundled \in BOOLEAN /\ served \in Mappings /\ state \in Mappings
    BY DEF Init, Mappings
  <2> QED
    BY <2>1, <2>2, <2>3, <2>4, NoTaskIsATask DEF Init, TypeOK
<1>2. WorkersHaveDefinitions /\ LogInv
  BY DEF Init, WorkersHaveDefinitions, LogInv, ReleasesAreOfRevisions,
     ScenarioReleasesAreGoverned, RollbacksPinTheirSource
<1>3. TaskInv
  BY DEF Init, TaskInv, TaskIsOfRevision, TaskIsOfRelease, RulesStand, GateIsPassed, NoTask
<1> QED
  BY <1>1, <1>2, <1>3 DEF IInv

\* Every step keeps the types, and the definitions that compilations have in hand.
LEMMA NextTypeOK ==
    ASSUME IInv, [Next]_vars
    PROVE  TypeOK' /\ WorkersHaveDefinitions'
<1> DEFINE Workers == [Threads -> [kind : {"none", "simulation", "scenario"}, definition : Mappings]]
<1>0. TypeOK /\ WorkersHaveDefinitions /\ TaskInv
  BY DEF IInv
<1>1. ASSUME NEW d \in Definitions, Save(d) PROVE TypeOK' /\ WorkersHaveDefinitions'
  BY <1>0, <1>1 DEF Save, TypeOK, WorkersHaveDefinitions, compiled, runtime
<1>2. ASSUME NEW new \in Policy, UpdatePolicy(new) PROVE TypeOK' /\ WorkersHaveDefinitions'
  <2>1. task' \in Task
    BY <1>0, <1>2 DEF UpdatePolicy, TypeOK, Task, Policy
  <2>2. policies' \in Nat
    BY <1>0, <1>2 DEF UpdatePolicy, TypeOK
  <2> QED
    BY <1>0, <1>2, <2>1, <2>2 DEF UpdatePolicy, TypeOK, WorkersHaveDefinitions, compiled, runtime
<1>3. ASSUME NEW r \in DOMAIN revisions, RequestReview(r) PROVE TypeOK' /\ WorkersHaveDefinitions'
  <2>1. r \in Nat \ {0}
    BY <1>0 DEF TypeOK
  <2>2. [revision |-> r, status |-> "pending"] \in Review
    BY <2>1 DEF Review
  <2>3. reviews' \in Seq(Review)
    BY <1>0, <1>3, <2>2 DEF RequestReview, TypeOK
  <2> QED
    BY <1>0, <1>3, <2>3 DEF RequestReview, TypeOK, WorkersHaveDefinitions, compiled, runtime
<1>4. ASSUME NEW n \in DOMAIN reviews, NEW verdict \in {"approved", "rejected"}, DecideReview(n, verdict)
      PROVE  TypeOK' /\ WorkersHaveDefinitions'
  <2>1. reviews[n] \in Review
    BY <1>0 DEF TypeOK
  <2>2. [reviews[n] EXCEPT !.status = verdict] \in Review
    BY <2>1 DEF Review
  <2>3. reviews' = [reviews EXCEPT ![n] = [reviews[n] EXCEPT !.status = verdict]]
    BY <1>4 DEF DecideReview
  <2>4. reviews' \in Seq(Review)
    BY <1>0, <2>2, <2>3 DEF TypeOK
  <2> QED
    BY <1>0, <1>4, <2>4 DEF DecideReview, TypeOK, WorkersHaveDefinitions, compiled, runtime
<1>5. ASSUME NEW t \in Threads, FinishCompile(t) PROVE TypeOK' /\ WorkersHaveDefinitions'
  <2>1. worker' \in Workers
    BY <1>0, <1>5 DEF FinishCompile, TypeOK, Mappings
  <2>2. bundle' \in Mappings \cup {NoFile}
    BY <1>0, <1>5 DEF FinishCompile, TypeOK
  <2>3. scenarioFile' \in Definitions \cup {NoFile}
    BY <1>0, <1>5 DEF FinishCompile, TypeOK, WorkersHaveDefinitions
  <2>4. WorkersHaveDefinitions'
    BY <1>0, <1>5 DEF FinishCompile, TypeOK, WorkersHaveDefinitions
  <2> QED
    BY <1>0, <1>5, <2>1, <2>2, <2>3, <2>4 DEF FinishCompile, TypeOK, control, runtime
<1>6. ASSUME NEW t \in Threads, NEW kind \in {"simulation", "scenario"}, StartCompile(t, kind)
      PROVE  TypeOK' /\ WorkersHaveDefinitions'
  <2>1. worker' \in Workers
    BY <1>0, <1>6, StoredIsADefinition DEF StartCompile, TypeOK
  <2>2. WorkersHaveDefinitions'
    BY <1>0, <1>6, StoredIsADefinition DEF StartCompile, TypeOK, WorkersHaveDefinitions
  <2> QED
    BY <1>0, <1>6, <2>1, <2>2 DEF StartCompile, TypeOK, control, runtime
<1>7. ASSUME NEW r \in DOMAIN revisions, NEW source \in Nat, DeployScenario(r, source)
      PROVE  TypeOK' /\ WorkersHaveDefinitions'
  <2>1. r \in Nat /\ revisions[r] \in Definitions /\ policy \in Policy
    BY <1>0 DEF TypeOK
  <2>2. task' \in Task
    BY <1>7, <2>1 DEF DeployScenario, Task, Mappings, Policy
  <2> QED
    BY <1>0, <1>7, <2>2 DEF DeployScenario, TypeOK, WorkersHaveDefinitions, control, compiled, runtime
<1>8. ASSUME NEW n \in DOMAIN releases, Rollback(n) PROVE TypeOK' /\ WorkersHaveDefinitions'
  <2>1. n \in Nat /\ releases[n].revision \in DOMAIN revisions
    BY DEF IInv, LogInv, ReleasesAreOfRevisions, TypeOK
  <2> QED
    BY <1>7, <1>8, <2>1 DEF Rollback
<1>9. CASE DeploySimulation
  <2> DEFINE inHand == IF bundle = NoFile THEN Stored ELSE bundle
  <2>1. inHand \in Mappings
    BY <1>0, StoredIsADefinition DEF TypeOK
  <2>2. Len(revisions) \in Nat /\ policy \in Policy
    BY <1>0 DEF TypeOK
  <2>3. task' \in Task
    BY <1>9, <2>1, <2>2 DEF DeploySimulation, Task, Policy
  <2> QED
    BY <1>0, <1>9, <2>1, <2>3 DEF DeploySimulation, TypeOK, WorkersHaveDefinitions, control, runtime
<1>10. CASE CheckBreaking
  <2>1. task' \in Task
    BY <1>0, <1>10, GotoMovesOn, NoTaskIsATask DEF CheckBreaking
  <2> QED
    BY <1>0, <1>10, <2>1 DEF CheckBreaking, TypeOK, WorkersHaveDefinitions, control, compiled, runtime
<1>11. CASE CheckApproval
  <2>1. task' \in Task
    BY <1>0, <1>11, GotoMovesOn, NoTaskIsATask DEF CheckApproval, AfterGate
  <2> QED
    BY <1>0, <1>11, <2>1 DEF CheckApproval, TypeOK, WorkersHaveDefinitions, control, compiled, runtime
<1>12. CASE WriteScenarioFile
  <2>1. task' \in Task
    BY <1>0, <1>12, GotoMovesOn DEF WriteScenarioFile
  <2>2. task.mappings \in Definitions
    BY <1>0, <1>12 DEF WriteScenarioFile, TaskInv, TaskIsOfRevision, TypeOK
  <2> QED
    BY <1>0, <1>12, <2>1, <2>2 DEF WriteScenarioFile, TypeOK, WorkersHaveDefinitions, control, runtime
<1>13. CASE DeployScenarioMappings
  <2>1. task' \in Task
    BY <1>0, <1>13, GotoMovesOn DEF DeployScenarioMappings
  <2>2. task.mappings \in Mappings
    BY <1>0 DEF TypeOK, Task
  <2> QED
    BY <1>0, <1>13, <2>1, <2>2
       DEF DeployScenarioMappings, TypeOK, WorkersHaveDefinitions, control, compiled
<1>14. ASSUME NEW reset \in BOOLEAN, DeployBundle(reset) PROVE TypeOK' /\ WorkersHaveDefinitions'
  <2>1. task' \in Task
    BY <1>0, <1>14, GotoMovesOn DEF DeployBundle
  <2>2. task.mappings \in Mappings
    BY <1>0 DEF TypeOK, Task
  <2>3. served' \in Mappings /\ state' \in Mappings /\ bundled' \in BOOLEAN
    BY <1>0, <1>14, <2>2 DEF DeployBundle, TypeOK
  <2> QED
    BY <1>0, <1>14, <2>1, <2>3 DEF DeployBundle, TypeOK, WorkersHaveDefinitions, control, compiled
<1>15. CASE SetInitialState
  <2>1. task' \in Task
    BY <1>0, <1>15, GotoMovesOn, NoTaskIsATask DEF SetInitialState
  <2>2. state' \in Mappings
    BY <1>0, <1>15, StoredIsADefinition DEF SetInitialState, TypeOK
  <2> QED
    BY <1>0, <1>15, <2>1, <2>2 DEF SetInitialState, TypeOK, WorkersHaveDefinitions, control, compiled
<1>16. CASE ReadForRelease
  <2>1. CASE scenarioFile = NoFile
    BY <1>0, <1>16, <2>1, NoTaskIsATask
       DEF ReadForRelease, TypeOK, WorkersHaveDefinitions, control, compiled, runtime
  <2>2. CASE scenarioFile # NoFile
    <3>1. task' = [task EXCEPT !.at = "record", !.revision = Len(revisions), !.mappings = scenarioFile]
      BY <1>16, <2>2 DEF ReadForRelease
    <3>2. Len(revisions) \in Nat /\ scenarioFile \in Mappings /\ task \in Task
      BY <1>0, <2>2 DEF TypeOK, Mappings
    <3>3. task' \in Task
      BY <3>1, <3>2 DEF Task
    <3> QED
      BY <1>0, <1>16, <3>3 DEF ReadForRelease, TypeOK, WorkersHaveDefinitions, control, compiled, runtime
  <2> QED
    BY <2>1, <2>2
<1>17. CASE RecordRelease
  <2> DEFINE release == [revision |-> task.revision, fingerprint |-> task.mappings,
                         source |-> task.source, kind |-> task.kind,
                         require |-> task.require, block |-> task.block]
  <2>1. task.revision \in Nat \ {0}
    BY <1>0, <1>17 DEF RecordRelease, TaskInv, TaskIsOfRevision, TypeOK
  <2>2. release \in Release
    BY <1>0, <2>1 DEF TypeOK, Task, Release
  <2>3. releases' \in Seq(Release)
    BY <1>0, <1>17, <2>2 DEF RecordRelease, TypeOK
  <2> QED
    BY <1>0, <1>17, <2>3, NoTaskIsATask
       DEF RecordRelease, TypeOK, WorkersHaveDefinitions, control, compiled, runtime
<1>18. CASE ResetScenario
  <2>1. releases # << >> => releases[Len(releases)].revision \in DOMAIN revisions
    BY DEF IInv, LogInv, ReleasesAreOfRevisions, TypeOK
  <2>2. state' \in Mappings
    BY <1>0, <1>18, <2>1, StoredIsADefinition DEF ResetScenario, Last, TypeOK, Mappings
  <2> QED
    BY <1>0, <1>18, <2>2 DEF ResetScenario, TypeOK, WorkersHaveDefinitions, control, compiled
<1>19. CASE Crash
  <2>1. worker' \in Workers /\ WorkersHaveDefinitions'
    BY <1>19 DEF Crash, Mappings, WorkersHaveDefinitions
  <2>2. served' \in Mappings /\ state' \in Mappings
    BY <1>0, <1>19 DEF Crash, TypeOK, Mappings
  <2> QED
    BY <1>0, <1>19, <2>1, <2>2, NoTaskIsATask DEF Crash, TypeOK, control
<1>20. CASE UNCHANGED vars
  BY <1>0, <1>20 DEF vars, control, compiled, runtime, TypeOK, WorkersHaveDefinitions
<1> QED
  BY <1>1, <1>2, <1>3, <1>4, <1>5, <1>6, <1>7, <1>8, <1>9, <1>10, <1>11, <1>12, <1>13, <1>14,
     <1>15, <1>16, <1>17, <1>18, <1>19, <1>20 DEF Next, Govern, Deploy

-----------------------------------------------------------------------------
(* The deployment on the event loop.                                       *)

\* A deployment that ends leaves nothing in hand.
LEMMA EndingIsSafe == ASSUME task' = NoTask PROVE TaskInv'
  BY DEF NoTask, TaskInv, TaskIsOfRevision, TaskIsOfRelease, RulesStand, GateIsPassed

\* What others do while a deployment is under way keeps what it has in hand.
LEMMA WaitingIsSafe ==
    ASSUME IInv, [Next]_vars, task' = task, policy' = policy, releases' = releases
    PROVE  TaskInv'
<1>0. TypeOK /\ TaskInv
  BY DEF IInv
<1>1. TaskIsOfRevision'
  <2>1. revisions # << >> => 1 \in DOMAIN revisions
    BY <1>0 DEF TypeOK
  <2>2. revisions # << >> => revisions' # << >>
    BY <1>0, <2>1, PastIsSettled
  <2> QED
    BY <1>0, <2>2, PastIsSettled DEF TaskInv, TaskIsOfRevision
<1>2. TaskIsOfRelease' /\ RulesStand'
  BY <1>0 DEF TaskInv, TaskIsOfRelease, RulesStand
<1>3. GateIsPassed'
  BY <1>0, PastIsSettled DEF TaskInv, TaskIsOfRevision, GateIsPassed
<1> QED
  BY <1>1, <1>2, <1>3 DEF TaskInv

\* Every step keeps the gate's word.
LEMMA NextTaskInv == ASSUME IInv, [Next]_vars PROVE TaskInv'
<1>0. TypeOK /\ TaskInv /\ LogInv
  BY DEF IInv
<1>1. ASSUME NEW new \in Policy, UpdatePolicy(new) PROVE TaskInv'
  <2>1. /\ task'.at = task.at /\ task'.kind = task.kind /\ task'.revision = task.revision
        /\ task'.source = task.source /\ task'.mappings = task.mappings
        /\ task'.require = (task.require /\ new.require)
        /\ task'.block = (task.block /\ new.block)
    BY <1>0, <1>1 DEF UpdatePolicy, TypeOK, Task
  <2>2. policy' = new /\ UNCHANGED <<revisions, reviews, releases>>
    BY <1>1 DEF UpdatePolicy
  <2>3. TaskIsOfRevision'
    BY <1>0, <2>1, <2>2 DEF TaskInv, TaskIsOfRevision
  <2>4. TaskIsOfRelease' /\ RulesStand'
    BY <1>0, <2>1, <2>2 DEF TaskInv, TaskIsOfRelease, RulesStand
  <2>5. GateIsPassed'
    BY <1>0, <2>1, <2>2 DEF TaskInv, GateIsPassed, IsBreaking, Approved
  <2> QED
    BY <2>3, <2>4, <2>5 DEF TaskInv
<1>2. ASSUME NEW r \in DOMAIN revisions, DeployScenario(r, 0) PROVE TaskInv'
  BY <1>2 DEF DeployScenario, control, TaskInv, TaskIsOfRevision, TaskIsOfRelease, RulesStand, GateIsPassed
<1>3. ASSUME NEW n \in DOMAIN releases, Rollback(n) PROVE TaskInv'
  <2>1. n # 0 /\ releases[n].revision \in DOMAIN revisions
    BY <1>0 DEF TypeOK, LogInv, ReleasesAreOfRevisions
  <2> QED
    BY <1>3, <2>1
       DEF Rollback, DeployScenario, control, TaskInv, TaskIsOfRevision, TaskIsOfRelease, RulesStand,
           GateIsPassed
<1>4. CASE DeploySimulation
  <2>1. revisions # << >> => Len(revisions) \in DOMAIN revisions
    BY <1>0 DEF TypeOK
  <2> QED
    BY <1>4, <2>1
       DEF DeploySimulation, control, TaskInv, TaskIsOfRevision, TaskIsOfRelease, RulesStand, GateIsPassed
<1>5. CASE CheckBreaking
  <2>1. CASE Goto("approval")
    <3>1. ~(policy.block /\ IsBreaking(task.revision))
      BY <1>5, <2>1 DEF CheckBreaking, Goto, NoTask, TypeOK
    <3> QED
      BY <1>0, <1>5, <2>1, <3>1, GotoMovesOn
         DEF CheckBreaking, control, TaskInv, TaskIsOfRevision, TaskIsOfRelease, RulesStand, GateIsPassed,
             IsBreaking
  <2> QED
    BY <1>5, <2>1, EndingIsSafe DEF CheckBreaking
<1>6. CASE CheckApproval
  <2>1. CASE Goto(AfterGate)
    <3>0. task' # NoTask
      BY <1>0, <2>1, GotoMovesOn DEF AfterGate, NoTask
    <3>1. ~(policy.require /\ ~Approved(task.revision))
      BY <1>6, <3>0 DEF CheckApproval
    <3> QED
      BY <1>0, <1>6, <2>1, <3>1, GotoMovesOn
         DEF CheckApproval, AfterGate, control, TaskInv, TaskIsOfRevision, TaskIsOfRelease, RulesStand,
             GateIsPassed, IsBreaking, Approved
  <2> QED
    BY <1>6, <2>1, EndingIsSafe DEF CheckApproval
<1>7. CASE WriteScenarioFile
  BY <1>0, <1>7, GotoMovesOn
     DEF WriteScenarioFile, control, TaskInv, TaskIsOfRevision, TaskIsOfRelease, RulesStand, GateIsPassed,
         IsBreaking, Approved
<1>8. CASE DeployScenarioMappings
  BY <1>0, <1>8, GotoMovesOn
     DEF DeployScenarioMappings, control, TaskInv, TaskIsOfRevision, TaskIsOfRelease, RulesStand,
         GateIsPassed, IsBreaking, Approved
<1>9. ASSUME NEW reset \in BOOLEAN, DeployBundle(reset) PROVE TaskInv'
  BY <1>0, <1>9, GotoMovesOn
     DEF DeployBundle, control, TaskInv, TaskIsOfRevision, TaskIsOfRelease, RulesStand, GateIsPassed
<1>10. CASE SetInitialState
  <2>1. CASE Goto("read")
    <3>1. task' # NoTask
      BY <1>0, <2>1, GotoMovesOn DEF NoTask
    <3>2. revisions # << >>
      BY <1>10, <3>1 DEF SetInitialState, Stored
    <3> QED
      BY <1>0, <1>10, <2>1, <3>2, GotoMovesOn
         DEF SetInitialState, control, TaskInv, TaskIsOfRevision, TaskIsOfRelease, RulesStand, GateIsPassed
  <2> QED
    BY <1>10, <2>1, EndingIsSafe DEF SetInitialState
<1>11. CASE ReadForRelease
  <2>1. CASE scenarioFile # NoFile
    <3>1. task' = [task EXCEPT !.at = "record", !.revision = Len(revisions), !.mappings = scenarioFile]
      BY <1>11, <2>1 DEF ReadForRelease
    <3>2. /\ task'.at = "record" /\ task'.kind = task.kind /\ task'.revision = Len(revisions)
          /\ task'.source = task.source /\ task'.require = task.require /\ task'.block = task.block
      BY <1>0, <3>1 DEF TypeOK, Task
    <3>3. task.kind = "simulation" /\ revisions # << >>
      BY <1>0, <1>11 DEF ReadForRelease, TaskInv, TaskIsOfRevision
    <3>4. Len(revisions) \in DOMAIN revisions
      BY <1>0, <3>3 DEF TypeOK
    <3>5. UNCHANGED <<revisions, policy, releases>>
      BY <1>11 DEF ReadForRelease, control
    <3> QED
      BY <1>0, <3>2, <3>3, <3>4, <3>5
         DEF TaskInv, TaskIsOfRevision, TaskIsOfRelease, RulesStand, GateIsPassed
  <2> QED
    BY <1>11, <2>1, EndingIsSafe DEF ReadForRelease
<1>12. CASE RecordRelease \/ Crash
  BY <1>12, EndingIsSafe DEF RecordRelease, Crash
<1>13. CASE ResetScenario \/ UNCHANGED vars
  BY <1>13, WaitingIsSafe DEF ResetScenario, vars, control
<1>14. CASE \/ \E d \in Definitions : Save(d)
            \/ \E r \in DOMAIN revisions : RequestReview(r)
            \/ \E n \in DOMAIN reviews, verdict \in {"approved", "rejected"} : DecideReview(n, verdict)
            \/ \E t \in Threads : FinishCompile(t) \/ \E kind \in {"simulation", "scenario"} : StartCompile(t, kind)
  <2>1. task' = task /\ policy' = policy /\ releases' = releases
    BY <1>14 DEF Save, RequestReview, DecideReview, FinishCompile, StartCompile, control
  <2> QED
    BY <2>1, WaitingIsSafe
<1> QED
  BY <1>1, <1>2, <1>3, <1>4, <1>5, <1>6, <1>7, <1>8, <1>9, <1>10, <1>11, <1>12, <1>13, <1>14
     DEF Next, Govern, Deploy

-----------------------------------------------------------------------------
(* The log of releases.                                                    *)

\* A recorded release obeys and pins what its deployment did.
LEMMA RecordKeepsLog == ASSUME IInv, RecordRelease PROVE LogInv'
<1>0. TypeOK /\ TaskInv /\ LogInv
  BY DEF IInv
<1> DEFINE release == [revision |-> task.revision, fingerprint |-> task.mappings,
                       source |-> task.source, kind |-> task.kind,
                       require |-> task.require, block |-> task.block]
           last == Len(releases) + 1
<1>1. releases \in Seq(Release) /\ releases' = Append(releases, release)
  BY <1>0 DEF RecordRelease, TypeOK
<1>2. /\ DOMAIN releases = 1..Len(releases) /\ DOMAIN releases' = 1..last
      /\ releases'[last] = release
      /\ \A n \in DOMAIN releases : releases'[n] = releases[n]
  BY <1>1
<1>3. task.at = "record" /\ task.revision \in DOMAIN revisions /\ UNCHANGED <<revisions, reviews>>
  BY <1>0 DEF RecordRelease, TaskInv, TaskIsOfRevision, control
<1>4. \A n \in DOMAIN releases' : n \in DOMAIN releases \/ n = last
  BY <1>2
<1>5. ReleasesAreOfRevisions'
  BY <1>0, <1>2, <1>3, <1>4 DEF LogInv, ReleasesAreOfRevisions
<1>6. ScenarioReleasesAreGoverned'
  <2>1. task.kind = "scenario" => Governed(release)
    BY <1>0, <1>3 DEF TaskInv, GateIsPassed, Governed
  <2> QED
    BY <1>0, <1>2, <1>3, <1>4, <2>1 DEF LogInv, ScenarioReleasesAreGoverned, Governed, Approved, IsBreaking
<1>7. RollbacksPinTheirSource'
  <2>1. task.source # 0 => task.source < last /\ task.revision = releases[task.source].revision
    BY <1>0, <1>2 DEF TaskInv, TaskIsOfRelease
  <2>2. task.source # 0 => task.source \in DOMAIN releases
    BY <1>0 DEF TaskInv, TaskIsOfRelease
  <2>3. ASSUME NEW n \in DOMAIN releases, releases[n].source # 0
        PROVE  /\ releases[n].source < n /\ releases[n].source \in DOMAIN releases
               /\ releases[n].revision = releases[releases[n].source].revision
    <3>1. /\ releases[n].source < n
          /\ releases[n].revision = releases[releases[n].source].revision
      BY <1>0, <2>3 DEF LogInv, RollbacksPinTheirSource
    <3>2. releases[n] \in Release
      BY <1>1
    <3>3. releases[n].source \in Nat
      BY <3>2 DEF Release
    <3>4. n \in 1..Len(releases) /\ Len(releases) \in Nat
      BY <1>1, <1>2
    <3> HIDE DEF release
    <3>5. releases[n].source \in 1..Len(releases)
      BY <2>3, <3>1, <3>3, <3>4
    <3> QED
      BY <1>2, <3>1, <3>5
  <2> QED
    BY <1>2, <1>4, <2>1, <2>2, <2>3 DEF RollbacksPinTheirSource
<1> QED
  BY <1>5, <1>6, <1>7 DEF LogInv

\* Every step keeps what was recorded, and what it was recorded for.
LEMMA NextLogInv == ASSUME IInv, [Next]_vars PROVE LogInv'
<1>0. TypeOK /\ LogInv
  BY DEF IInv
<1>1. CASE releases' = releases
  <2>1. ReleasesAreOfRevisions' /\ RollbacksPinTheirSource'
    BY <1>0, <1>1, PastIsSettled DEF LogInv, ReleasesAreOfRevisions, RollbacksPinTheirSource
  <2>2. ScenarioReleasesAreGoverned'
    BY <1>0, <1>1, PastIsSettled
       DEF LogInv, ReleasesAreOfRevisions, ScenarioReleasesAreGoverned, Governed
  <2> QED
    BY <2>1, <2>2 DEF LogInv
<1>2. CASE RecordRelease
  BY <1>2, RecordKeepsLog
<1>3. Govern => releases' = releases
  BY DEF Govern, Save, UpdatePolicy, RequestReview, DecideReview, FinishCompile, StartCompile
<1>4. Deploy => releases' = releases \/ RecordRelease
  BY DEF Deploy, DeployScenario, Rollback, DeploySimulation, CheckBreaking, CheckApproval,
     WriteScenarioFile, DeployScenarioMappings, DeployBundle, SetInitialState, ReadForRelease
<1>5. ResetScenario \/ Crash \/ UNCHANGED vars => releases' = releases
  BY DEF ResetScenario, Crash, vars
<1> QED
  BY <1>1, <1>2, <1>3, <1>4, <1>5 DEF Next

-----------------------------------------------------------------------------
(* What the runtime serves.                                                *)

\* The definition that the last release pins.
PinnedDefinition ==
    IF releases = << >> THEN NoDefinition ELSE revisions[Last(releases).revision]

\* While only scenarios were deployed and the process lives, the runtime is at the last
\* release, or one step ahead of the log with what is to be recorded next.
RuntimeFollowsLog ==
    crashes = 0 /\ ~bundled =>
        /\ task.at \notin {"state", "read"}
        /\ task.at = "record" => task.kind = "scenario"
        /\ LET current == IF task.at = "record" THEN task.mappings ELSE PinnedDefinition
           IN  served = current /\ state = current

\* What is released stays pinned.
LEMMA PinnedIsSettled ==
    ASSUME IInv, [Next]_vars, releases' = releases
    PROVE  PinnedDefinition' = PinnedDefinition
<1>0. TypeOK /\ ReleasesAreOfRevisions
  BY DEF IInv, LogInv
<1>1. CASE releases = << >>
  BY <1>1 DEF PinnedDefinition
<1>2. CASE releases # << >>
  <2>1. Len(releases) \in DOMAIN releases /\ Last(releases) = releases[Len(releases)]
    BY <1>0, <1>2 DEF TypeOK, Last
  <2>2. Last(releases).revision \in DOMAIN revisions
    BY <1>0, <2>1 DEF ReleasesAreOfRevisions
  <2>3. revisions'[Last(releases).revision] = revisions[Last(releases).revision]
    BY <1>0, <2>2, PastIsSettled
  <2> QED
    BY <1>2, <2>3 DEF PinnedDefinition
<1> QED
  BY <1>1, <1>2

\* A recorded scenario deployment is what the runtime was given.
LEMMA RecordPins ==
    ASSUME IInv, RecordRelease, task.kind = "scenario"
    PROVE  PinnedDefinition' = task.mappings
<1>0. TypeOK /\ TaskIsOfRevision
  BY DEF IInv, TaskInv
<1> DEFINE new == [revision |-> task.revision, fingerprint |-> task.mappings,
                   source |-> task.source, kind |-> task.kind,
                   require |-> task.require, block |-> task.block]
<1>1. releases' = Append(releases, new) /\ revisions' = revisions
  BY DEF RecordRelease, control
<1>2. task.mappings = revisions[task.revision] /\ new.revision = task.revision
  BY <1>0 DEF RecordRelease, TaskIsOfRevision
<1> HIDE DEF new
<1>3. releases' # << >> /\ Last(releases') = new
  BY <1>0, <1>1 DEF TypeOK, Last
<1> QED
  BY <1>1, <1>2, <1>3 DEF PinnedDefinition

\* Every step keeps the runtime and the log together.
LEMMA NextRuntimeFollowsLog ==
    ASSUME IInv, RuntimeFollowsLog, [Next]_vars
    PROVE  RuntimeFollowsLog'
<1>0. TypeOK /\ TaskIsOfRevision
  BY DEF IInv, TaskInv
<1>1. ASSUME UNCHANGED <<releases, served, state, bundled, crashes>>,
             task'.at = task.at \/ {task.at, task'.at} \cap {"record", "state", "read"} = {},
             task'.kind = task.kind \/ task'.at # "record",
             task'.mappings = task.mappings \/ task'.at # "record"
      PROVE  RuntimeFollowsLog'
  <2>1. PinnedDefinition' = PinnedDefinition
    BY <1>1, PinnedIsSettled
  <2>2. CASE crashes = 0 /\ ~bundled
    <3>1. /\ task.at \notin {"state", "read"} /\ task'.at \notin {"state", "read"}
          /\ task'.at = "record" => task.at = "record"
          /\ task.at = "record" => task'.at = "record"
      BY <1>1, <2>2 DEF RuntimeFollowsLog
    <3>2. CASE task.at = "record"
      <4>1. task'.at = "record" /\ task'.kind = task.kind /\ task'.mappings = task.mappings
        BY <1>1, <3>1, <3>2
      <4> QED
        BY <1>1, <2>2, <3>2, <4>1 DEF RuntimeFollowsLog
    <3>3. CASE task.at # "record"
      BY <1>1, <2>1, <2>2, <3>1, <3>3 DEF RuntimeFollowsLog
    <3> QED
      BY <3>2, <3>3
  <2>3. CASE ~(crashes = 0 /\ ~bundled)
    BY <1>1, <2>3 DEF RuntimeFollowsLog
  <2> QED
    BY <2>2, <2>3
<1>2. CASE Govern
  <2>1. CASE \E new \in Policy : UpdatePolicy(new)
    <3>1. task'.at = task.at /\ task'.kind = task.kind /\ task'.mappings = task.mappings
      BY <1>0, <2>1 DEF UpdatePolicy, TypeOK, Task
    <3> QED
      BY <1>1, <2>1, <3>1 DEF UpdatePolicy, runtime
  <2> QED
    BY <1>1, <1>2, <2>1 DEF Govern, Save, RequestReview, DecideReview, FinishCompile, StartCompile,
       runtime
<1>3. ASSUME NEW r \in DOMAIN revisions, NEW source, DeployScenario(r, source)
      PROVE  RuntimeFollowsLog'
  BY <1>1, <1>3 DEF DeployScenario, runtime
<1>4. ASSUME NEW n \in DOMAIN releases, Rollback(n) PROVE RuntimeFollowsLog'
  <2>1. releases[n].revision \in DOMAIN revisions
    BY <1>4 DEF IInv, LogInv, ReleasesAreOfRevisions
  <2> QED
    BY <1>3, <1>4, <2>1 DEF Rollback
<1>5. CASE DeploySimulation
  BY <1>1, <1>5 DEF DeploySimulation, runtime
<1>6. CASE CheckBreaking \/ CheckApproval
  <2>1. task'.at \in {"idle", "approval", "file", "runtime"}
    BY <1>0, <1>6, GotoMovesOn DEF CheckBreaking, CheckApproval, NoTask, AfterGate
  <2> QED
    BY <1>1, <1>6, <2>1 DEF CheckBreaking, CheckApproval, runtime
<1>7. CASE WriteScenarioFile
  <2>1. task.at = "file" /\ task'.at = "runtime"
    BY <1>0, <1>7 DEF WriteScenarioFile, Goto, TypeOK, Task
  <2> QED
    BY <1>1, <1>7, <2>1 DEF WriteScenarioFile, runtime
<1>8. CASE DeployScenarioMappings
  <2>1. /\ task'.at = "record" /\ task'.kind = "scenario" /\ task'.mappings = task.mappings
        /\ served' = task.mappings /\ state' = task.mappings
    BY <1>0, <1>8, GotoMovesOn DEF DeployScenarioMappings
  <2> QED
    BY <2>1 DEF RuntimeFollowsLog
<1>9. ASSUME NEW reset \in BOOLEAN, DeployBundle(reset) PROVE RuntimeFollowsLog'
  BY <1>9 DEF DeployBundle, RuntimeFollowsLog
<1>10. CASE SetInitialState \/ ReadForRelease
  <2>1. crashes' = crashes /\ bundled' = bundled
    BY <1>10 DEF SetInitialState, ReadForRelease, runtime
  <2> QED
    BY <1>10, <2>1 DEF SetInitialState, ReadForRelease, RuntimeFollowsLog
<1>11. CASE RecordRelease
  <2>1. UNCHANGED <<served, state, bundled, crashes>> /\ task'.at = "idle"
    BY <1>11 DEF RecordRelease, runtime, NoTask
  <2>2. task.at = "record"
    BY <1>11 DEF RecordRelease
  <2> QED
    BY <1>11, <2>1, <2>2, RecordPins DEF RuntimeFollowsLog
<1>12. CASE ResetScenario
  <2>1. PinnedDefinition' = PinnedDefinition
    BY <1>12, PinnedIsSettled DEF ResetScenario
  <2>2. releases # << >> => state' = PinnedDefinition
    BY <1>12 DEF ResetScenario, PinnedDefinition
  <2>3. state # NoDefinition
    BY <1>12 DEF ResetScenario
  <2> QED
    BY <1>12, <2>1, <2>2, <2>3 DEF ResetScenario, RuntimeFollowsLog, PinnedDefinition
<1>13. CASE Crash
  <2>1. crashes \in Nat /\ crashes' = crashes + 1
    BY <1>0, <1>13 DEF Crash, TypeOK
  <2> QED
    BY <2>1 DEF RuntimeFollowsLog
<1>14. CASE UNCHANGED vars
  BY <1>1, <1>14 DEF vars, runtime
<1> QED
  BY <1>2, <1>3, <1>4, <1>5, <1>6, <1>7, <1>8, <1>9, <1>10, <1>11, <1>12, <1>13, <1>14 DEF Next, Deploy

-----------------------------------------------------------------------------
(* The theorems.                                                           *)

\* The inductive invariant holds in every reachable state.
LEMMA Invariance == Spec => []IInv
<1>1. IInv /\ [Next]_vars => IInv'
  BY NextTypeOK, NextTaskInv, NextLogInv DEF IInv
<1> QED
  BY <1>1, InitIInv, PTL DEF Spec

\* Every variable keeps its type.
THEOREM TypeCorrect == Spec => []TypeOK
<1>1. IInv => TypeOK
  BY DEF IInv
<1> QED
  BY <1>1, Invariance, PTL

\* A rule that stood during a whole scenario deployment was obeyed by what it
\* released, whatever was saved, reviewed, compiled or decided meanwhile.
THEOREM ScenarioDeploymentsAreGoverned == Spec => []ScenarioReleasesAreGoverned
<1>1. IInv => ScenarioReleasesAreGoverned
  BY DEF IInv, LogInv
<1> QED
  BY <1>1, Invariance, PTL

\* A rollback releases again the revision of an earlier release.
THEOREM RollbacksAreFaithful == Spec => []RollbacksPinTheirSource
<1>1. IInv => RollbacksPinTheirSource
  BY DEF IInv, LogInv
<1> QED
  BY <1>1, Invariance, PTL

\* As long as only scenarios are deployed and the process lives, resets, rollbacks and
\* whatever is saved or compiled leave the runtime at what the last release pins.
THEOREM RuntimeServesTheRelease == Spec => []ServedIsReleased
<1>1. Init => RuntimeFollowsLog
  BY DEF Init, RuntimeFollowsLog, PinnedDefinition, NoTask
<1>2. IInv /\ RuntimeFollowsLog /\ [Next]_vars => RuntimeFollowsLog'
  BY NextRuntimeFollowsLog
<1>3. RuntimeFollowsLog => ServedIsReleased
  BY DEF RuntimeFollowsLog, ServedIsReleased, PinnedDefinition, NoTask
<1> QED
  BY <1>1, <1>2, <1>3, Invariance, PTL DEF Spec
=============================================================================
