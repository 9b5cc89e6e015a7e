----------------------------- MODULE Deployments -----------------------------
(***************************************************************************)
(* Governed deployment of ONE scenario of ONE simulation to the native     *)
(* runtime: the release policy, the reviews, the compiled mapping files,   *)
(* the mappings and the state of the runtime, and the log of releases.     *)
(*                                                                         *)
(* Two handlers deploy: deploy_scenario() compiles the revision it was     *)
(* asked for; deploy() takes mappings/mappings.json as some compilation    *)
(* left it.  Both are coroutines, and the native adapter never suspends    *)
(* them: one deployment at a time is on the event loop, while worker       *)
(* threads save, compile, review and change the policy between its steps.  *)
(*                                                                         *)
(* Revisions are the append-only log that ScenarioRevisions implements.    *)
(* Compiled mappings stand for the definition they were compiled from.     *)
(***************************************************************************)
EXTENDS Naturals, Sequences, SequencesExt

CONSTANTS
    Definitions,    \* scenario definitions, by their ETag
    Breaking,       \* pairs <<old, new>> that the comparison calls breaking
    NoDefinition,   \* compiled without the scenario; nothing of it deployed
    NoFile,         \* the mapping file does not exist
    Threads,        \* worker threads that compile
    Persistent,     \* the runtime keeps its state in SQLite, not in memory
    MaxRevisions, MaxReviews, MaxReleases, MaxPolicies, MaxCrashes  \* bounds

ASSUME DeploymentAssumption ==
    /\ Breaking \subseteq Definitions \X Definitions
    /\ NoDefinition \notin Definitions
    /\ NoFile \notin Definitions \cup {NoDefinition}
    /\ Persistent \in BOOLEAN
    /\ {MaxRevisions, MaxReviews, MaxReleases, MaxPolicies, MaxCrashes} \subseteq Nat

VARIABLES
    revisions,      \* the recorded revisions of the scenario
    policy,         \* scenarios/release-policy.json
    reviews,        \* scenarios/reviews/<id>.json
    bundle,         \* mappings/mappings.json: the scenario compiled into it
    scenarioFile,   \* mappings/scenarios/<id>.json
    worker,         \* the compilation each thread is in
    served,         \* runtime: the scenario's mappings
    state,          \* runtime: the definition that the scenario's state is a state of
    task,           \* the deployment on the event loop
    releases,       \* scenarios/releases/<id>.json
    bundled,        \* ghost: mappings.json has been deployed
    policies,       \* number of policy updates
    crashes         \* number of crashes

control  == <<revisions, policy, reviews, policies>>
compiled == <<bundle, scenarioFile, worker>>
runtime  == <<served, state, bundled>>
vars     == <<control, compiled, runtime, task, releases, crashes>>

-----------------------------------------------------------------------------
Mappings == Definitions \cup {NoDefinition}

Policy == [require : BOOLEAN, block : BOOLEAN]

Review == [revision : Nat \ {0}, status : {"pending", "approved", "rejected"}]

\* The stored definition is that of the head revision.
Stored == IF revisions = << >> THEN NoDefinition ELSE Last(revisions)

NoTask == [at |-> "idle", kind |-> "scenario", revision |-> 0, source |-> 0,
           mappings |-> NoDefinition, require |-> FALSE, block |-> FALSE]

\* require and block are ghosts: the rules that stood during the whole deployment.
Task == [at       : {"idle", "breaking", "approval", "file", "runtime", "state", "read", "record"},
         kind     : {"scenario", "simulation"},
         revision : Nat,
         source   : Nat,
         mappings : Mappings,
         require  : BOOLEAN,
         block    : BOOLEAN]

\* kind, require and block are ghosts, copied from the task.
Release == [revision : Nat \ {0}, fingerprint : Mappings, source : Nat,
            kind : {"scenario", "simulation"}, require : BOOLEAN, block : BOOLEAN]

Goto(label) == task' = [task EXCEPT !.at = label]

-----------------------------------------------------------------------------
(* Worker threads: definitions, policy, reviews, compilations.             *)

Save(d) ==
    /\ Len(revisions) < MaxRevisions
    /\ d # Stored
    /\ revisions' = Append(revisions, d)
    /\ UNCHANGED <<policy, reviews, policies, compiled, runtime, task, releases, crashes>>

UpdatePolicy(new) ==
    /\ policies < MaxPolicies
    /\ policies' = policies + 1
    /\ policy' = new
    /\ task' = [task EXCEPT !.require = @ /\ new.require, !.block = @ /\ new.block]
    /\ UNCHANGED <<revisions, reviews, compiled, runtime, releases, crashes>>

RequestReview(r) ==
    /\ Len(reviews) < MaxReviews
    /\ \A n \in DOMAIN reviews : reviews[n] # [revision |-> r, status |-> "pending"]
    /\ reviews' = Append(reviews, [revision |-> r, status |-> "pending"])
    /\ UNCHANGED <<revisions, policy, policies, compiled, runtime, task, releases, crashes>>

DecideReview(n, verdict) ==
    /\ reviews[n].status = "pending"
    /\ reviews' = [reviews EXCEPT ![n].status = verdict]
    /\ UNCHANGED <<revisions, policy, policies, compiled, runtime, task, releases, crashes>>

\* Mutant: a scenario that does not exist is compiled.
StartCompileAnyway(t, kind) ==
    /\ worker[t].kind = "none"
    /\ worker' = [worker EXCEPT ![t] = [kind |-> kind, definition |-> Stored]]
    /\ UNCHANGED <<control, bundle, scenarioFile, runtime, task, releases, crashes>>

\* compile() and compile_scenario() read the definition, then write their file.
StartCompile(t, kind) ==
    /\ worker[t].kind = "none"
    /\ kind = "scenario" => revisions # << >>
    /\ worker' = [worker EXCEPT ![t] = [kind |-> kind, definition |-> Stored]]
    /\ UNCHANGED <<control, bundle, scenarioFile, runtime, task, releases, crashes>>

FinishCompile(t) ==
    /\ worker[t].kind # "none"
    /\ IF worker[t].kind = "simulation"
       THEN bundle' = worker[t].definition /\ UNCHANGED scenarioFile
       ELSE scenarioFile' = worker[t].definition /\ UNCHANGED bundle
    /\ worker' = [worker EXCEPT ![t] = [kind |-> "none", definition |-> NoDefinition]]
    /\ UNCHANGED <<control, runtime, task, releases, crashes>>

-----------------------------------------------------------------------------
(* The gate, _require_scenario_deployable(): the policy is read for each of *)
(* its two rules.                                                          *)

Approved(r) == \E n \in DOMAIN reviews : reviews[n] = [revision |-> r, status |-> "approved"]

IsBreaking(r) == r > 1 /\ <<revisions[r - 1], revisions[r]>> \in Breaking

AfterGate == IF task.kind = "scenario" THEN "file" ELSE "runtime"

CheckBreaking ==
    /\ task.at = "breaking"
    /\ IF policy.block /\ IsBreaking(task.revision)
       THEN task' = NoTask
       ELSE Goto("approval")
    /\ UNCHANGED <<control, compiled, runtime, releases, crashes>>

CheckApproval ==
    /\ task.at = "approval"
    /\ IF policy.require /\ ~Approved(task.revision)
       THEN task' = NoTask
       ELSE Goto(AfterGate)
    /\ UNCHANGED <<control, compiled, runtime, releases, crashes>>

-----------------------------------------------------------------------------
(* deploy_scenario(): the head, a revision, or the revision of a release.  *)

\* Mutant: only the head revision passes the gate.
DeployScenarioUngated(r, source) ==
    /\ task.at = "idle"
    /\ Len(releases) < MaxReleases
    /\ task' = [at |-> IF source = 0 /\ r = Len(revisions) THEN "breaking" ELSE "file",
                kind |-> "scenario", revision |-> r, source |-> source,
                mappings |-> revisions[r], require |-> policy.require, block |-> policy.block]
    /\ UNCHANGED <<control, compiled, runtime, releases, crashes>>

DeployScenario(r, source) ==
    /\ task.at = "idle"
    /\ Len(releases) < MaxReleases
    /\ task' = [at |-> IF source = 0 THEN "breaking" ELSE "file",
                kind |-> "scenario", revision |-> r, source |-> source,
                mappings |-> revisions[r], require |-> policy.require, block |-> policy.block]
    /\ UNCHANGED <<control, compiled, runtime, releases, crashes>>

\* Mutant: a rollback deploys the head.
RollbackToHead(n) == DeployScenario(Len(revisions), n)

Rollback(n) == DeployScenario(releases[n].revision, n)

WriteScenarioFile ==
    /\ task.at = "file"
    /\ scenarioFile' = task.mappings
    /\ Goto("runtime")
    /\ UNCHANGED <<control, bundle, worker, runtime, releases, crashes>>

\* The adapter replaces the scenario's mappings and sets its initial state.
DeployScenarioMappings ==
    /\ task.at = "runtime"
    /\ task.kind = "scenario"
    /\ served' = task.mappings
    /\ state' = task.mappings
    /\ Goto("record")
    /\ UNCHANGED <<control, compiled, bundled, releases, crashes>>

-----------------------------------------------------------------------------
(* deploy(): all mappings of the simulation, as they were compiled.        *)

\* Without mappings.json the simulation is compiled first.  Then the gate looks at
\* the head of the scenario, if there is one.
DeploySimulation ==
    LET inHand == IF bundle = NoFile THEN Stored ELSE bundle IN
    /\ task.at = "idle"
    /\ Len(releases) < MaxReleases
    /\ bundle' = inHand
    /\ task' = [at |-> IF revisions = << >> THEN "runtime" ELSE "breaking",
                kind |-> "simulation", revision |-> Len(revisions), source |-> 0,
                mappings |-> inHand, require |-> policy.require, block |-> policy.block]
    /\ UNCHANGED <<control, scenarioFile, worker, runtime, releases, crashes>>

\* Every mapping of the simulation is replaced, after an admin's reset of all states;
\* a scenario that has mappings and no state gets "Started".
DeployBundle(reset) ==
    LET kept == IF reset THEN NoDefinition ELSE state IN
    /\ task.at = "runtime"
    /\ task.kind = "simulation"
    /\ served' = task.mappings
    /\ state' = IF kept = NoDefinition THEN task.mappings ELSE kept
    /\ bundled' = TRUE
    /\ Goto("state")
    /\ UNCHANGED <<control, compiled, releases, crashes>>

\* The scenarios are read again: what is stored now gives the initial state.  A
\* scenario the runtime does not know is an error (502), after the mappings.
SetInitialState ==
    /\ task.at = "state"
    /\ IF NoDefinition \in {Stored, state}
       THEN task' = NoTask /\ UNCHANGED state
       ELSE state' = Stored /\ Goto("read")
    /\ UNCHANGED <<control, compiled, served, bundled, releases, crashes>>

\* The head of this moment and the scenario's mapping file are what is recorded.
ReadForRelease ==
    /\ task.at = "read"
    /\ task' = IF scenarioFile = NoFile THEN NoTask
               ELSE [task EXCEPT !.at = "record", !.revision = Len(revisions),
                                 !.mappings = scenarioFile]
    /\ UNCHANGED <<control, compiled, runtime, releases, crashes>>

-----------------------------------------------------------------------------
RecordRelease ==
    /\ task.at = "record"
    /\ releases' = Append(releases,
                     [revision |-> task.revision, fingerprint |-> task.mappings,
                      source |-> task.source, kind |-> task.kind,
                      require |-> task.require, block |-> task.block])
    /\ task' = NoTask
    /\ UNCHANGED <<control, compiled, runtime, crashes>>

\* Mutant: the reset state is that of the stored definition.
ResetToStored ==
    /\ task.at = "idle"
    /\ NoDefinition \notin {Stored, state}
    /\ state' = Stored
    /\ UNCHANGED <<control, compiled, served, bundled, task, releases, crashes>>

\* reset_scenario(): back to the reset state of the last released revision.
ResetScenario ==
    /\ task.at = "idle"
    /\ NoDefinition \notin {Stored, state}
    /\ state' = IF releases = << >> THEN Stored ELSE revisions[Last(releases).revision]
    /\ UNCHANGED <<control, compiled, served, bundled, task, releases, crashes>>

\* The process dies and is started again.
Crash ==
    /\ crashes < MaxCrashes
    /\ crashes' = crashes + 1
    /\ task' = NoTask
    /\ worker' = [t \in Threads |-> [kind |-> "none", definition |-> NoDefinition]]
    /\ IF Persistent THEN UNCHANGED <<served, state>>
                     ELSE served' = NoDefinition /\ state' = NoDefinition
    /\ UNCHANGED <<control, bundle, scenarioFile, bundled, releases>>

Init ==
    /\ revisions = << >>
    /\ policy = [require |-> FALSE, block |-> FALSE]
    /\ reviews = << >>
    /\ bundle = NoFile
    /\ scenarioFile = NoFile
    /\ worker = [t \in Threads |-> [kind |-> "none", definition |-> NoDefinition]]
    /\ served = NoDefinition
    /\ state = NoDefinition
    /\ bundled = FALSE
    /\ task = NoTask
    /\ releases = << >>
    /\ policies = 0
    /\ crashes = 0

Govern ==
    \/ \E d \in Definitions : Save(d)
    \/ \E new \in Policy : UpdatePolicy(new)
    \/ \E r \in DOMAIN revisions : RequestReview(r)
    \/ \E n \in DOMAIN reviews, verdict \in {"approved", "rejected"} : DecideReview(n, verdict)
    \/ \E t \in Threads :
           FinishCompile(t) \/ \E kind \in {"simulation", "scenario"} : StartCompile(t, kind)

Deploy ==
    \/ \E r \in DOMAIN revisions : DeployScenario(r, 0)
    \/ \E n \in DOMAIN releases : Rollback(n)
    \/ DeploySimulation
    \/ CheckBreaking \/ CheckApproval
    \/ WriteScenarioFile \/ DeployScenarioMappings
    \/ \E reset \in BOOLEAN : DeployBundle(reset)
    \/ SetInitialState \/ ReadForRelease
    \/ RecordRelease

Next == Govern \/ Deploy \/ ResetScenario \/ Crash

Spec == Init /\ [][Next]_vars

-----------------------------------------------------------------------------
(* Properties.                                                             *)

TypeOK ==
    /\ revisions \in Seq(Definitions)
    /\ policy \in Policy
    /\ reviews \in Seq(Review)
    /\ bundle \in Mappings \cup {NoFile}
    /\ scenarioFile \in Definitions \cup {NoFile}
    /\ worker \in [Threads -> [kind : {"none", "simulation", "scenario"}, definition : Mappings]]
    /\ served \in Mappings
    /\ state \in Mappings
    /\ bundled \in BOOLEAN
    /\ task \in Task
    /\ releases \in Seq(Release)
    /\ policies \in Nat
    /\ crashes \in Nat

\* A rule of the policy that stood from the start of a deployment to its end was
\* obeyed by the revision it released, whatever was saved, reviewed or changed
\* meanwhile; only a rollback may go back to what was released before.
Governed(release) ==
    release.source = 0 =>
        /\ release.require => Approved(release.revision)
        /\ release.block => ~IsBreaking(release.revision)

ScenarioReleasesAreGoverned ==
    \A n \in DOMAIN releases : releases[n].kind = "scenario" => Governed(releases[n])

\* As long as only scenarios are deployed and the process lives, the runtime serves
\* what the last release pins, in a state of that definition.
ServedIsReleased ==
    task = NoTask /\ crashes = 0 /\ ~bundled =>
        LET pinned == IF releases = << >> THEN NoDefinition
                      ELSE revisions[Last(releases).revision]
        IN served = pinned /\ state = pinned

\* A rollback is a new release of the revision its source pins (docs/api.md:191).
RollbacksPinTheirSource ==
    \A n \in DOMAIN releases :
        LET source == releases[n].source IN
        source # 0 => source < n /\ releases[n].revision = releases[source].revision

\* "Each release pins the definition revision and ETag plus a SHA-256 fingerprint of
\* the compiled mappings" (docs/api.md:179): the mappings of that revision.  Not kept by a
\* deployment of the simulation after a save that was not compiled.
ReleasesPinTheirMappings ==
    \A n \in DOMAIN releases : releases[n].fingerprint = revisions[releases[n].revision]

\* "Admins may require an approved, ETag-pinned review" (docs/api.md:197): after a
\* deployment under this rule the runtime serves an approved definition.
ServedIsApproved ==
    (task = NoTask /\ releases # << >> /\ Last(releases).require /\ Last(releases).source = 0)
        => \E r \in DOMAIN revisions : Approved(r) /\ revisions[r] = served
=============================================================================
