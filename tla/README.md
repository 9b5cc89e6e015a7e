# A verification project for Simuloom

Simuloom turns an API contract into a running simulation: it compiles mappings, lets
editors describe stateful scenarios, reviews and releases them, deploys them to a mock
runtime (an in-process "native" one, or WireMock), and lets an AI copilot propose
operations that an operator approves. REST, MCP and web requests act on the same
state at once: a workspace of JSON files, an SQLite "platform" database and the runtime.

The TLA+ modules here describe the parts of that behaviour that depend on the order in
which requests, worker threads, coroutines and crashes take their steps. TLC checks them
on small instances; TLAPS proves the main results for every instance.

Paths below are relative to `src/src/simuloom/` unless they begin with `docs/`, `tests/`,
`README` or `CHANGELOG`, which are relative to `src/`.

## How the program runs

* One process, one asyncio event loop. `async def` handlers are coroutines of the loop
  and give it up only at an `await` that really suspends; `def` handlers run in worker
  threads and interleave with everything.
* The file workspace (`core/repository.py`) replaces one file at a time atomically
  (temporary file, `os.replace`), and nothing larger than one file is atomic.
* The platform database (`core/platform_store.py`) runs every method, or every part of
  it, in a transaction under one lock; two calls are two transactions.
* The process may die anywhere. Files and databases stay, memory is gone.

## Inventory

| component | state | operations | what is hard | correct when |
|---|---|---|---|---|
| Scenario revision store `core/scenario_revisions.py` | `scenarios.json`, `history/<n>.json`, `revisions.json` | get, history, revision, save, restore | a read adopts an external change; three writes per save; definition read outside the lock | the history is an append-only log, the head is on file, If-Match is honoured |
| Background jobs `core/job_runner.py`, `platform_store` | table `platform_jobs`, the runner, request threads | submit, claim (two ways), update, stop, recover | two claimers, crash in a job, restart | one executor at a time, terminal means terminal, queued jobs end |
| AI copilot actions `api/routes.py`, `mcp/server.py` | rows of actions, copies in messages, outcome messages | approve (REST, MCP), reject, delete conversation | check-then-act in two transactions, awaits, exceptions | an operation runs at most once and what is told of it is true |
| Governance and deployment `core/scenario_approvals.py`, `scenario_releases.py`, `service.py` | policy, reviews, compiled files, releases, runtime | save, review, decide, compile, deploy (two ways), roll back, reset | compiled files and policy go stale under a deployment | what is released is governed, what is served is released |
| Team workspaces `platform_store` | table `platform_memberships` | authorize, set, remove | authorization and change are separate transactions | an admin remains |
| Native runtime `adapters/native.py`, `runtime/*.py` | mappings per simulation, ONE table of scenario states, ONE journal | deploy, execute, reset, restart | simulations share the tables; journal limit; memory or SQLite | a simulation behaves as if it were alone |
| WireMock adapter `adapters/wiremock.py` | the remote server | deploy, remove, set, reset | several HTTP calls per deployment, each may fail | after a deployment nothing else is served |
| Virtual clock, events `core/service.py` | clock files, scenario states | advance, publish, reset, reset all | the state is read, then set; saves and releases in between | states belong to the release, no time is lost |
| Scenario design `core/scenarios.py`, `scenario_graph.py`, `scenario_comparison.py` | none | accept, analyse, compare | overlapping handlers, cycles | an unflagged change keeps clients, every handler is reached |
| Evidence `core/evidence.py` and compiler `core/compiler.py`, `behavior.py` | runtime, report | compile, plan, execute, report | mappings overlap, profiles, clients beside a run | a passed report can be relied on |
| Test cases `core/cases.py`, `edge_cases.py`, `pairwise.py` | none | generate | bounds, caps | cases are what they claim, pairs are covered |
| Integrations `core/integrations.py` | integrations, secrets, circuits | create, delete, dispatch, retry | late results of concurrent deliveries | paused exactly while the endpoint fails |
| Audit logs `core/audit.py`, `core/locking.py` | JSON lines with a hash chain | append, verify, open | torn append, several writers | an event whose append returned verifies |
| Files `core/repository.py`, `workspace_backup.py`, `scenario_templates.py` | the workspace | create, import, write, backup, restore, template | no transaction over several files | what is listed can be read, a restore overwrites nothing and leaves nothing half done |
| AI assistant, access control, GitOps, metrics, configuration, console | | | | read-only, or wiring |

Components call each other inside the process: handlers call `SimulationService`, which
calls the stores under the workspace; jobs call back into the service; AI actions call
`deploy`, `compile`, `generate_data` and `reset_scenario` of the service. The stores of
one simulation share its directory, and the simulations of a process share the runtime:
that is where they meet.

## Plan

1. `ScenarioRevisions` implementing `RevisionLog` (done, proved)
2. `JobQueue` implementing `JobLifecycle` (done, proved)
3. `AIActions` (done, proved)
4. `Deployments` on the native runtime, over the log of 1 (done, safety proved)
5. `Memberships` (done, proved)
6. `NativeStore` (done, proved)
7. `ScenarioRuntime`: deployments to WireMock, virtual clock, events, resets (done, proved)
8. `Integrations` (done, proved)
9. `AuditLog`, `WorkspaceFiles` (done, proved)
10. `ScenarioDesign`, `CaseGeneration`, `Evidence` (done, proved)
11. Left: a platform store that fails under `JobQueue`; the fields of `simulation.json`

## The modules

| module | models | extends or uses |
|---|---|---|
| `RevisionLog` | what the revision store promises: an append-only log | |
| `ScenarioRevisions` | the revision store, one step per lock section or file write | instantiates `RevisionLog` |
| `ScenarioRevisions_proofs` | theorems | `ScenarioRevisions` |
| `JobLifecycle` | what polling clients see of jobs | |
| `JobQueue` | the job table, its two executors, shutdown, crash and restart | instantiates `JobLifecycle` |
| `JobQueue_proofs` | theorems | `JobQueue` |
| `AIActions`, `AIActions_proofs` | approval, rejection and outcome of proposed operations | |
| `Deployments`, `Deployments_proofs` | policy, reviews, compilation, both deployments, rollback, reset | |
| `Memberships` | members of a team workspace | |
| `Integrations` | deliveries and the circuit of their endpoint | |
| `AuditLog` | the hash chain of an audit file | |
| `NativeStore` | the tables that all simulations of a process share | |
| `ScenarioRuntime` | the scenarios of one simulation over both adapters: deploy, clock, events, reset | |
| `Runtime_proofs` | theorems about these two | `NativeStore`, `ScenarioRuntime` |
| `WorkspaceFiles` | creation, change, backup and restore, file by file | |
| `Platform_proofs` | theorems about these four | `Memberships`, `Integrations`, `AuditLog`, `WorkspaceFiles` |
| `Orders` | what loops over lists keep of them, and in which order | |
| `ScenarioDesign` | scenario definitions: acceptance, graph, replays, comparison | extends `Orders` |
| `Evidence` | compiled mappings and validation runs | extends `ScenarioDesign` |
| `CaseGeneration` | edge cases and pairwise rows of one operation | extends `Orders` |
| `Design_proofs` | theorems about definitions, their replays, edge cases and covering rows | `ScenarioDesign`, `CaseGeneration` |
| `Evidence_proofs` | theorems about the reports of validation runs | `Evidence`, `Design_proofs` |
| `MCPlatform` | one process: store, scenarios, members, integrations, audit, files | extends six modules |
| `MCDesign` | revisions, validation, case generation | extends `Evidence`, `CaseGeneration` |
| other `MC...` | constants and symmetry for TLC | |

The modules that `MCPlatform` and `MCDesign` put together share no variable, so their steps
commute and interleaving them would show nothing that one of them alone does not. A
variable `focus`, chosen in the initial state, says which of them moves.

An operator introduced by "Mutant:" in a comment is a broken version of the definition
below it. It is used nowhere in the specification; putting it in the place of that
definition must make the property named beside it in `PROJECT.json` fail, which shows
that the property can tell the difference.

### ScenarioRevisions

Each worker thread has a program counter over the steps of a request. `ReadDefinition` is
`get_scenario` up to the call of `current()`: the definition is taken from
`scenarios.json` without the lock. `CurrentMatches` and `CurrentDiffers` are the two
outcomes of `_current()`; the second adopts the definition in hand in two writes
(`AdoptHistory`, `AdoptMetadata`). `ListHistory` and `ReadRevision` are `history()` and
`revision()`. A save takes the lock in `SaveNew` or `SaveExisting`, brings the head up to
the stored definition, then is refused, finds nothing changed, or is accepted and writes
three files (`WriteScenario`, `WriteHistory`, `WriteMetadata`). `Crash` drops the threads
and the lock between any two steps.

The data is abstracted to what the properties tell apart: an ETag is a hash of the
definition, so a definition is its own ETag; timestamps, names and counts are left out;
the author of a revision is the way it came about. One scenario is modelled. Scenarios
share `revisions.json` and `scenarios.json`, but each is changed under the lock of
the store or of the repository by rewriting one key. Deletion of a scenario does not exist
in the code.

### JobQueue

`Stamp` and `Insert` are the two halves of `create_job`: the time of creation is read
before the transaction that inserts the row, so a later row can carry an earlier time.
`ClaimJob` is the background task, `ClaimNextJob` the runner. `FinishRequest` and
`FinishRunner` end an execution through `update_job`, which does not look at the row.
`Stop`, `Exit`, `Crash` and `Start` are the life of the process; `Start` is
`_recover_interrupted_jobs`. What a job computes only reads; it ends well or raises.

### AIActions

`thread`, `status`, `shown` and `reports` are the database rows. The two approval handlers
(`approve_ai_chat_action`, `approve_ai_action`) are one set of actions with a `route`,
because they differ only in the exceptions they record (`Recorded`). Both are coroutines:
`LoopIsFree` lets another approval start only when none is between two awaits.
`generate_data` and `compile` end on the loop (`OperateInline`), `deploy` and
`reset_scenario` may suspend (`OperateAwait`, `Resume`). Rejections and deletions are
worker threads and take their steps at any time. Cancellation of a request by its client
is not modelled.

### Deployments

Worker threads save revisions, change the policy, ask for and decide reviews, and compile
in two steps (read the definition, write the file). One coroutine (`task`) deploys; the
native adapter never suspends it (its lock is free whenever the loop is), so deployments
do not interleave with each other, but they do with the threads, between any two reads. A
save is one step here, since `ScenarioRevisions` implements the append-only log used here;
the adoption of external changes is a save. The fields `require`, `block` and `kind` of a
task and of a release are ghosts: they remember which rules of the policy stood during the
whole deployment.

### Memberships

`Authorize` is the transaction that reads the caller's role, `SetMember` and
`RemoveMember` the later ones that change the table.

### NativeStore

The adapter holds its lock for a whole operation, so each operation is one action. `states`
is one table keyed by scenario name with the simulation that made the row as its owner, as
in `runtime/memory.py` and `runtime/sqlite.py`; `events` is one journal, of which
`Appended` keeps the newest of the event's simulation: a set of numbered records, since the
number is the place of an event in the list. `Execute` chooses the first mapping
of the request in the current state. The ghosts `alone` and `history` hold what each
simulation would have if it were the only one; the properties compare the tables with
them. Matching of paths, queries and bodies, and priorities, are not in this module:
`Evidence` has the priorities.

### ScenarioRuntime

Operations are coroutines that take their steps through `task`. Over the native adapter
(`remote = FALSE`) one is in progress at a time, since none of its awaits suspends. Over
WireMock each `await` is an action, so two operations and clients interleave, and `Fail`
lets any call fail before or after its effect. A deployment lists the mappings of the
scenario (`List`), deletes them one by one, posts the new ones, sets the state
(`DeployState`) and records the release; the `except` clause is `CleanUp`. The order of
deletions is WireMock's, hence any. `Advance`, `Publish`, `ResetScenario` and `ResetAll`
are a list of scenarios of which each is read (`ReadState`), moved (`Target`) and set
(`SetState`). `Target` has every outcome of the code, the exceptions included: a scenario
that is not deployed, a cycle of timeouts, a state the definition does not declare.
`Traversal` follows the timeouts of a state one by one, at most one more than there are
states, where the code gives up. `Declared` is what the validator of a definition
(`models.py:535`) has accepted.
`settled` and `since` are ghosts.

### Integrations

`BeginDispatch` is `dispatch()` up to its first request, `Attempt` one request and its
answer, `RecordFailure` and `ClearCircuit` the transaction at the end. The circuit is read
once; what happens between is the point of the module. Time is a counter, `Cooldown` a
number of its ticks, and the delay between attempts is any number of ticks. The
in-memory circuit that is used without a platform store is not modelled.

### AuditLog

A hash stands for the event it is the hash of, so a line `Follows` the one before it by its
event number, and `Verified` are the lines up to the first that does not. `append()` verifies the whole file under the file lock before it writes, so an
append is one action. `LosePower` may leave nothing, a part of a line, a line without
its newline, or a whole line; an `AuditLog` that is opened later refuses a file
that does not verify.

### WorkspaceFiles

An operation is the list of files whose absence it checks and the list of those it writes;
`CheckFile` and `WriteFile` take one each. The lists come from the handlers (`Writes`).
Any write may fail (`FailWrite`): the disk is full, or `archive.read`, `mkdir` or
`write_bytes` of a restore raises for its entry; what was written before stays. `Kill` and
a failed write may leave a file that is written in place (templates, restored files) torn;
files of a simulation are replaced atomically. A restore takes the last backup or any other
archive that a client uploads (`Foreign`); the ghost `foreign` tells the properties that
are about backups only. `Unknown` stands for the fresh random id of a new simulation. Only
presence and completeness of the files matter to the properties; contents are left out, and
therefore a backup is one step: `create_workspace_backup` lists the files and then reads
them, and no file that it lists is deleted meanwhile.

`RestoredIsWhole` is what the order of a backup gives: `simulation.json` sorts after the
contract, the profile, the data, the mappings and the scenarios, so whatever a restore that
fails or is killed leaves behind is not listed until all of them are there.

### ScenarioDesign, Evidence and CaseGeneration

`ScenarioDesign` has the data of scenarios: `Save` accepts a definition as the model
validators and `validate_scenario_contract()` do; `Reachable` and `Paths` are the two
breadth-first searches of the code, round by round, and are compared with `Walked`, the
states that walks of each length reach; `Changes` is `compare_scenario_revisions()`.
`Answer` is the first handler of a state that `Matches` a request, the one that both
adapters choose. Clients of a definition send the requests of its handlers (`Triggers`).

A request is the path it is sent to, its body, and the set of its query parameters and
headers. A handler has its query in the path (`query`) and parameters beside it (`extra`).
What makes two handlers of a state ambiguous is the path with its query and the body
(`Trigger`, `scenarios.py:83`); what a handler answers to is a pattern (`PatternOf`,
`Demands`), which takes every request that has its parameters, whatever else the request
has (`Takes`, `native.py:173`). A parameter has one value in a request.

`Evidence` compiles a workspace (`Mappings`), plans cases from it (`Plan`) and sends them
one by one to an interpreter of the mappings (`Execute`), as `EvidenceService` does; a
case is two steps (`SendCase`, `ObserveCase`), and clients may come between them: the
"slow" profile, a handler's own delay and every call to WireMock suspend the run. An
answer is its status and what it says, and `ObserveCase` compares both: `Conforming` has
the bodies that the documented schema of an operation's status allows, and what the compiler
samples (`Sample`) need not be one of them. The base mapping of an operation takes the paths
of its `Template`, which can be paths of another operation too; the first one that matches
answers. The compiler and a validation generate pairwise rows under limits of their own
(`pairs`, `rows`). `Passes` is the verdict with all its coverages. A workspace is generic or has the eligibility journey. A pair has an id that
begins with its operation, so the sum of the operations' totals is the number of all
required pairs (`RequiredPairs`).

`PassedMeansServed` says of each handler that there are states of the OTHER scenario names
in which it answers as it says. It cannot say more: an event of another scenario, the journey
or a profile may answer for a handler, and the run tries each handler once.

`GeneratedCasesPass` says when every generated case must pass, and its conditions name
what the generators let go wrong:

* path templates of two operations match a common path, as those of `/orders/{id}` and
  `/orders/search` do, and the first answers for the second (`PathsAreApart`);
* what is sampled, stored or said by the journey does not validate against the documented
  schema: `sample_from_schema` (`compiler.py:28`) knows no `pattern` and no
  `exclusiveMinimum` (`SamplesConform`);
* a planned edge case or row is beyond the compiler's cap (`AllCompiled`);
* a negative case is also a valid request, as that of a cookie is, or one to an operation
  that answers any body, as the journey's first does (`NegativesStandOut`);
* a limit cut the rows off before they had every pair (`PairsAreComplete`), and the
  report is "failed";
* the contract of the journey has other paths or another success than its cases
  (`JourneyIsDocumented`);
* a degraded profile, which spares no edge or pairwise case.

Each of them holds in some of the workspaces of the run and fails in others, where generated
cases do fail, so the property is not empty and needs its conditions.

`CaseGeneration` generates the edge cases of an operation (`EdgeRequests`) and grows the
covering rows as `_covering_rows()` does, factor by factor (`ChooseOperation`,
`NextFactor`, `GrowRow`, `AddRow`, `EndFactor`, `Finish`): each step gives one more row a
value of the newest factor, or adds one row. Which of the pairs that are left is taken
first, the code decides by their text; here it is any fixed choice, and nothing that is
stated depends on it. A value is a kind and a number: an integer, or the
length of a text or list. The edge cases are a set, since nothing depends on the order in
which the code lists them.

## The runs

| run | shows |
|---|---|
| `MCScenarioRevisions` | two threads, two definitions, three requests, one crash: `HeadIsFiled`, `AnswersStayOnFile`, `NoLostUpdate`, refinement of `RevisionLog`; `RequestsComplete`: no path keeps the lock |
| `StaleReadRevisions` | violation: saving the stored definition again creates a revision |
| `MCJobQueue` | three jobs, two stops or crashes: `OneExecutor`, `RepeatedOnlyByCrashes`, refinement of `JobLifecycle`; `QueuedJobsEnd` |
| `MCAIActions` | two actions, two requests at a time, one crash: `ExecutedAtMostOnce`, `OutcomesAreTrue`, `MessageFollowsRow`, `ApprovedIsInProgress`, `ApprovalsConclude` |
| `RejectAfterRun` | violation: an executed operation stands as rejected |
| `MCDeployments` | two definitions, one of them breaking the other, two revisions, one review, two releases, a policy change, a crash: `ScenarioReleasesAreGoverned`, `ServedIsReleased`, `RollbacksPinTheirSource` |
| `UnapprovedServed` | violation: an unapproved definition is served under the approval rule |
| `MCDesign` | pairs of revisions of three-state scenarios with queries, headers and bodies: `NonBreakingKeepsClients`, `ReplaysAreShortest`; validation of workspaces with datasets, two scenarios, the journey, a scenario beside the journey, overlapping templates, samples that do not conform, edge and pairwise cases and every profile, beside a client: `PassedMeansServed`, `GeneratedCasesPass`; operations of up to four fields: `EdgesKeepPolarity`, `CoveringIsComplete` |
| `MCPlatform` | store: two simulations that share a journey, four requests, a journal of two: `ScenariosAreIsolated`, `JournalIsOwnNewest`; scenarios: two of them, two operations at a time, both adapters, a failure, a crash: `ServedIsLastRelease`, `StatesAreReleased`, `NoTimeIsLost`; members: three of them, two requests: `TypeOK`, `RemovalsKeepAnAdmin`; integrations: two deliveries at a time, four in all, a threshold of two: `PausedIffFailing`, `ClosedEarlyOnlyByEarlier`; audit: two objects, five appends, two outages: `AcknowledgedEventsVerify`; files: two requests at a time, four in all, writes that fail, an archive no backup made, a kill: `ListedHasContract`, `RestoredIsWhole` |
| `SharedJourney` | violation: a request to one simulation moves the state of another |
| `RestoreOverwrites` | violation: a restore writes over a template |
| `RestoreHalfWritten` | violation: a restore that fails has written files |

`CHECK_DEADLOCK FALSE` stands where the number of requests, jobs or decisions is bounded,
so that the system stops when they are used up, or where a model computes a result once
(`MCDesign`).

### What the violations show

* **Stale read.** A read that is overtaken by a save hands an outdated definition to
  `current()`, which adopts it as an "external-change" head (`service.py:176`,
  `scenario_revisions.py:59`). The next save of the definition that is still stored
  creates one more revision, although `docs/api.md:154` says "Saving an unchanged
  definition does not create a revision."
* **Reject.** `reject_ai_chat_action` (`api/routes.py:792`) checks in one transaction and
  writes in another. `docs/api.md:48`: "Reject an inert proposal".
* **Unapproved deployment.** `deploy()` (`service.py:891`) checks the head revision and
  deploys `mappings.json` as an earlier compilation left it. `docs/api.md:197`.
* **Shared journey.** Every simulation with the eligibility journey gets mappings with the
  same scenario name (`compiler.py:240`), and the stores keep one row per name
  (`runtime/memory.py:42`, `runtime/sqlite.py:106`): a request to one simulation moves the
  other. `docs/api.md:327`: "The native adapter isolates mappings, state, and journal
  events by simulation ID." It does so for configured scenarios and profiles, whose names
  contain the id (`ScenariosAreIsolated`), and for the journal (`JournalIsOwnNewest`).
* **Restore.** `restore_workspace_backup` (`workspace_backup.py:60`) checks all targets,
  then writes all files, on the event loop; a template is created by a worker thread
  (`scenario_templates.py:28`). `README.md:594`: "Restore is merge-only and never
  overwrites an existing file."
* **Half a restore.** `restore_workspace_backup` reads an entry when it writes it
  (`workspace_backup.py:64-66`): when `archive.read` finds it damaged or encrypted, or
  another entry has put a file where it needs a directory, the entries before it are on
  disk and stay. `docs/api.md:225-226`: "Restore validates all entries before writing".

### What the code does not keep

Five more properties stand in their modules, are contradicted by the code, and have no
run of their own; adding them to the configuration of the module's run shows it:

* `ReadRevisionsAreImmutable` (`ScenarioRevisions`): a crash after the history file and
  before `revisions.json` leaves a file that `history()` shows; the next save writes over it
  (`scenario_revisions.py:65`, `124`). `docs/api.md:15`: "Read an immutable revision".
* `ReleasesPinTheirMappings` (`Deployments`): `deploy()` records the head revision with the
  fingerprint of whatever the scenario's mapping file holds (`service.py:908`).
  `docs/api.md:179`.
* `AdminRemains` (`Memberships`): `set_member` (`platform_store.py:262`) has no check like
  the one of `remove_member`, whose message says "A workspace must retain at least one
  admin".
* `AmbiguousAreRejected` (`ScenarioDesign`): handlers are ambiguous only when path, query
  and body are the same (`scenarios.py:83`); one without a body, or without a query, takes the
  requests of one after it that has one. `docs/api.md:138`: "ambiguous handlers ... are
  rejected".
* `NegativesAreMutations` (`CaseGeneration`): `_parameter_request` (`edge_cases.py:342`)
  has no branch for cookies, so the negative case of a required cookie is the valid
  request. `docs/api.md:259`: "Execute one invalid mutation at a time".

## Bounds

Two threads are enough for a read or a save to be overtaken by another: every hazard of
the stores is a check and an act with one other act in between. Two definitions tell a
change from its undoing. Three requests allow an adoption and a save under the feet of a
third request; the violation runs get six. Three jobs let a queue form behind
a running job while another is submitted, and two stops let a second crash hit a job
requeued by the first. Two requests at a time, which start again when they are
done, allow two approvals, or an approval and a rejection, of the same action and work on
the other; the violation run has three. Two releases are what a rollback, a reset
after a rollback and a second deployment need; two revisions are what a breaking change
needs. `MaxRequests`, `MaxCrashes`, `MaxDowns`, `MaxRevisions`, `MaxReviews`,
`MaxReleases` and `MaxPolicies` are guards of the actions that count; the theorems hold for
every value of them.

`MCPlatform`: two simulations are what sharing needs, and four requests fill a journal of
two and move a state twice. Two scenarios let an event go half way; a definition with two
handlers lets a deployment to WireMock stop between two mappings; `Cycle` has timeouts that
never end, and advances of 1 and 3 ms stop short of a timeout and run through two. Three
calls are a deployment, one that overlaps it and an operation after both. A threshold of
two with two deliveries at a time and a third and fourth after them lets a late
success meet an open circuit and a failure be counted that began before another; four
ticks pass a cooldown of two and begin the next. Two outages in five appends leave a torn
line, and a line without its newline to which another is glued. Four operations over two
requesters are a creation, a change, a restore after a loss, and a template beside it; one
foreign archive, with nothing but the file that lists a simulation, is the worst. `MaxSaves`, `MaxCalls`, `MaxFailures`, `MaxCrashes`, `MaxServed`, `MaxDispatches`,
`MaxTime`, `MaxEvents`, `MaxOutages`, `MaxOperations` and `MaxKills` are guards.

`MCDesign`: the lists of handlers contain every shape the definitions tell apart (any body
or one, a query in the path or parameters beside it, moving or not, documented status and
body or not, both orders of an overlapping pair). The
limits of the code stand scaled down where the real one would never be reached: 7 cases
instead of 500 (`MaxPlan`), which some of the scenarios exceed; 3 compiled and 2 planned
edge cases per operation. A scenario that shares an operation with the journey is answered
for by it in some states. `MaxFactors`, `MaxValues` and `Resolution` have the values of
the code, and a plan is always shorter than `Resolution`, 500 to 10000
(`WorkspaceAssumption`); `SyntheticLength` stands for the length of a synthetic text. `MaxRevisions` and
`MaxRequests` are guards.

Symmetry is used in runs without liveness only, on sets whose members
are interchangeable.

## Fairness

* `ScenarioRevisions`: a thread that waits for the lock gets it some day (strong fairness
  of `Acquire`), one that holds it runs on (weak fairness of `Proceed`). Clients are under
  no obligation.
* `JobQueue`: the runner's loop polls every half second (`job_runner.py:51`), and jobs,
  which are bounded reads, end. Background tasks, clients and operators have no
  fairness: the runner alone must be enough.
* `AIActions`: the event loop serves its ready coroutines in turn and the HTTP client has
  a timeout, so each request that can go on infinitely often goes on (strong fairness,
  since the loop may be taken in between).
* The other modules state safety only: their operations are finite sequences of steps
  that clients start, and what must eventually happen is only that an HTTP call returns.

## What is proved

All theorems hold for every value of the constants allowed by the `ASSUME` of the module:
any numbers of threads, definitions, jobs (finitely many ids), actions, requests,
revisions and crashes.

* `ScenarioRevisions_proofs`: types; `HeadIsFiled`; `AnswersStayOnFile`; `NoLostUpdate`;
  `ImplementsRevisionLog`. The invariants of the runs are not inductive: a state in which a
  thread is about to write a revision whose number is on file would break them. The
  inductive invariant adds that only the holder of the lock is inside a critical section,
  that what it is about to write is numbered one above the head, that the file it is
  about to record exists, and that what was answered is not above the head.
* `JobQueue_proofs`: types; `OneExecutor`; `RepeatedOnlyByCrashes`;
  `ImplementsLifecycle`. The strengthening relates the executors to the status of the row
  (`RunningIsAtWork`), says that a process that is not up has no requests, and counts the
  begun runs against the crashes by status (`RunsAreCounted`).
* `AIActions_proofs`: types; `ExecutedAtMostOnce`; `OutcomesAreTrue`; `MessageFollowsRow`;
  `ApprovedIsInProgress`. The argument is that a claim excludes every other one for good:
  a claimed action is never "proposed" again, not even after a rejection
  (`ClaimsAreExclusive`), and what has happened to it follows the step its one
  request is at (`Progress`).
* `Deployments_proofs`: types; `ScenarioReleasesAreGoverned`; `RollbacksPinTheirSource`.
  The gate looks at facts that no later step changes, the comparison of two recorded
  revisions and an approval (`PastIsSettled`); the policy does change, and the
  ghosts of the task follow it (`RulesStand`), so a rule that still counts at the end
  also stood when the gate asked for it (`GateIsPassed`).
  `ServedIsReleased` needs that between the change of the runtime and the record of the
  release the runtime is one release ahead, with the definition of the running task
  (`RuntimeFollowsLog`), and that what a release pins never changes.
* `Platform_proofs`:
  * of `Memberships`: types; `RemovalsKeepAnAdmin`, since the count and the deletion are
    one transaction;
  * of `Integrations`: types; `PausedIffFailing`; `ClosedEarlyOnlyByEarlier`. The row of
    the circuit is a function of the failures recorded since the last success
    (`CircuitIsOfFailures`), which no delivery's stale read enters; every delivery under
    way began while the circuit was closed (`AllAreEarly`);
  * of `AuditLog`: `AcknowledgedEventsVerify`. What an append writes verifies only if it
    is a line of its own, so the invariant has to know what a missing newline means: unless
    an outage left a whole line without one, the line that lacks it does not verify
    (`TornLineRefuses`), and then nothing is appended at all.
  * of `WorkspaceFiles`: `ListedHasContract` and `RestoredIsWhole`, from one invariant
    (`FilesInv`) that stands while only backups are restored. Every list of files to write
    has the contract once and before the simulation (`ContractFirst`), also the list of a
    backup, which is taken from the files in their order; of two operations at most one
    has the contract to write (`Apart`), so that a restore which fails or is killed in the
    contract leaves no listed simulation. What a restore has written of the simulation is
    whole, since no other operation writes in place but templates, and what it has still to
    write ends with the simulation (`Restores`).
* `Runtime_proofs`:
  * of `NativeStore`: `ScenariosAreIsolated`, from the assumption that the names of two
    simulations only meet in `Journeys`, which is what the compiler's naming gives. The
    inductive invariant says more than the states: in its own names a simulation has the
    same rows as alone, and owns each of them (`SameRows`), since a reset goes by owner;
    and what is deployed has a row for each of its names (`DeployedAreCompiled`).
    `JournalIsOwnNewest` rests on `NewestOfNewest`: to keep the newest of what was kept
    and a newer event is to keep the newest of all, a comparison of cardinalities;
  * of `ScenarioRuntime`: `ServedIsLastRelease`, `StatesAreReleased`, `NoTimeIsLost`, from
    the one invariant `RuntimeInv`. Its first part holds over both adapters: a deployment
    that is alone in its scenario knows how far the mappings are from what it deploys at
    every step (`Progress`: what it has still to delete, what it has posted), and one that
    is not alone settles nothing. Its second part, on the native adapter, says that one
    operation is in progress at a time, that the state it is about to set is declared by
    the last release, and that what a traversal of timeouts leaves of the time, and
    what passed in it, are all the time there was. The definitions are those the
    validator accepts (`ReleasedAssumption`, `models.py:535`): finitely many states, and
    every state that is named is declared.
* `Design_proofs`:
  * of `ScenarioDesign`: `NonBreakingKeepsClients`, for any set of definitions that users
    may submit (`CandidateAssumption`: handlers are lists, every state has its place in
    `StateNames`, and none is named like "no new state"). It needs little of the history, that
    every saved definition was accepted (`SavedInv`); the work is in the operators: the first
    of the handlers that match exists and is before every other one (`FirstAnswers`), the
    names of a state's handlers are different because they are as many as the handlers
    (`NamesAreUnique`, a comparison of cardinalities), so a name finds its handler in the
    other revision, and a handler whose request is not reported as changed takes the same
    requests (`SamePattern`);
    `ReplaysAreShortest`, by the invariant of a breadth-first search over its rounds
    (`SearchInv`): every state found has a path that is a walk, the states that wait are in
    the order of their distances, the last at most one step farther than the first, and the
    targets of the states already left are found. Each round leaves one state that no
    round left before, so as many rounds as there are states leave none. The
    search is a recursive function over the numbers 0 to N, not over data: that it
    exists and obeys its equation is proved by the least number for which it would not
    (`HasLeast`), and so is what each round keeps;
  * of `CaseGeneration`: `EdgesKeepPolarity`, for any operations whose sizes are natural
    numbers and whose bounds are integers (`OperationAssumption`). That the first
    representative of a schema is allowed shows that its bounds do not contradict each
    other, and then each bound is a value that all of them allow;
    `CoveringIsComplete`, for any positive limits (`LimitAssumption`, `models.py:332`). That
    the rows are complete at the end does not follow from one factor to the next: the
    invariant `CoverInv` adds that what is uncovered is exactly the required pairs that no
    row has, that below the limit the pairs of the earlier factors are covered (`Full`) and
    stay so while rows grow, and that any two rows differ in a factor that both have
    (`Apart`), which a row added for an uncovered pair does, and a row that grows cannot
    lose. That the greedy step finds a best value at all rests on the finiteness of a
    row's pairs (`SomeValueIsBest`), and that the first rows cover the first two
    factors on the division that numbers them (`PairHasPlace`).

* `Evidence_proofs`, for any workspaces, options, requests and caps:
  * `PassedMeansServed`, by `EvidenceInv`: the plan under way is that of the workspace, which
    has every handler of every state with a path; the answer under way is that of the state
    its case was sent in (`AnswerStands`), although the states have moved since; what was
    recorded of an undisturbed run was shown (`ResultsAreShown`). At the end, coverage of 100
    percent must mean full coverage: covered and declared states are at most two per case,
    so with `MaxPlan < Resolution` rounding cannot make 100 of less
    (`WorkspaceAssumption`; at 500 cases and two decimal places the code has room);
  * `GeneratedCasesPass`, by `GeneratedInv`, which adds that every case so far passed and
    the states are those in which the next one is due (`CasesPass`, `Due`), for the
    workspaces that the conditions of the property allow. The mappings of an
    unconfigured workspace are taken as sets by their source, and the answer to a request
    is that of a most urgent one that matches it, in its profile; the cases that
    precede the journey's are planned in pairs, so the alternating profile is even or
    odd with the place of the case; the journey's three cases follow its
    states; and edge and pairwise cases find their own mapping, or one with the same answer.
    A request is taken by the patterns of its own operation only, because the templates match
    no common path (`PathsAreApart`), and what answers it conforms (`SamplesConform`).
    A complete run then covers exactly its required pairs. `CaseAssumption` says what the
    generators give: paths of the operation's template, nothing that the case's own mapping
    forbids, two polarities, pairs of the case's own operation, and ids of members in the
    paths of member checks.

Every safety invariant and action property of the passing runs is proved. Only
model-checked are the liveness properties `RequestsComplete`, `QueuedJobsEnd` and
`ApprovalsConclude` (fairness is out of the prover's reach) and the violations, which are
counterexamples.

## Not modelled, and why

* The language model and its tools: arbitrary answers, which enter `AIActions` as
  arbitrary proposals.
* GitOps snapshots and manifests: read-only projections.
* API keys and roles: a comparison per request; the admin role is in `Memberships`.
* Metrics, configuration, wiring, the web console.
* Requests that give a parameter two values (compilers and runtime take the last one or the
  first), a second path with a member id, contracts with only a part of the eligibility
  operations, and faults that a handler injects.
* OpenAPI parsing, formats, unions and nested schemas, and random members: data that none
  of the properties reads. Schemas of responses are the relation `Conforming`.
* Instantiation and promotion of templates: a save of a revision, which
  `ScenarioRevisions` has.
* Deployment of a whole simulation to WireMock: unlike that of a scenario it has no
  cleanup and no promise after a failure.
* The fields of `simulation.json`: `activate_profile` and `update_status` read, change and
  write it without a lock, and nothing but the status a listing shows depends on it.
* Failures of SQLite and of the disk, except as a crash and, in `WorkspaceFiles`, as a write
  that fails. One that is real: an exception of
  `update_job` inside the runner's `except` clause ends the runner (`job_runner.py:42`).
