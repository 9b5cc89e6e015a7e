--------------------------- MODULE ScenarioRuntime ---------------------------
(***************************************************************************)
(* The scenarios of ONE simulation while they are served: deployments, the *)
(* virtual clock, inbound events and resets, over the native adapter or    *)
(* over WireMock.  Each operation is a coroutine.  The native adapter      *)
(* never suspends it, so no other operation and no client comes between    *)
(* its steps; over WireMock each step is an awaited HTTP call, which may   *)
(* fail with or without its effect.  Reviews and the compiled bundle are   *)
(* in Deployments.                                                         *)
(***************************************************************************)
EXTENDS Naturals, Sequences, SequencesExt, FiniteSets, TLC

CONSTANTS
    ScenarioIds,    \* in the order of their files; some of them exist
    Released,       \* definitions: [initial, reset, clients, timeout, topics, handlers]
    Topics,
    Advances,       \* milliseconds by which the clock is advanced
    Operations,     \* the operations that may be in progress
    NotDeployed,    \* the runtime does not know the scenario
    Remotes,        \* which adapters: TRUE is WireMock
    MaxSaves, MaxCalls, MaxFailures, MaxCrashes     \* bounds

Scenarios == ToSet(ScenarioIds)

ASSUME RuntimeAssumption ==
    /\ ScenarioIds \in Seq(Scenarios)
    /\ Advances \subseteq Nat \ {0}
    /\ Remotes \subseteq BOOLEAN
    /\ {MaxSaves, MaxCalls, MaxFailures, MaxCrashes} \subseteq Nat
    /\ "none" \notin Topics

StatesOf(d) == DOMAIN d.timeout

\* ScenarioDefinition: what a definition names are states that it declares, finitely many,
\* and each of them has a handler.
Declared(d) ==
    /\ IsFiniteSet(StatesOf(d))
    /\ d.handlers \in Nat \ {0}
    /\ {d.initial, d.reset} \subseteq StatesOf(d)
    /\ \A state \in StatesOf(d) :
        /\ d.timeout[state].after \in Nat
        /\ d.timeout[state].after # 0 => d.timeout[state].to \in StatesOf(d)
        /\ d.clients[state] \subseteq StatesOf(d)
        /\ \A topic \in DOMAIN d.topics[state] : d.topics[state][topic] \in StatesOf(d)

ASSUME ReleasedAssumption == \A d \in Released : Declared(d)

VARIABLES
    remote,     \* the adapter is WireMock
    saved,      \* the revisions of each scenario
    released,   \* the revision numbers of its releases
    stubs,      \* runtime: its mappings, [definition, part, by]
    current,    \* runtime: its state
    clock,      \* scenarios/clocks/<id>.json
    task,       \* each operation in progress
    calls, failures, crashes,   \* counters of the bounds
    settled,    \* ghost: the last release was deployed with no other deployment around
    since       \* ghost: virtual time since the scenario entered its state

files == <<saved, released, clock>>
counters == <<calls, failures, crashes>>
runtimeVars == <<remote, files, stubs, current, task, counters, settled, since>>

-----------------------------------------------------------------------------
NoOperation == [op |-> "none"]
NoClock == [state |-> NotDeployed, elapsed |-> 0]
Idle == \A o \in Operations : task[o] = NoOperation

\* read_scenarios().
Defined == {s \in Scenarios : saved[s] # <<>>}

\* Of a set of scenarios the one that comes first.
First(some) ==
    ScenarioIds[CHOOSE i \in DOMAIN ScenarioIds :
                    ScenarioIds[i] \in some /\ \A j \in 1..(i - 1) : ScenarioIds[j] \notin some]

\* Mutant: the definition as it is saved now.
SavedDefinition(s) == Last(saved[s])

\* releases[0] is the newest release; before the first one, the saved definition.
DefinitionOf(s) == IF released[s] = <<>> THEN Last(saved[s]) ELSE saved[s][Last(released[s])]

Enter(s, state) ==
    /\ current' = [current EXCEPT ![s] = state]
    /\ since' = [since EXCEPT ![s] = IF state = current[s] THEN @ ELSE 0]

-----------------------------------------------------------------------------
(* The virtual clock.                                                      *)

\* Mutant: what is left of the time is forgotten when a timeout fires.
SpendAll(elapsed, timeout) == 0

Spend(elapsed, timeout) == elapsed - timeout

\* A place is where a traversal of the timeouts got: a state, the time it has left, the
\* time that passed and how many timeouts fired.
Fires(d, place) ==
    /\ d.timeout[place.state].after # 0
    /\ place.elapsed >= d.timeout[place.state].after

Fired(d, place) ==
    LET timeout == d.timeout[place.state] IN
    [state |-> timeout.to, elapsed |-> Spend(place.elapsed, timeout.after),
     passed |-> place.passed + timeout.after, fired |-> place.fired + 1]

Onward(d, place) == IF Fires(d, place) THEN Fired(d, place) ELSE place

\* One traversal: at most one timeout more than there are states.
Traversal(d, state, elapsed) ==
    LET last == Cardinality(StatesOf(d)) + 1
        path[k \in 0..last] ==
            IF k = 0 THEN [state |-> state, elapsed |-> elapsed, passed |-> 0, fired |-> 0]
            ELSE Onward(d, path[k - 1])
    IN  path[last]

\* A clock that was written in another state starts again.
ElapsedIn(s, state) == IF clock[s].state = state THEN clock[s].elapsed ELSE 0

-----------------------------------------------------------------------------
(* Operations begin.  On the native adapter one at a time is in progress.  *)

MayBegin(o) ==
    /\ task[o] = NoOperation
    /\ calls < MaxCalls
    /\ remote \/ Idle
    /\ calls' = calls + 1

Deploying(s) == {o \in Operations : task[o].op = "deploy" /\ task[o].scenario = s}

\* alone and number are ghosts.  deploy_scenario(); a rollback deploys an older revision in the same way.
BeginDeploy(o, s, r) ==
    LET others == Deploying(s)
        deployment == [op |-> "deploy", at |-> "list", scenario |-> s, revision |-> r,
                       definition |-> saved[s][r], todo |-> {}, part |-> 1,
                       cleaning |-> FALSE, number |-> calls, alone |-> others = {}]
    IN
    /\ MayBegin(o)
    /\ task' = [p \in Operations |->
                    IF p = o THEN deployment
                    ELSE IF p \in others THEN [task[p] EXCEPT !.alone = FALSE] ELSE task[p]]
    /\ settled' = [settled EXCEPT ![s] = FALSE]
    /\ UNCHANGED <<remote, files, stubs, current, failures, crashes, since>>

\* The operations that read the state of scenarios and set it: advance and reset of one,
\* publish and reset_all of each in turn.
Move(op, at, rest) ==
    [op |-> op, at |-> at, rest |-> rest, ms |-> 0, topic |-> "none",
     next |-> NotDeployed, elapsed |-> 0, left |-> 0]

BeginMove(o, move) ==
    /\ MayBegin(o)
    /\ task' = [task EXCEPT ![o] = move]
    /\ UNCHANGED <<remote, files, stubs, current, failures, crashes, settled, since>>

\* get_scenario(): 404 for one that does not exist.
Advance(o, s, ms) ==
    s \in Defined /\ BeginMove(o, [Move("advance", "read", {s}) EXCEPT !.ms = ms])

ResetScenario(o, s) == s \in Defined /\ BeginMove(o, Move("reset", "read", {s}))

Publish(o, topic) == BeginMove(o, [Move("publish", "read", Defined) EXCEPT !.topic = topic])

ResetAll(o) == BeginMove(o, Move("resetAll", "start", Defined))

End(o) == task' = [task EXCEPT ![o] = NoOperation]

-----------------------------------------------------------------------------
(* Reading and setting states.                                             *)

\* reset_all_scenarios() and, before a validation, reset_runtime_state() of the adapter.
Restarted ==
    /\ current' = [s \in Scenarios |->
                    IF current[s] = NotDeployed THEN NotDeployed ELSE "Started"]
    /\ since' = [s \in Scenarios |-> 0]

StartResetAll(o) ==
    /\ task[o].op = "resetAll" /\ task[o].at = "start"
    /\ Restarted
    /\ task' = [task EXCEPT ![o].at = "read"]
    /\ UNCHANGED <<remote, files, stubs, counters, settled>>

RestartStates ==
    /\ remote \/ Idle
    /\ calls < MaxCalls
    /\ calls' = calls + 1
    /\ Restarted
    /\ UNCHANGED <<remote, files, stubs, task, failures, crashes, settled>>

\* The scenario that an operation reads or sets.
Subject(o) == First(task[o].rest)

\* The next scenario; after the last one the operation returns.
Continue(o) ==
    IF task[o].rest = {Subject(o)} THEN End(o)
    ELSE task' = [task EXCEPT ![o] =
                    [task[o] EXCEPT !.at = "read", !.rest = task[o].rest \ {Subject(o)}]]

\* left is a ghost: of the time since the state was entered, what the timeouts did not take.
SetNext(o, state, end) ==
    LET total == since[Subject(o)] + task[o].ms
        left == IF total > end.passed THEN total - end.passed ELSE 0
    IN  task' = [task EXCEPT ![o] =
                    IF task[o].op = "advance"
                    THEN [task[o] EXCEPT !.at = "set", !.next = state, !.elapsed = end.elapsed,
                                   !.left = left]
                    ELSE [task[o] EXCEPT !.at = "set", !.next = state]]

\* Where an operation moves the scenario from a state it is in: "skip" leaves it alone,
\* and "fail" raises: 409 for a scenario that is not deployed and for a cycle of
\* timeouts; a state that the definition does not declare has no handlers (500).
Target(move, s, state) ==
    LET d == DefinitionOf(s)
        unknown == state \notin StatesOf(d)
        end == Traversal(d, state, ElapsedIn(s, state) + move.ms)
    IN  CASE move.op = "advance" ->
                IF state = NotDeployed \/ unknown \/ end.fired > Cardinality(StatesOf(d))
                THEN "fail" ELSE end.state
          [] move.op = "publish" ->
                CASE state = NotDeployed -> "skip"
                  [] state # NotDeployed /\ unknown -> "fail"
                  [] OTHER -> IF move.topic \in DOMAIN d.topics[state]
                              THEN d.topics[state][move.topic] ELSE "skip"
          [] move.op = "reset" -> IF state = NotDeployed THEN "fail" ELSE d.reset
          [] move.op = "resetAll" -> IF state = NotDeployed THEN "skip" ELSE d.reset

ReadState(o) ==
    /\ task[o].op \in {"advance", "reset", "publish", "resetAll"}
    /\ task[o].at = "read"
    /\ LET s == Subject(o)
           state == current[s]
           target == Target(task[o], s, state)
           end == Traversal(DefinitionOf(s), state, ElapsedIn(s, state) + task[o].ms)
       IN  CASE target = "fail" -> End(o)
             [] target = "skip" -> Continue(o)
             [] OTHER -> SetNext(o, target, end)
    /\ UNCHANGED <<remote, files, stubs, current, counters, settled, since>>

\* A scenario the runtime does not know cannot be set: the call fails.
SetState(o) ==
    /\ task[o].op # "none" /\ task[o].at = "set"
    /\ LET s == Subject(o) IN
       IF current[s] = NotDeployed THEN End(o) /\ UNCHANGED <<current, since>>
       ELSE /\ Enter(s, task[o].next)
            /\ IF task[o].op = "advance" THEN task' = [task EXCEPT ![o].at = "file"]
                                         ELSE Continue(o)
    /\ UNCHANGED <<remote, files, stubs, counters, settled>>

\* write_json() of the clock, after the state is set.
WriteClock(o) ==
    LET s == Subject(o) IN
        /\ task[o].op = "advance" /\ task[o].at = "file"
        /\ clock' = [clock EXCEPT ![s] = [state |-> task[o].next, elapsed |-> task[o].elapsed]]
        /\ since' = [since EXCEPT ![s] = task[o].left]
        /\ End(o)
        /\ UNCHANGED <<remote, saved, released, stubs, current, counters, settled>>

-----------------------------------------------------------------------------
(* Deployment.  The native adapter replaces the scenario's mappings and    *)
(* sets its state in one step.  WireMock: the mappings are listed and      *)
(* deleted one by one, the new ones posted one by one, the state set; if a *)
(* post or the state fails, the mappings are listed and deleted again.     *)

StubsOf(o) == {[definition |-> task[o].definition, part |-> p, by |-> task[o].number] :
                    p \in 1..task[o].definition.handlers}

DeployNative(o) ==
    LET s == task[o].scenario IN
    /\ ~ remote
    /\ task[o].op = "deploy" /\ task[o].at = "list"
    /\ stubs' = [stubs EXCEPT ![s] = StubsOf(o)]
    /\ Enter(s, task[o].definition.initial)
    /\ task' = [task EXCEPT ![o].at = "record"]
    /\ UNCHANGED <<remote, files, counters, settled>>

\* WireMock keeps a scenario as long as a mapping names it, and starts it in "Started".
WithStubs(s, new) ==
    /\ stubs' = [stubs EXCEPT ![s] = new]
    /\ Enter(s, IF new = {} THEN NotDeployed
                ELSE IF current[s] = NotDeployed THEN "Started" ELSE current[s])

At(o, label) ==
    /\ remote
    /\ task[o].op = "deploy" /\ task[o].at = label

\* Where a deployment goes when the mappings it listed are deleted.
AfterDeletes(o, todo) ==
    IF todo # {} THEN task' = [task EXCEPT ![o] = [task[o] EXCEPT !.at = "delete", !.todo = todo]]
    ELSE IF task[o].cleaning THEN End(o)
    ELSE task' = [task EXCEPT ![o] = [task[o] EXCEPT !.at = "post", !.todo = {}]]

\* Mutant: the mappings of the last release are the ones to replace.
ListReleased(o) ==
    LET s == task[o].scenario IN
    /\ At(o, "list")
    /\ AfterDeletes(o, {b \in stubs[s] : b.definition = DefinitionOf(s)})
    /\ UNCHANGED <<remote, files, stubs, current, counters, settled, since>>

List(o) ==
    /\ At(o, "list")
    /\ AfterDeletes(o, stubs[task[o].scenario])
    /\ UNCHANGED <<remote, files, stubs, current, counters, settled, since>>

\* In the order WireMock listed them.  One that is already gone may be an error.
Delete(o, stub) ==
    /\ At(o, "delete")
    /\ \/ AfterDeletes(o, task[o].todo \ {stub})
       \/ stub \notin stubs[task[o].scenario] /\ End(o)
    /\ WithStubs(task[o].scenario, stubs[task[o].scenario] \ {stub})
    /\ UNCHANGED <<remote, files, counters, settled>>

Posting(o) == CHOOSE b \in StubsOf(o) : b.part = task[o].part

Post(o) ==
    /\ At(o, "post")
    /\ WithStubs(task[o].scenario, stubs[task[o].scenario] \cup {Posting(o)})
    /\ task' = IF task[o].part = task[o].definition.handlers
               THEN [task EXCEPT ![o].at = "state"]
               ELSE [task EXCEPT ![o].part = @ + 1]
    /\ UNCHANGED <<remote, files, counters, settled>>

\* The except clause: the mappings are removed, then the exception goes on.
CleanUp(o) == task' = [task EXCEPT ![o] = [task[o] EXCEPT !.at = "list", !.cleaning = TRUE]]

DeployState(o) ==
    LET s == task[o].scenario IN
    /\ At(o, "state")
    /\ IF current[s] = NotDeployed
       THEN CleanUp(o) /\ UNCHANGED <<current, since>>
       ELSE /\ Enter(s, task[o].definition.initial)
            /\ task' = [task EXCEPT ![o].at = "record"]
    /\ UNCHANGED <<remote, files, stubs, counters, settled>>

\* A call that fails, having reached WireMock or not.
Fail(o) ==
    /\ remote
    /\ failures < MaxFailures
    /\ failures' = failures + 1
    /\ \/ /\ task[o].op = "deploy"
          /\ \/ task[o].at \in {"list", "delete"} /\ End(o)
             \/ task[o].at \in {"post", "state"} /\ CleanUp(o)
          /\ \/ UNCHANGED <<stubs, current, since>>
             \/ /\ task[o].at = "delete"
                /\ \E stub \in task[o].todo :
                       WithStubs(task[o].scenario, stubs[task[o].scenario] \ {stub})
             \/ /\ task[o].at = "post"
                /\ WithStubs(task[o].scenario, stubs[task[o].scenario] \cup {Posting(o)})
             \/ /\ task[o].at = "state" /\ current[task[o].scenario] # NotDeployed
                /\ Enter(task[o].scenario, task[o].definition.initial)
                /\ UNCHANGED stubs
       \/ /\ task[o].op \notin {"none", "deploy"} /\ task[o].at # "file"
          /\ End(o)
          /\ \/ UNCHANGED <<current, since>>
             \/ /\ task[o].at = "set" /\ current[Subject(o)] # NotDeployed
                /\ Enter(Subject(o), task[o].next)
             \/ task[o].at = "start" /\ Restarted
          /\ UNCHANGED stubs
    /\ UNCHANGED <<remote, files, calls, crashes, settled>>

\* releases.record(), only after the runtime took all of it.
Record(o) ==
    LET s == task[o].scenario IN
    /\ task[o].op = "deploy" /\ task[o].at = "record"
    /\ released' = [released EXCEPT ![s] = Append(@, task[o].revision)]
    /\ settled' = [settled EXCEPT ![s] = task[o].alone]
    /\ End(o)
    /\ UNCHANGED <<remote, saved, clock, stubs, current, counters, since>>

-----------------------------------------------------------------------------
(* A worker thread saves a revision; a client calls; the process dies.     *)

Save(s, d) ==
    /\ saved[s] # <<>>
    /\ Len(saved[s]) < MaxSaves
    /\ d # Last(saved[s])
    /\ saved' = [saved EXCEPT ![s] = Append(@, d)]
    /\ UNCHANGED <<remote, released, clock, stubs, current, task, counters, settled, since>>

\* execute() of the native adapter, WireMock itself: a mapping of the current state.
\* One that moves the scenario does so in one step.
ClientCall(s, to) ==
    /\ remote \/ Idle
    /\ \E stub \in stubs[s] : current[s] \in StatesOf(stub.definition)
                            /\ to \in stub.definition.clients[current[s]]
    /\ Enter(s, to)
    /\ UNCHANGED <<remote, files, stubs, task, counters, settled>>

\* The native runtime in memory forgets; SQLite and WireMock do not.
Crash(forgets) ==
    /\ crashes < MaxCrashes
    /\ crashes' = crashes + 1
    /\ remote => ~ forgets
    /\ task' = [o \in Operations |-> NoOperation]
    /\ IF forgets
       THEN /\ stubs' = [s \in Scenarios |-> {}]
            /\ current' = [s \in Scenarios |-> NotDeployed]
            /\ since' = [s \in Scenarios |-> 0]
            /\ settled' = [s \in Scenarios |-> FALSE]
       ELSE UNCHANGED <<stubs, current, since, settled>>
    /\ UNCHANGED <<remote, files, calls, failures>>

RuntimeInit ==
    /\ remote \in Remotes
    /\ saved \in [Scenarios -> {<<>>} \cup {<<d>> : d \in Released}]
    /\ Defined # {}
    /\ released = [s \in Scenarios |-> <<>>]
    /\ stubs = [s \in Scenarios |-> {}]
    /\ current = [s \in Scenarios |-> NotDeployed]
    /\ clock = [s \in Scenarios |-> NoClock]
    /\ task = [o \in Operations |-> NoOperation]
    /\ calls = 0 /\ failures = 0 /\ crashes = 0
    /\ settled = [s \in Scenarios |-> FALSE]
    /\ since = [s \in Scenarios |-> 0]

Step(o) ==
    \/ StartResetAll(o) \/ ReadState(o) \/ SetState(o) \/ WriteClock(o)
    \/ DeployNative(o)
    \/ List(o) \/ Post(o) \/ DeployState(o) \/ Record(o)
    \/ At(o, "delete") /\ \E stub \in task[o].todo : Delete(o, stub)

RuntimeNext ==
    \/ \E o \in Operations :
        \/ Step(o)
        \/ Fail(o)
        \/ \E topic \in Topics : Publish(o, topic)
        \/ ResetAll(o)
        \/ \E s \in Scenarios :
            \/ \E r \in DOMAIN saved[s] : BeginDeploy(o, s, r)
            \/ \E ms \in Advances : Advance(o, s, ms)
            \/ ResetScenario(o, s)
    \/ RestartStates
    \/ \E s \in Scenarios :
        \/ \E d \in Released : Save(s, d)
        \/ \E to \in UNION {StatesOf(d) : d \in Released} : ClientCall(s, to)
    \/ \E forgets \in BOOLEAN : Crash(forgets)

RuntimeSpec == RuntimeInit /\ [][RuntimeNext]_runtimeVars

-----------------------------------------------------------------------------
(* Properties.                                                             *)

\* The definition that the newest release pins.
Pinned(s) == saved[s][Last(released[s])]

\* After a deployment that no other deployment of the scenario overlapped, the runtime
\* serves the mappings of the revision it released, each of them once, whatever failed
\* or overlapping deployments had left behind; other operations do not change that.
ServedIsLastRelease ==
    \A s \in Scenarios : settled[s] =>
        LET d == Pinned(s) IN
        /\ Cardinality(stubs[s]) = d.handlers
        /\ {[definition |-> b.definition, part |-> b.part] : b \in stubs[s]}
            = {[definition |-> d, part |-> p] : p \in 1..d.handlers}

\* On the native adapter timers, events, clients and resets keep a released scenario in a
\* state of the definition that was released, whatever is saved meanwhile.
StatesAreReleased ==
    \A s \in Scenarios : ~ remote /\ settled[s] =>
        current[s] \in StatesOf(Pinned(s)) \cup {"Started"}

\* No virtual time is lost: between operations on the native adapter the clock holds at
\* least what was advanced since the scenario entered its state, so that many short
\* advances fire a timeout no later than one long advance.
NoTimeIsLost ==
    ~ remote /\ Idle => \A s \in Scenarios : since[s] <= ElapsedIn(s, current[s])
=============================================================================
