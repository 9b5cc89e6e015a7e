----------------------------- MODULE NativeStore -----------------------------
(***************************************************************************)
(* The native runtime as its stores keep it: the mappings of each          *)
(* simulation, ONE table of scenario states by scenario name, and ONE      *)
(* journal of events.  The adapter serves several simulations; its lock    *)
(* and the event loop run an operation to its end before the next begins.  *)
(* Of a request only the scenario mapping it matches is modelled.          *)
(***************************************************************************)
EXTENDS Naturals, Sequences, SequencesExt, Functions, FiniteSets

CONSTANTS
    Simulations,
    Compiled,       \* the mappings of each simulation: [name, request, required, next]
    Configured,     \* the initial and the reset state of each configured scenario's name
    Journeys,       \* the names the compiler gives the mappings of any simulation
    Requests,
    JournalLimit,   \* journal_limit
    Persistent,     \* SQLite, else memory
    MaxServed       \* bound: the requests that are served

ASSUME StoreAssumption ==
    /\ JournalLimit \in Nat \ {0}
    /\ Persistent \in BOOLEAN
    /\ MaxServed \in Nat

VARIABLES
    mappings,   \* of each simulation
    states,     \* scenario name -> [owner, state], of the names that have a row
    events,     \* the journal, a table: [simulation, number, matched], read in order of number
    served,     \* how many requests were served
    alone,      \* ghost: the states each simulation would have by itself
    history     \* ghost: the events of each simulation since its journal was cleared

storeVars == <<mappings, states, events, served, alone, history>>

-----------------------------------------------------------------------------
NamesOfMappings(sim) == {m.name : m \in ToSet(Compiled[sim])}

\* The names of configured scenarios and of profiles contain the simulation's id.
ASSUME NamesAssumption ==
    /\ \A sim \in Simulations : Compiled[sim] \in Seq(ToSet(Compiled[sim]))
    /\ \A s, t \in Simulations :
           s # t => NamesOfMappings(s) \cap NamesOfMappings(t) \subseteq Journeys

StateOf(name) == IF name \in DOMAIN states THEN states[name].state ELSE "Started"

\* A table in which the names of "new" have its states, and no other name changes.
WithStates(table, owner, new) ==
    [n \in DOMAIN table \cup DOMAIN new |->
        IF n \in DOMAIN new
        THEN [owner |-> IF n \in DOMAIN table THEN table[n].owner ELSE owner,
              state |-> new[n]]
        ELSE table[n]]

\* ensure_scenario_state() keeps a row that exists, with its owner; then deploy() of the
\* service sets the configured scenarios to their initial states.
Deployed(table, sim) ==
    LET missing == [n \in NamesOfMappings(sim) \ DOMAIN table |-> "Started"]
        initial == [n \in NamesOfMappings(sim) \cap DOMAIN Configured |->
                        Configured[n].initial]
    IN  WithStates(WithStates(table, sim, missing), sim, initial)

NoStates == [n \in {} |-> 0]

\* deploy(): reset_existing clears the mappings, states and events of all simulations.
Deploy(sim, resetExisting) ==
    /\ mappings' = [[s \in Simulations |-> IF resetExisting THEN <<>> ELSE mappings[s]]
                        EXCEPT ![sim] = Compiled[sim]]
    /\ states' = Deployed(IF resetExisting THEN NoStates ELSE states, sim)
    /\ events' = IF resetExisting THEN {} ELSE events
    /\ alone' = [s \in Simulations |->
                    IF s = sim THEN Deployed(IF resetExisting THEN NoStates ELSE alone[s], sim)
                    ELSE IF resetExisting THEN NoStates ELSE alone[s]]
    /\ history' = [s \in Simulations |-> IF resetExisting THEN {} ELSE history[s]]
    /\ UNCHANGED served

\* execute(): the first mapping of the request and of the state of its scenario.
Chosen(sim, request) ==
    SelectInSeq(mappings[sim], LAMBDA m :
        m.request = request /\ m.required \in {"any", StateOf(m.name)})

\* Of a set of events those newer than one, and those that have fewer newer ones than the limit.
Newer(journal, event) == {e \in journal : e.number > event.number}
Newest(journal) == {e \in journal : Cardinality(Newer(journal, e)) < JournalLimit}

\* Mutant: the newest events of all simulations are kept.
AppendedGlobally(journal, event) == Newest(journal \cup {event})

\* append_event(): inserts, then deletes all but the newest JournalLimit of the event's simulation.
Appended(journal, event) ==
    LET all == journal \cup {event}
        owned == {e \in all : e.simulation = event.simulation}
    IN  (all \ owned) \cup Newest(owned)

\* A request of a client: the transition and the event.  A response with a delay
\* sleeps after both.
Execute(sim, request) ==
    LET chosen == Chosen(sim, request)
        m == mappings[sim][chosen]
        event == [simulation |-> sim, number |-> served + 1, matched |-> chosen # 0]
    IN  /\ served < MaxServed
        /\ served' = served + 1
        /\ IF chosen # 0 /\ m.next # "stay"
           THEN /\ states' = [states EXCEPT ![m.name].state = m.next]
                /\ alone' = [alone EXCEPT ![sim][m.name].state = m.next]
           ELSE UNCHANGED <<states, alone>>
        /\ events' = Appended(events, event)
        /\ history' = [history EXCEPT ![sim] = history[sim] \cup {event}]
        /\ UNCHANGED mappings

\* Mutant: the rows of every owner are reset.
ResetRuntimeStateOfAll(sim) ==
    /\ states' = [n \in DOMAIN states |-> [states[n] EXCEPT !.state = "Started"]]
    /\ events' = {e \in events : e.simulation # sim}
    /\ alone' = [alone EXCEPT ![sim] = [n \in DOMAIN alone[sim] |->
                                            [alone[sim][n] EXCEPT !.state = "Started"]]]
    /\ history' = [history EXCEPT ![sim] = {}]
    /\ UNCHANGED <<mappings, served>>

\* reset_runtime_state(): the rows the simulation owns, and its events.
ResetRuntimeState(sim) ==
    /\ states' = [n \in DOMAIN states |->
                    IF states[n].owner = sim THEN [states[n] EXCEPT !.state = "Started"]
                    ELSE states[n]]
    /\ events' = {e \in events : e.simulation # sim}
    /\ alone' = [alone EXCEPT ![sim] = [n \in DOMAIN alone[sim] |->
                                            [alone[sim][n] EXCEPT !.state = "Started"]]]
    /\ history' = [history EXCEPT ![sim] = {}]
    /\ UNCHANGED <<mappings, served>>

\* reset_all_scenarios(): every row is "Started", then configured ones are reset.
Reset(table) ==
    [n \in DOMAIN table |-> [table[n] EXCEPT
        !.state = IF n \in DOMAIN Configured THEN Configured[n].reset ELSE "Started"]]

ResetAllScenarios ==
    /\ states' = Reset(states)
    /\ alone' = [s \in Simulations |-> Reset(alone[s])]
    /\ UNCHANGED <<mappings, events, served, history>>

\* The process ends and starts again: memory is lost.
Restart ==
    /\ ~ Persistent
    /\ mappings' = [s \in Simulations |-> <<>>]
    /\ states' = NoStates
    /\ events' = {}
    /\ alone' = [s \in Simulations |-> NoStates]
    /\ history' = [s \in Simulations |-> {}]
    /\ UNCHANGED served

StoreInit ==
    /\ mappings = [s \in Simulations |-> <<>>]
    /\ states = NoStates
    /\ events = {}
    /\ served = 0
    /\ alone = [s \in Simulations |-> NoStates]
    /\ history = [s \in Simulations |-> {}]

StoreNext ==
    \/ \E sim \in Simulations :
        \/ \E resetExisting \in BOOLEAN : Deploy(sim, resetExisting)
        \/ \E request \in Requests : Execute(sim, request)
        \/ ResetRuntimeState(sim)
    \/ ResetAllScenarios
    \/ Restart

StoreSpec == StoreInit /\ [][StoreNext]_storeVars

-----------------------------------------------------------------------------
(* Properties.                                                             *)

\* The states of a simulation that is deployed are what they would be if the simulation
\* were the only one, for the names in a set: whoever else is deployed, reset or called.
IsolatedFor(names) ==
    \A s \in Simulations : \A n \in DOMAIN alone[s] \cap names :
        n \in DOMAIN states /\ states[n].state = alone[s][n].state

\* Configured scenarios and alternating profiles are isolated by their names.
ScenariosAreIsolated ==
    IsolatedFor((UNION {NamesOfMappings(s) : s \in Simulations}) \ Journeys)

\* "The native adapter isolates mappings, state, and journal events by simulation ID"
\* (docs/api.md:327-328).
StatesAreIsolated == IsolatedFor(UNION {NamesOfMappings(s) : s \in Simulations})

\* The journal of each simulation is its newest events since it was cleared, as many as the
\* limit allows, however the simulations interleave.
JournalIsOwnNewest ==
    \A s \in Simulations : {e \in events : e.simulation = s} = Newest(history[s])
=============================================================================
