---------------------------- MODULE Runtime_proofs ----------------------------
(***************************************************************************)
(* What the native runtime guarantees.                                     *)
(* NativeStore: however many simulations share one table of states and one *)
(* journal, each has in the names of its own the states, and in the        *)
(* journal the newest events, that it would have by itself.                *)
(* ScenarioRuntime: for any scenarios, definitions, operations, failures   *)
(* and crashes, over either adapter, a scenario whose last deployment was  *)
(* alone is served by exactly the release it recorded; on the native       *)
(* adapter its states stay those of that release and its clock never falls *)
(* behind the time that was advanced.                                      *)
(***************************************************************************)
EXTENDS NativeStore, ScenarioRuntime, FiniteSetTheorems, FunctionTheorems, SequenceTheorems,
        WellFoundedInduction, TLAPS

\* A set of natural numbers that is not empty has a least element.
LEMMA HasLeast ==
    ASSUME NEW I \in SUBSET Nat, I # {}
    PROVE  \E least \in I : \A other \in I : least =< other
<1>1. PICK x \in I : \A y \in I : ~ (<<y, x>> \in OpToRel(<, Nat))
  BY NatLessThanWellFounded, WFMin, Zenon
<1>2. \A a \in Nat, b \in Nat : b < a => <<b, a>> \in OpToRel(<, Nat)
  BY DEF OpToRel
<1>3. \A y \in I : ~ (y < x)
  BY <1>1, <1>2
<1>4. \A y \in I : x =< y
  BY <1>3
<1> QED
  BY <1>4

-----------------------------------------------------------------------------
(* The shared table of states: what holds in every state.                  *)

Own(s) == NamesOfMappings(s) \ Journeys

\* What is deployed of a simulation, and what it has rows for.
DeployedAreCompiled ==
    /\ DOMAIN mappings = Simulations
    /\ DOMAIN alone = Simulations
    /\ \A s \in Simulations :
        /\ DOMAIN alone[s] \subseteq NamesOfMappings(s)
        /\ \/ mappings[s] = << >>
           \/ mappings[s] = Compiled[s] /\ NamesOfMappings(s) \subseteq DOMAIN alone[s]

\* In the names of its own, a simulation has the same rows alone, and owns them.
SameRows(table, own) ==
    \A s \in Simulations : \A n \in Own(s) :
        /\ n \in DOMAIN table <=> n \in DOMAIN own[s]
        /\ n \in DOMAIN table =>
              /\ table[n] = own[s][n]
              /\ table[n] = [owner |-> s, state |-> table[n].state]

StoreInv == DeployedAreCompiled /\ SameRows(states, alone)

-----------------------------------------------------------------------------
(* Lemmas about the operators of the store.                                *)

\* A name of its own belongs to one simulation only.
LEMMA OwnNamesAreDisjoint ==
    ASSUME NEW s \in Simulations, NEW t \in Simulations, s # t, NEW n \in Own(t)
    PROVE  n \notin NamesOfMappings(s)
  BY NamesAssumption DEF Own

\* deploy() adds the missing names of the simulation to a table.
LEMMA DeployedDomain ==
    ASSUME NEW table, NEW s
    PROVE  DOMAIN Deployed(table, s) = DOMAIN table \cup NamesOfMappings(s)
  BY DEF Deployed, WithStates

\* What deploy() makes of the row of a name.
DeployedRow(table, s, n) ==
    IF n \in NamesOfMappings(s) \cap DOMAIN Configured
    THEN [owner |-> IF n \in DOMAIN table THEN table[n].owner ELSE s,
          state |-> Configured[n].initial]
    ELSE IF n \notin DOMAIN table THEN [owner |-> s, state |-> "Started"]
    ELSE table[n]

\* It sets the rows of the configured names, and adds those that are missing.
LEMMA DeployedRows ==
    ASSUME NEW table, NEW s, NEW n \in DOMAIN table \cup NamesOfMappings(s)
    PROVE  Deployed(table, s)[n] = DeployedRow(table, s, n)
<1> DEFINE names == NamesOfMappings(s)
           ensured == WithStates(table, s, [m \in names \ DOMAIN table |-> "Started"])
<1>1. /\ DOMAIN ensured = DOMAIN table \cup names
      /\ ensured[n] = IF n \notin DOMAIN table THEN [owner |-> s, state |-> "Started"]
                      ELSE table[n]
  BY DEF WithStates
<1>2. Deployed(table, s) = [m \in DOMAIN ensured \cup (names \cap DOMAIN Configured) |->
            IF m \in names \cap DOMAIN Configured
            THEN [owner |-> IF m \in DOMAIN ensured THEN ensured[m].owner ELSE s,
                  state |-> Configured[m].initial]
            ELSE ensured[m]]
  BY DEF Deployed, WithStates
<1> HIDE DEF names, ensured
<1>3. Deployed(table, s)[n] =
        IF n \in names \cap DOMAIN Configured
        THEN [owner |-> ensured[n].owner, state |-> Configured[n].initial]
        ELSE ensured[n]
  BY <1>1, <1>2 DEF names
<1> QED
  BY <1>1, <1>3 DEF names, DeployedRow

\* Deploying the same simulation to two tables that agree leaves them in agreement.
LEMMA DeployedAlike ==
    ASSUME NEW table, NEW own, NEW sim \in Simulations, DOMAIN own = Simulations,
           SameRows(table, own)
    PROVE  SameRows(Deployed(table, sim), [own EXCEPT ![sim] = Deployed(own[sim], sim)])
<1> DEFINE new == [own EXCEPT ![sim] = Deployed(own[sim], sim)]
<1> SUFFICES ASSUME NEW s \in Simulations, NEW n \in Own(s)
             PROVE  /\ n \in DOMAIN Deployed(table, sim) <=> n \in DOMAIN new[s]
                    /\ n \in DOMAIN Deployed(table, sim) =>
                          /\ Deployed(table, sim)[n] = new[s][n]
                          /\ Deployed(table, sim)[n]
                                = [owner |-> s, state |-> Deployed(table, sim)[n].state]
  BY DEF SameRows
<1>0. /\ n \in DOMAIN table <=> n \in DOMAIN own[s]
      /\ n \in DOMAIN table => /\ table[n] = own[s][n]
                               /\ table[n] = [owner |-> s, state |-> table[n].state]
  BY DEF SameRows
<1>1. CASE s = sim
  <2>1. new[s] = Deployed(own[sim], sim) /\ n \in NamesOfMappings(sim)
    BY <1>1 DEF Own
  <2>2. n \in DOMAIN Deployed(table, sim) /\ n \in DOMAIN Deployed(own[sim], sim)
    BY <2>1, DeployedDomain
  <2>3. /\ Deployed(table, sim)[n] = DeployedRow(table, sim, n)
        /\ Deployed(own[sim], sim)[n] = DeployedRow(own[sim], sim, n)
    BY <2>1, DeployedRows
  <2>4. /\ DeployedRow(table, sim, n) = DeployedRow(own[sim], sim, n)
        /\ DeployedRow(table, sim, n)
                = [owner |-> sim, state |-> DeployedRow(table, sim, n).state]
    BY <1>0, <1>1 DEF DeployedRow
  <2> HIDE DEF new
  <2> QED
    BY <1>1, <2>1, <2>2, <2>3, <2>4
<1>2. CASE s # sim
  <2>1. new[s] = own[s] /\ n \notin NamesOfMappings(sim)
    BY <1>2, OwnNamesAreDisjoint
  <2>2. n \in DOMAIN Deployed(table, sim) <=> n \in DOMAIN table
    BY <2>1, DeployedDomain
  <2>3. n \in DOMAIN table => Deployed(table, sim)[n] = table[n]
    BY <2>1, DeployedRows DEF DeployedRow
  <2> HIDE DEF new
  <2> QED
    BY <1>0, <2>1, <2>2, <2>3
<1> QED
  BY <1>1, <1>2

\* Of a set of natural numbers Min is one.
LEMMA LeastIsAMember ==
    ASSUME NEW I \in SUBSET Nat, I # {}
    PROVE  Min(I) \in I
  BY HasLeast DEF Min

\* The mapping that answers a request is one of the simulation's.
LEMMA ChosenIsDeployed ==
    ASSUME DeployedAreCompiled, NEW sim \in Simulations, NEW request, Chosen(sim, request) # 0
    PROVE  /\ mappings[sim][Chosen(sim, request)].name \in NamesOfMappings(sim)
           /\ NamesOfMappings(sim) \subseteq DOMAIN alone[sim]
<1> DEFINE seq == mappings[sim]
           I == {i \in 1..Len(seq) : seq[i].request = request
                                     /\ seq[i].required \in {"any", StateOf(seq[i].name)}}
<1>1. Chosen(sim, request) = IF I # {} THEN Min(I) ELSE 0
  BY DEF Chosen, SelectInSeq
<1>2. seq \in Seq(ToSet(Compiled[sim])) /\ (seq # << >> => seq = Compiled[sim])
  <2>1. Compiled[sim] \in Seq(ToSet(Compiled[sim]))
    BY NamesAssumption
  <2>2. seq = << >> \/ seq = Compiled[sim]
    BY DEF DeployedAreCompiled
  <2>3. << >> \in Seq(ToSet(Compiled[sim]))
    OBVIOUS
  <2> HIDE DEF seq
  <2> QED
    BY <2>1, <2>2, <2>3, Zenon
<1>3. I \in SUBSET Nat /\ I \subseteq 1..Len(seq)
  BY <1>2
<1> HIDE DEF I, seq
<1>4. Chosen(sim, request) \in 1..Len(seq)
  BY <1>1, <1>3, LeastIsAMember
<1>5. seq # << >> /\ DOMAIN seq = 1..Len(seq)
  BY <1>2, <1>4
<1>6. seq[Chosen(sim, request)] \in ToSet(Compiled[sim])
  BY <1>2, <1>4, <1>5
<1> QED
  BY <1>2, <1>5, <1>6 DEF NamesOfMappings, DeployedAreCompiled, seq

-----------------------------------------------------------------------------
(* The shared table of states, action by action.                           *)

\* The initial state satisfies every conjunct.
LEMMA InitStoreInv == StoreInit => StoreInv
  BY DEF StoreInit, StoreInv, DeployedAreCompiled, SameRows, NoStates

\* A deployment keeps the rows of every simulation as it would alone.
LEMMA DeployKeepsStoreInv ==
    ASSUME StoreInv, NEW sim \in Simulations, NEW resetExisting \in BOOLEAN,
           Deploy(sim, resetExisting)
    PROVE  StoreInv'
<1> DEFINE old == IF resetExisting THEN NoStates ELSE states
           own == [s \in Simulations |-> IF resetExisting THEN NoStates ELSE alone[s]]
<1>1. SameRows(old, own)
  BY DEF StoreInv, DeployedAreCompiled, SameRows, NoStates
<1>2. /\ states' = Deployed(old, sim)
      /\ alone' = [own EXCEPT ![sim] = Deployed(own[sim], sim)]
  BY DEF Deploy
<1>3. SameRows(states, alone)'
  BY <1>1, <1>2, DeployedAlike
<1>4. DeployedAreCompiled'
  <2>1. /\ DOMAIN alone' = Simulations /\ DOMAIN mappings' = Simulations
        /\ alone'[sim] = Deployed(own[sim], sim) /\ mappings'[sim] = Compiled[sim]
        /\ \A s \in Simulations \ {sim} :
              /\ alone'[s] = own[s]
              /\ mappings'[s] = IF resetExisting THEN << >> ELSE mappings[s]
    BY <1>2 DEF Deploy
  <2>2. DOMAIN alone'[sim] = DOMAIN own[sim] \cup NamesOfMappings(sim)
    BY <2>1, DeployedDomain
  <2>3. \A s \in Simulations : DOMAIN own[s] \subseteq NamesOfMappings(s)
    BY DEF StoreInv, DeployedAreCompiled, NoStates
  <2>4. \A s \in Simulations \ {sim} : mappings'[s] = << >> \/ (own[s] = alone[s] /\ mappings'[s] = mappings[s])
    BY <2>1
  <2> HIDE DEF own
  <2> QED
    BY <2>1, <2>2, <2>3, <2>4 DEF StoreInv, DeployedAreCompiled
<1> QED
  BY <1>3, <1>4 DEF StoreInv

\* A request moves the scenario of a mapping of its own simulation, or a shared one.
LEMMA ExecuteKeepsStoreInv ==
    ASSUME StoreInv, NEW sim \in Simulations, NEW request, Execute(sim, request)
    PROVE  StoreInv'
<1> DEFINE name == mappings[sim][Chosen(sim, request)].name
           next == mappings[sim][Chosen(sim, request)].next
<1>1. CASE UNCHANGED <<states, alone, mappings>>
  BY <1>1 DEF StoreInv, DeployedAreCompiled, SameRows, Own
<1>2. CASE /\ Chosen(sim, request) # 0
           /\ states' = [states EXCEPT ![name].state = next]
           /\ alone' = [alone EXCEPT ![sim][name].state = next]
           /\ mappings' = mappings
  <2>1. name \in NamesOfMappings(sim) /\ NamesOfMappings(sim) \subseteq DOMAIN alone[sim]
    BY <1>2, ChosenIsDeployed DEF StoreInv
  <2> HIDE DEF name, next
  <2>2. /\ DOMAIN alone' = DOMAIN alone
        /\ \A s \in Simulations : DOMAIN alone'[s] = DOMAIN alone[s]
        /\ \A s \in Simulations : \A n \in DOMAIN alone[s] :
              s # sim \/ n # name => alone'[s][n] = alone[s][n]
        /\ alone'[sim][name] = [alone[sim][name] EXCEPT !.state = next]
    BY <1>2, <2>1 DEF StoreInv, DeployedAreCompiled
  <2>3. /\ DOMAIN states' = DOMAIN states
        /\ \A n \in DOMAIN states : n # name => states'[n] = states[n]
        /\ name \in DOMAIN states => states'[name] = [states[name] EXCEPT !.state = next]
    BY <1>2
  <2>4. DeployedAreCompiled'
    BY <1>2, <2>2 DEF StoreInv, DeployedAreCompiled
  <2>5. ASSUME NEW s \in Simulations, NEW n \in Own(s)
        PROVE  /\ n \in DOMAIN states' <=> n \in DOMAIN alone'[s]
               /\ n \in DOMAIN states' =>
                     /\ states'[n] = alone'[s][n]
                     /\ states'[n] = [owner |-> s, state |-> states'[n].state]
    <3>0. /\ n \in DOMAIN states <=> n \in DOMAIN alone[s]
          /\ n \in DOMAIN states => /\ states[n] = alone[s][n]
                                    /\ states[n] = [owner |-> s, state |-> states[n].state]
      BY DEF StoreInv, SameRows
    <3>1. CASE n = name
      <4>1. s = sim
        BY <2>1, <3>1, OwnNamesAreDisjoint
      <4> QED
        BY <2>2, <2>3, <3>0, <3>1, <4>1
    <3>2. CASE n # name
      BY <2>2, <2>3, <3>0, <3>2
    <3> QED
      BY <3>1, <3>2
  <2> QED
    BY <2>4, <2>5 DEF StoreInv, SameRows, Own
<1> QED
  BY <1>1, <1>2 DEF Execute

\* A reset of one simulation touches the rows it owns, and no other own rows.
LEMMA ResetKeepsStoreInv ==
    ASSUME StoreInv, NEW sim \in Simulations, ResetRuntimeState(sim)
    PROVE  StoreInv'
<1>1. /\ DOMAIN alone' = DOMAIN alone /\ mappings' = mappings
      /\ \A s \in Simulations : DOMAIN alone'[s] = DOMAIN alone[s]
      /\ \A s \in Simulations \ {sim} : alone'[s] = alone[s]
      /\ \A n \in DOMAIN alone[sim] :
            alone'[sim][n] = [alone[sim][n] EXCEPT !.state = "Started"]
  BY DEF ResetRuntimeState, StoreInv, DeployedAreCompiled
<1>2. /\ DOMAIN states' = DOMAIN states
      /\ \A n \in DOMAIN states :
            states'[n] = IF states[n].owner = sim THEN [states[n] EXCEPT !.state = "Started"]
                         ELSE states[n]
  BY DEF ResetRuntimeState
<1>3. DeployedAreCompiled'
  BY <1>1 DEF StoreInv, DeployedAreCompiled
<1>4. ASSUME NEW s \in Simulations, NEW n \in Own(s)
      PROVE  /\ n \in DOMAIN states' <=> n \in DOMAIN alone'[s]
             /\ n \in DOMAIN states' =>
                   /\ states'[n] = alone'[s][n]
                   /\ states'[n] = [owner |-> s, state |-> states'[n].state]
  <2>0. /\ n \in DOMAIN states <=> n \in DOMAIN alone[s]
        /\ n \in DOMAIN states => /\ states[n] = alone[s][n]
                                  /\ states[n] = [owner |-> s, state |-> states[n].state]
    BY DEF StoreInv, SameRows
  <2> QED
    BY <1>1, <1>2, <2>0
<1> QED
  BY <1>3, <1>4 DEF StoreInv, SameRows, Own

\* Every step keeps every conjunct.
LEMMA NextStoreInv == StoreInv /\ [StoreNext]_storeVars => StoreInv'
<1> SUFFICES ASSUME StoreInv, [StoreNext]_storeVars PROVE StoreInv'
  OBVIOUS
<1>1. CASE ResetAllScenarios
  <2>1. /\ DOMAIN states' = DOMAIN states /\ DOMAIN alone' = DOMAIN alone /\ mappings' = mappings
        /\ \A s \in Simulations : DOMAIN alone'[s] = DOMAIN alone[s]
    BY <1>1 DEF ResetAllScenarios, Reset, StoreInv, DeployedAreCompiled
  <2>2. /\ \A n \in DOMAIN states : states'[n] = [states[n] EXCEPT
                !.state = IF n \in DOMAIN Configured THEN Configured[n].reset ELSE "Started"]
        /\ \A s \in Simulations : \A n \in DOMAIN alone[s] : alone'[s][n] = [alone[s][n] EXCEPT
                !.state = IF n \in DOMAIN Configured THEN Configured[n].reset ELSE "Started"]
    BY <1>1 DEF ResetAllScenarios, Reset
  <2>3. DeployedAreCompiled'
    BY <2>1 DEF StoreInv, DeployedAreCompiled
  <2>4. ASSUME NEW s \in Simulations, NEW n \in Own(s)
        PROVE  /\ n \in DOMAIN states' <=> n \in DOMAIN alone'[s]
               /\ n \in DOMAIN states' =>
                     /\ states'[n] = alone'[s][n]
                     /\ states'[n] = [owner |-> s, state |-> states'[n].state]
    <3>0. /\ n \in DOMAIN states <=> n \in DOMAIN alone[s]
          /\ n \in DOMAIN states => /\ states[n] = alone[s][n]
                                    /\ states[n] = [owner |-> s, state |-> states[n].state]
      BY DEF StoreInv, SameRows
    <3>1. n \in DOMAIN states' <=> n \in DOMAIN alone'[s]
      BY <2>1, <3>0
    <3>2. ASSUME n \in DOMAIN states
          PROVE  states'[n] = alone'[s][n] /\ states'[n] = [owner |-> s, state |-> states'[n].state]
      <4> DEFINE reset == IF n \in DOMAIN Configured THEN Configured[n].reset ELSE "Started"
      <4>1. /\ states'[n] = [states[n] EXCEPT !.state = reset]
            /\ alone'[s][n] = [alone[s][n] EXCEPT !.state = reset]
        BY <2>2, <3>0, <3>2
      <4> HIDE DEF reset
      <4> QED
        BY <3>0, <3>2, <4>1
    <3> QED
      BY <2>1, <3>1, <3>2
  <2> QED
    BY <2>3, <2>4 DEF StoreInv, SameRows, Own
<1>2. CASE Restart
  BY <1>2 DEF Restart, StoreInv, DeployedAreCompiled, SameRows, NoStates
<1>3. CASE UNCHANGED storeVars
  BY <1>3 DEF storeVars, StoreInv, DeployedAreCompiled, SameRows, Own
<1> QED
  BY <1>1, <1>2, <1>3, DeployKeepsStoreInv, ExecuteKeepsStoreInv, ResetKeepsStoreInv DEF StoreNext

-----------------------------------------------------------------------------
(* The shared table of states: the theorem.                                *)

\* Whoever else is deployed, reset or called, a configured scenario is in the state in
\* which it would be if its simulation were the only one of the runtime.
THEOREM ScenariosAlwaysIsolated == StoreSpec => []ScenariosAreIsolated
<1>1. StoreInv => ScenariosAreIsolated
  <2> SUFFICES ASSUME StoreInv, NEW s \in Simulations, NEW n \in DOMAIN alone[s], n \notin Journeys
               PROVE  n \in DOMAIN states /\ states[n].state = alone[s][n].state
    BY DEF ScenariosAreIsolated, IsolatedFor
  <2>1. n \in Own(s)
    BY DEF StoreInv, DeployedAreCompiled, Own
  <2> QED
    BY <2>1 DEF StoreInv, SameRows
<1> QED
  BY <1>1, InitStoreInv, NextStoreInv, PTL DEF StoreSpec

-----------------------------------------------------------------------------
(* The journal.                                                            *)

Event == [simulation : Simulations, number : Nat, matched : BOOLEAN]

OfSimulation(journal, s) == {e \in journal : e.simulation = s}

\* What the journal keeps of each simulation is the newest of all its events.
JournalInv ==
    /\ served \in Nat
    /\ history \in [Simulations -> SUBSET Event]
    /\ events \in SUBSET Event
    /\ \A s \in Simulations :
        /\ IsFiniteSet(history[s])
        /\ \A e \in history[s] : e.number <= served
        /\ OfSimulation(events, s) = Newest(history[s])

\* To keep the newest of what was kept and of a newer event is to keep the newest of all.
LEMMA NewestOfNewest ==
    ASSUME NEW journal \in SUBSET Event, IsFiniteSet(journal), NEW event \in Event,
           \A e \in journal : e.number < event.number
    PROVE  Newest(Newest(journal) \cup {event}) = Newest(journal \cup {event})
<1> DEFINE all == journal \cup {event}
           some == Newest(journal) \cup {event}
<1>1. JournalLimit \in Nat \ {0}
  BY StoreAssumption
<1>2. some \subseteq all /\ event \in some /\ event \in all
  BY DEF Newest
<1>3. \A e \in all : e.number \in Nat
  BY DEF Event
<1>4. Newer(all, event) = {} /\ Newer(some, event) = {}
  <2>1. \A e \in all : ~ (e.number > event.number)
    BY <1>3
  <2> HIDE DEF all, some
  <2> QED
    BY <1>2, <2>1 DEF Newer
<1>5. event \in Newest(all) /\ event \in Newest(some)
  <2>1. Cardinality(Newer(all, event)) = 0 /\ Cardinality(Newer(some, event)) = 0
    BY <1>4, FS_EmptySet
  <2> HIDE DEF all, some
  <2> QED
    BY <1>1, <1>2, <2>1 DEF Newest
<1>6. ASSUME NEW e \in journal
      PROVE  /\ e # event
             /\ IsFiniteSet(Newer(journal, e))
             /\ Newer(all, e) = Newer(journal, e) \cup {event}
             /\ Cardinality(Newer(all, e)) = Cardinality(Newer(journal, e)) + 1
             /\ Cardinality(Newer(journal, e)) \in Nat
  <2>1. e # event /\ event \notin Newer(journal, e) /\ event.number > e.number
    BY <1>3 DEF Newer
  <2>2. Newer(journal, e) \subseteq journal
    BY DEF Newer
  <2>3. IsFiniteSet(Newer(journal, e))
    BY <2>2, FS_Subset
  <2>4. Newer(all, e) = Newer(journal, e) \cup {event}
    BY <2>1 DEF Newer
  <2>5. Cardinality(Newer(journal, e) \cup {event}) = Cardinality(Newer(journal, e)) + 1
    BY <2>1, <2>3, FS_AddElement
  <2> QED
    BY <2>1, <2>3, <2>4, <2>5, FS_CardinalityType
<1>7. ASSUME NEW e \in Newest(journal)
      PROVE  Newer(some, e) = Newer(all, e)
  <2>1. e \in journal /\ Cardinality(Newer(journal, e)) < JournalLimit
    BY DEF Newest
  <2>2. ASSUME NEW o \in Newer(journal, e) PROVE o \in Newest(journal)
    <3>1. o \in journal /\ o.number > e.number
      BY DEF Newer
    <3>2. Newer(journal, o) \subseteq Newer(journal, e)
      BY <1>3, <2>1, <3>1 DEF Newer
    <3>3. Cardinality(Newer(journal, o)) <= Cardinality(Newer(journal, e))
      BY <1>6, <2>1, <3>2, FS_Subset
    <3>4. Cardinality(Newer(journal, o)) < JournalLimit
      BY <1>1, <1>6, <2>1, <3>1, <3>3
    <3> QED
      BY <3>1, <3>4 DEF Newest
  <2>3. Newer(journal, e) \subseteq Newest(journal)
    BY <2>2
  <2>4. event.number > e.number
    BY <1>3, <2>1
  <2> QED
    BY <1>6, <2>1, <2>3, <2>4 DEF Newer, Newest
<1>8. ASSUME NEW e \in journal, e \notin Newest(journal)
      PROVE  e \notin Newest(all) /\ e \notin Newest(some)
  <2>1. ~ (Cardinality(Newer(journal, e)) < JournalLimit)
    BY <1>8 DEF Newest
  <2>2. ~ (Cardinality(Newer(all, e)) < JournalLimit)
    <3>1. /\ Cardinality(Newer(all, e)) = Cardinality(Newer(journal, e)) + 1
          /\ Cardinality(Newer(journal, e)) \in Nat
      BY <1>6
    <3> HIDE DEF all
    <3> QED
      BY <1>1, <2>1, <3>1
  <2>3. e \notin some
    BY <1>6, <1>8
  <2> QED
    BY <2>2, <2>3 DEF Newest
<1>9. ASSUME NEW e PROVE e \in Newest(some) <=> e \in Newest(all)
  <2>1. CASE e = event
    BY <1>5, <2>1
  <2>2. CASE e \in Newest(journal)
    <3>1. e \in some /\ e \in all
      BY <1>2, <2>2
    <3> HIDE DEF some, all
    <3> QED
      BY <1>7, <2>2, <3>1 DEF Newest
  <2>3. CASE e \in journal /\ e \notin Newest(journal)
    BY <1>8, <2>3
  <2>4. CASE e \notin all
    BY <1>2, <2>4 DEF Newest
  <2> QED
    BY <2>1, <2>2, <2>3, <2>4
<1> HIDE DEF some, all
<1>10. Newest(some) = Newest(all)
  BY <1>9
<1> QED
  BY <1>10 DEF some, all

\* The events of other simulations stay.
LEMMA AppendedOfSimulation ==
    ASSUME NEW journal \in SUBSET Event, NEW event \in Event, NEW s \in Simulations
    PROVE  OfSimulation(Appended(journal, event), s)
             = IF s = event.simulation THEN Newest(OfSimulation(journal, s) \cup {event})
               ELSE OfSimulation(journal, s)
<1> DEFINE owned == {e \in journal \cup {event} : e.simulation = event.simulation}
<1>1. Newest(owned) \subseteq owned
  BY DEF Newest
<1>2. owned = OfSimulation(journal, event.simulation) \cup {event}
  BY DEF OfSimulation
<1>3. Appended(journal, event) = ((journal \cup {event}) \ owned) \cup Newest(owned)
  BY DEF Appended
<1>4. CASE s = event.simulation
  <2>1. \A e \in journal \cup {event} : e \in owned <=> e.simulation = s
    BY <1>4
  <2> HIDE DEF owned
  <2>2. OfSimulation(Appended(journal, event), s) = Newest(owned)
    BY <1>1, <1>2, <1>3, <1>4, <2>1 DEF OfSimulation
  <2> QED
    BY <1>2, <1>4, <2>2
<1>5. CASE s # event.simulation
  BY <1>1, <1>3, <1>5 DEF OfSimulation
<1> QED
  BY <1>4, <1>5

LEMMA InitJournal == StoreInit => JournalInv
<1> SUFFICES ASSUME StoreInit PROVE JournalInv
  OBVIOUS
<1>1. Newest({}) = {}
  BY DEF Newest
<1> QED
  BY <1>1, FS_EmptySet DEF StoreInit, JournalInv, OfSimulation

\* One event more, of one simulation.
LEMMA ExecuteJournal ==
    ASSUME JournalInv, NEW sim \in Simulations, NEW request, Execute(sim, request)
    PROVE  JournalInv'
<1> DEFINE event == [simulation |-> sim, number |-> served + 1, matched |-> Chosen(sim, request) # 0]
<1>1. /\ served' = served + 1 /\ events' = Appended(events, event)
      /\ history' = [history EXCEPT ![sim] = history[sim] \cup {event}]
  BY DEF Execute
<1>2. event \in Event /\ event.simulation = sim /\ event.number = served + 1
  <2>1. (Chosen(sim, request) # 0) \in BOOLEAN
    OBVIOUS
  <2> QED
    BY <2>1 DEF JournalInv, Event
<1> HIDE DEF event
<1>3. served' \in Nat /\ history' \in [Simulations -> SUBSET Event]
  BY <1>1, <1>2 DEF JournalInv
<1>4. events' \in SUBSET Event
  BY <1>1, <1>2 DEF JournalInv, Appended, Newest
<1>5. \A e \in history[sim] : e.number < event.number
  BY <1>2 DEF JournalInv, Event
<1>6. /\ history'[sim] = history[sim] \cup {event}
      /\ \A s \in Simulations \ {sim} : history'[s] = history[s]
  BY <1>1 DEF JournalInv
<1>7. IsFiniteSet(history[sim]) /\ history[sim] \in SUBSET Event /\ events \in SUBSET Event
  BY DEF JournalInv
<1>8. ASSUME NEW s \in Simulations
      PROVE  /\ IsFiniteSet(history'[s])
             /\ \A e \in history'[s] : e.number <= served'
             /\ OfSimulation(events', s) = Newest(history'[s])
  <2>1. CASE s = sim
    <3>1. IsFiniteSet(history'[s])
      BY <1>6, <1>7, <2>1, FS_AddElement
    <3>2. \A e \in history'[s] : e.number <= served'
      BY <1>1, <1>2, <1>6, <2>1 DEF JournalInv, Event
    <3>3. OfSimulation(events', s) = Newest(Newest(history[s]) \cup {event})
      BY <1>1, <1>2, <1>7, <2>1, AppendedOfSimulation DEF JournalInv
    <3> QED
      BY <1>2, <1>5, <1>6, <1>7, <2>1, <3>1, <3>2, <3>3, NewestOfNewest
  <2>2. CASE s # sim
    <3>1. OfSimulation(events', s) = OfSimulation(events, s)
      BY <1>1, <1>2, <1>7, <2>2, AppendedOfSimulation
    <3>2. \A e \in history[s] : e.number <= served + 1
      BY DEF JournalInv, Event
    <3> QED
      BY <1>1, <1>6, <2>2, <3>1, <3>2 DEF JournalInv
  <2> QED
    BY <2>1, <2>2
<1> QED
  BY <1>3, <1>4, <1>8 DEF JournalInv, Newest, Newer, OfSimulation

\* A simulation whose events are cleared has none, the others keep theirs.
LEMMA ClearedJournal ==
    ASSUME JournalInv, NEW cleared \in SUBSET Simulations,
           served' = served,
           events' = {e \in events : e.simulation \notin cleared},
           history' = [s \in Simulations |-> IF s \in cleared THEN {} ELSE history[s]]
    PROVE  JournalInv'
<1>1. Newest({}) = {}
  BY DEF Newest
<1>2. ASSUME NEW s \in Simulations
      PROVE  /\ IsFiniteSet(history'[s])
             /\ \A e \in history'[s] : e.number <= served'
             /\ OfSimulation(events', s) = Newest(history'[s])
  <2>1. CASE s \in cleared
    BY <1>1, <2>1, FS_EmptySet DEF OfSimulation
  <2>2. CASE s \notin cleared
    <3>1. OfSimulation(events', s) = OfSimulation(events, s) /\ history'[s] = history[s]
      BY <2>2 DEF OfSimulation
    <3> QED
      BY <3>1 DEF JournalInv
  <2> QED
    BY <2>1, <2>2
<1>3. history' \in [Simulations -> SUBSET Event] /\ events' \in SUBSET Event
  BY DEF JournalInv
<1> QED
  BY <1>2, <1>3 DEF JournalInv, Newest, Newer, OfSimulation

LEMMA NextJournal == JournalInv /\ [StoreNext]_storeVars => JournalInv'
<1> SUFFICES ASSUME JournalInv, [StoreNext]_storeVars PROVE JournalInv'
  OBVIOUS
<1>1. history = [s \in Simulations |-> history[s]] /\ events \in SUBSET Event
  BY DEF JournalInv
<1>2. CASE UNCHANGED <<served, events, history>>
  BY <1>2 DEF JournalInv, OfSimulation, Newest, Newer
<1>3. ASSUME NEW sim \in Simulations, NEW resetExisting \in BOOLEAN, Deploy(sim, resetExisting)
      PROVE  JournalInv'
  <2>1. CASE resetExisting
    <3>1. served' = served /\ events' = {} /\ history' = [s \in Simulations |-> {}]
      BY <1>3, <2>1 DEF Deploy
    <3>2. events' = {e \in events : e.simulation \notin Simulations}
      BY <1>1, <3>1 DEF Event
    <3>3. history' = [s \in Simulations |-> IF s \in Simulations THEN {} ELSE history[s]]
      BY <3>1
    <3> QED
      BY <3>1, <3>2, <3>3, ClearedJournal
  <2>2. CASE ~ resetExisting
    BY <1>1, <1>2, <1>3, <2>2 DEF Deploy
  <2> QED
    BY <2>1, <2>2
<1>4. ASSUME NEW sim \in Simulations, NEW request \in Requests, Execute(sim, request)
      PROVE  JournalInv'
  BY <1>4, ExecuteJournal
<1>5. ASSUME NEW sim \in Simulations, ResetRuntimeState(sim) PROVE JournalInv'
  <2> DEFINE one == {sim}
  <2>1. /\ served' = served /\ events' = {e \in events : e.simulation \notin one}
        /\ history' = [s \in Simulations |-> IF s \in one THEN {} ELSE history[s]]
        /\ one \in SUBSET Simulations
    BY <1>1, <1>5 DEF ResetRuntimeState
  <2> HIDE DEF one
  <2> QED
    BY <2>1, ClearedJournal
<1>6. CASE ResetAllScenarios
  BY <1>2, <1>6 DEF ResetAllScenarios
<1>7. CASE Restart
  <2>1. served' = served /\ events' = {} /\ history' = [s \in Simulations |-> {}]
    BY <1>7 DEF Restart
  <2>2. events' = {e \in events : e.simulation \notin Simulations}
    BY <1>1, <2>1 DEF Event
  <2>3. history' = [s \in Simulations |-> IF s \in Simulations THEN {} ELSE history[s]]
    BY <2>1
  <2> QED
    BY <2>1, <2>2, <2>3, ClearedJournal
<1>8. CASE UNCHANGED storeVars
  BY <1>2, <1>8 DEF storeVars
<1> QED
  BY <1>3, <1>4, <1>5, <1>6, <1>7, <1>8 DEF StoreNext

\* However the calls and resets of any number of simulations interleave, the journal holds
\* of each of them its newest events, as many as the limit allows, and drops no others.
THEOREM JournalKeepsOwnNewest == StoreSpec => []JournalIsOwnNewest
<1>1. JournalInv => JournalIsOwnNewest
  BY DEF JournalInv, JournalIsOwnNewest, OfSimulation
<1> QED
  BY <1>1, InitJournal, NextJournal, PTL DEF StoreSpec

-----------------------------------------------------------------------------
(* The traversal of the timeouts.                                          *)

\* The places on the way from a start, as far as n timeouts lead.
IsPath(path, d, start, n) ==
    path = [k \in 0..n |-> IF k = 0 THEN start ELSE Onward(d, path[k - 1])]

\* There is a way of any length.
LEMMA PathExists ==
    ASSUME NEW d, NEW start, NEW n \in Nat
    PROVE  \E path : IsPath(path, d, start, n)
<1> DEFINE Short == {m \in Nat : ~ \E path : IsPath(path, d, start, m)}
<1>1. ASSUME Short # {} PROVE FALSE
  <2>1. PICK m \in Short : \A other \in Short : m =< other
    BY <1>1, HasLeast
  <2>2. m # 0
    <3> DEFINE p == [k \in 0..0 |-> start]
    <3>1. IsPath(p, d, start, 0)
      BY DEF IsPath
    <3> QED
      BY <3>1
  <2>3. m \in Nat /\ m - 1 \in Nat /\ m - 1 \notin Short
    BY <2>1, <2>2
  <2>4. PICK p : IsPath(p, d, start, m - 1)
    BY <2>3
  <2> DEFINE q == [k \in 0..m |-> IF k = m THEN Onward(d, p[m - 1]) ELSE p[k]]
  <2>5. ASSUME NEW k \in 0..m
        PROVE  q[k] = IF k = 0 THEN start ELSE Onward(d, q[k - 1])
    <3>1. CASE k = m
      <4>1. q[m] = Onward(d, p[m - 1]) /\ q[m - 1] = p[m - 1]
        BY <2>3
      <4> QED
        BY <2>2, <3>1, <4>1
    <3>2. CASE k # m
      <4>1. k \in 0..(m - 1) /\ q[k] = p[k]
        BY <2>3, <3>2
      <4>2. p[k] = IF k = 0 THEN start ELSE Onward(d, p[k - 1])
        BY <2>4, <4>1 DEF IsPath
      <4>3. k # 0 => q[k - 1] = p[k - 1]
        BY <2>3, <3>2
      <4> QED
        BY <4>1, <4>2, <4>3
    <3> QED
      BY <3>1, <3>2
  <2>6. q = [k \in 0..m |-> IF k = 0 THEN start ELSE Onward(d, q[k - 1])]
    <3>1. DOMAIN q = 0..m
      OBVIOUS
    <3> DEFINE f == [k \in 0..m |-> IF k = 0 THEN start ELSE Onward(d, q[k - 1])]
    <3>2. \A k \in 0..m : q[k] = f[k]
      BY <2>5
    <3>3. q = [k \in 0..m |-> q[k]] /\ f = [k \in 0..m |-> f[k]]
      OBVIOUS
    <3> HIDE DEF q, f
    <3>4. q = f
      BY <3>2, <3>3
    <3> QED
      BY <3>4 DEF f
  <2>7. IsPath(q, d, start, m)
    BY <2>6 DEF IsPath
  <2> QED
    BY <2>1, <2>7
<1> QED
  BY <1>1

Places(d, elapsed) ==
    {place \in [state : StatesOf(d), elapsed : Nat, passed : Nat, fired : Nat] :
        place.elapsed + place.passed = elapsed}

\* A timeout that fires leads to a declared state and spends the time that passes.
LEMMA OnwardKeeps ==
    ASSUME NEW d \in Released, NEW elapsed \in Nat, NEW place \in Places(d, elapsed)
    PROVE  Onward(d, place) \in Places(d, elapsed)
<1>1. Declared(d)
  BY ReleasedAssumption
<1>2. CASE Fires(d, place)
  <2> DEFINE after == d.timeout[place.state].after
             to == d.timeout[place.state].to
  <2>1. /\ place.state \in StatesOf(d) /\ place.elapsed \in Nat /\ place.passed \in Nat
        /\ place.fired \in Nat /\ place.elapsed + place.passed = elapsed
    BY DEF Places
  <2>2. after \in Nat /\ to \in StatesOf(d) /\ place.elapsed >= after
    BY <1>1, <1>2, <2>1 DEF Fires, Declared
  <2>3. Onward(d, place) = [state |-> to, elapsed |-> place.elapsed - after,
                            passed |-> place.passed + after, fired |-> place.fired + 1]
    BY <1>2 DEF Onward, Fired, Spend
  <2> HIDE DEF after, to
  <2> QED
    BY <2>1, <2>2, <2>3 DEF Places
<1>3. CASE ~ Fires(d, place)
  BY <1>3 DEF Onward
<1> QED
  BY <1>2, <1>3

\* A traversal ends in a declared state, and what it leaves of the time and what passed
\* are all the time there was.
LEMMA TraversalKeepsTime ==
    ASSUME NEW d \in Released, NEW state \in StatesOf(d), NEW elapsed \in Nat
    PROVE  Traversal(d, state, elapsed) \in Places(d, elapsed)
<1> DEFINE last == Cardinality(StatesOf(d)) + 1
           start == [state |-> state, elapsed |-> elapsed, passed |-> 0, fired |-> 0]
           path == CHOOSE p : IsPath(p, d, start, last)
<1>1. last \in Nat
  BY ReleasedAssumption, FS_CardinalityType DEF Declared
<1>2. Traversal(d, state, elapsed) = path[last]
  BY DEF Traversal, IsPath
<1> HIDE DEF last
<1>3. start \in Places(d, elapsed)
  BY DEF Places
<1> HIDE DEF start
<1>4. IsPath(path, d, start, last)
  BY <1>1, PathExists
<1> HIDE DEF path
<1>5. \A k \in 0..last : path[k] = IF k = 0 THEN start ELSE Onward(d, path[k - 1])
  BY <1>4 DEF IsPath
<1> DEFINE Off == {k \in 0..last : path[k] \notin Places(d, elapsed)}
<1>6. ASSUME Off # {} PROVE FALSE
  <2>0. Off \in SUBSET Nat
    BY <1>1
  <2>1. PICK k \in Off : \A other \in Off : k =< other
    BY <1>6, <2>0, HasLeast
  <2>2. k # 0
    BY <1>3, <1>5, <2>1
  <2>3. k - 1 \in 0..last /\ k - 1 \notin Off
    BY <1>1, <2>1, <2>2
  <2>4. path[k - 1] \in Places(d, elapsed)
    BY <2>3
  <2>5. path[k] = Onward(d, path[k - 1])
    BY <1>5, <2>1, <2>2
  <2> QED
    BY <2>1, <2>4, <2>5, OnwardKeeps
<1> QED
  BY <1>1, <1>2, <1>6

\* Of a set of scenarios that is not empty, the first is one.
LEMMA FirstIsAMember ==
    ASSUME NEW some \in SUBSET Scenarios, some # {}
    PROVE  First(some) \in some
<1> DEFINE I == {i \in DOMAIN ScenarioIds : ScenarioIds[i] \in some}
<1>1. DOMAIN ScenarioIds = 1..Len(ScenarioIds) /\ Len(ScenarioIds) \in Nat
  BY RuntimeAssumption, LenProperties
<1>2. I # {} /\ I \in SUBSET Nat
  BY <1>1 DEF Scenarios, ToSet
<1>3. PICK i \in I : \A other \in I : i =< other
  BY <1>2, HasLeast
<1>4. ScenarioIds[i] \in some /\ \A j \in 1..(i - 1) : ScenarioIds[j] \notin some
  BY <1>1, <1>3
<1> QED
  BY <1>3, <1>4 DEF First

-----------------------------------------------------------------------------
(* What the runtime's variables are.                                       *)

States == (UNION {StatesOf(d) : d \in Released}) \cup {"Started", NotDeployed}

Stub == [definition : Released, part : Nat, by : Nat]

Deployment ==
    [op : {"deploy"}, at : {"list", "delete", "post", "state", "record"},
     scenario : Scenarios, revision : Nat, definition : Released, todo : SUBSET Stub,
     part : Nat, cleaning : BOOLEAN, number : Nat, alone : BOOLEAN]

Moving ==
    [op : {"advance", "publish", "reset", "resetAll"}, at : {"start", "read", "set", "file"},
     rest : (SUBSET Scenarios) \ {{}}, ms : Nat, topic : Topics \cup {"none"},
     next : States, elapsed : Nat, left : Nat]

RuntimeTypeOK ==
    /\ remote \in BOOLEAN
    /\ saved \in [Scenarios -> Seq(Released)]
    /\ Defined # {}
    /\ released \in [Scenarios -> Seq(Nat)]
    /\ \A s \in Scenarios : \A i \in 1..Len(released[s]) : released[s][i] \in 1..Len(saved[s])
    /\ stubs \in [Scenarios -> SUBSET Stub]
    /\ current \in [Scenarios -> States]
    /\ clock \in [Scenarios -> [state : States, elapsed : Nat]]
    /\ task \in [Operations -> {NoOperation} \cup Deployment \cup Moving]
    /\ \A o \in Operations : task[o] \in Moving => task[o].rest \subseteq Defined
    /\ calls \in Nat /\ failures \in Nat /\ crashes \in Nat
    /\ settled \in [Scenarios -> BOOLEAN]
    /\ since \in [Scenarios -> Nat]

\* An operation is one of three kinds.
LEMMA TaskKinds ==
    ASSUME RuntimeTypeOK, NEW o \in Operations
    PROVE  /\ task[o].op = "deploy" <=> task[o] \in Deployment
           /\ task[o].op \in {"advance", "publish", "reset", "resetAll"} <=> task[o] \in Moving
           /\ task[o].op = "none" <=> task[o] = NoOperation
           /\ task[o].op \in {"none", "deploy", "advance", "publish", "reset", "resetAll"}
<1>1. task[o] \in {NoOperation} \cup Deployment \cup Moving
  BY DEF RuntimeTypeOK
<1>2. NoOperation.op = "none"
  BY DEF NoOperation
<1>3. \A t \in Deployment : t.op = "deploy"
  BY DEF Deployment
<1>4. \A t \in Moving : t.op \in {"advance", "publish", "reset", "resetAll"}
  BY DEF Moving
<1> QED
  BY <1>1, <1>2, <1>3, <1>4

-----------------------------------------------------------------------------
(* The inductive invariant.                                                *)

\* The mappings of parts 1 to n of a definition, of the deployment with a number.
Parts(d, n, number) == {[definition |-> d, part |-> p, by |-> number] : p \in 1..n}

\* The runtime serves one whole deployment of the last release.
ServesRelease(s) ==
    /\ released[s] # <<>>
    /\ \E stub \in stubs[s] : stubs[s] = Parts(Pinned(s), Pinned(s).handlers, stub.by)

\* What a deployment that is alone has done to the mappings of its scenario.
Progress(t, here) ==
    LET d == t.definition IN
    /\ t.at = "delete" /\ ~ t.cleaning => here \subseteq t.todo
    /\ t.at = "post" => here = Parts(d, t.part - 1, t.number)
    /\ t.at \in {"state", "record"} => here = Parts(d, d.handlers, t.number)

Phase(t) ==
    /\ t.part \in 1..t.definition.handlers
    /\ t.at \in {"list", "delete"} /\ ~ t.cleaning => t.part = 1

DeploymentInv(o) ==
    LET t == task[o] IN
    /\ t.revision \in 1..Len(saved[t.scenario])
    /\ t.definition = saved[t.scenario][t.revision]
    /\ Phase(t)
    /\ ~ settled[t.scenario]
    /\ t.alone => Deploying(t.scenario) = {o} /\ Progress(t, stubs[t.scenario])

ServesInv ==
    /\ RuntimeTypeOK
    /\ \A s \in Scenarios : settled[s] => ServesRelease(s)
    /\ \A o \in Operations : task[o].op = "deploy" => DeploymentInv(o)

NativeDeploymentInv(t) ==
    /\ t.at \in {"list", "record"}
    /\ t.at = "record" => current[t.scenario] \in StatesOf(t.definition) \cup {"Started"}

NativeMoveInv(o) ==
    LET t == task[o] IN
    /\ t.at = "set" /\ settled[Subject(o)] =>
            t.next \in StatesOf(Pinned(Subject(o)))
    /\ t.at \in {"set", "file"} /\ t.op = "advance" => t.left =< t.elapsed
    /\ t.at = "file" => t.op = "advance" /\ current[Subject(o)] = t.next

NativeScenarioInv(s) ==
    /\ settled[s] => current[s] \in StatesOf(Pinned(s)) \cup {"Started"}
    /\ since[s] =< ElapsedIn(s, current[s])

\* On the native adapter one operation is in progress at a time.
NativeInv ==
    /\ \A o, p \in Operations : task[o] # NoOperation /\ task[p] # NoOperation => o = p
    /\ \A s \in Scenarios : NativeScenarioInv(s)
    /\ \A o \in Operations :
        /\ task[o].op = "deploy" => NativeDeploymentInv(task[o])
        /\ task[o] \in Moving => NativeMoveInv(o)

RuntimeInv == ServesInv /\ (~ remote => NativeInv)

-----------------------------------------------------------------------------
(* What a deployment does to the mappings.                                 *)

\* One operation changes.
LEMMA OneTask ==
    ASSUME RuntimeTypeOK, NEW o \in Operations,
           NEW t \in {NoOperation} \cup Deployment \cup Moving,
           task' = [task EXCEPT ![o] = t]
    PROVE  /\ task' \in [Operations -> {NoOperation} \cup Deployment \cup Moving]
           /\ task'[o] = t
           /\ \A p \in Operations \ {o} : task'[p] = task[p]
  BY DEF RuntimeTypeOK

\* A step that is not of a deployment leaves the mappings and the deployments alone.
LEMMA Moves ==
    ASSUME ServesInv, NEW o \in Operations, task[o].op # "deploy",
           NEW t \in {NoOperation} \cup Moving, t \in Moving => t.rest \subseteq Defined,
           task' = [task EXCEPT ![o] = t],
           UNCHANGED <<remote, saved, released, stubs, settled>>,
           current' \in [Scenarios -> States], since' \in [Scenarios -> Nat],
           clock' \in [Scenarios -> [state : States, elapsed : Nat]],
           calls' \in Nat, failures' \in Nat, crashes' \in Nat
    PROVE  ServesInv'
<1>1. RuntimeTypeOK
  BY DEF ServesInv
<1>2. /\ task' \in [Operations -> {NoOperation} \cup Deployment \cup Moving]
      /\ task'[o] = t
      /\ \A p \in Operations \ {o} : task'[p] = task[p]
  BY <1>1, OneTask
<1>3. t.op # "deploy"
  BY DEF NoOperation, Moving
<1>4. \A p \in Operations : task'[p].op = "deploy" <=> task[p].op = "deploy"
  BY <1>2, <1>3
<1>5. \A p \in Operations : task[p].op = "deploy" => task'[p] = task[p]
  BY <1>2
<1>6. \A s : Deploying(s)' = Deploying(s)
  BY <1>4, <1>5 DEF Deploying
<1>7. RuntimeTypeOK'
  <2>1. Defined' = Defined
    BY DEF Defined
  <2>2. \A p \in Operations : task'[p] \in Moving => task'[p].rest \subseteq Defined
    BY <1>1, <1>2 DEF RuntimeTypeOK
  <2> QED
    BY <1>1, <1>2, <2>1, <2>2 DEF RuntimeTypeOK
<1>8. ASSUME NEW s \in Scenarios, settled'[s] PROVE ServesRelease(s)'
  BY <1>8 DEF ServesInv, ServesRelease, Pinned
<1>9. ASSUME NEW p \in Operations, task'[p].op = "deploy" PROVE DeploymentInv(p)'
  <2>1. DeploymentInv(p) /\ task'[p] = task[p]
    BY <1>4, <1>5, <1>9 DEF ServesInv
  <2> QED
    BY <1>6, <2>1 DEF DeploymentInv, Progress, Phase
<1> QED
  BY <1>7, <1>8, <1>9 DEF ServesInv

\* A deployment ends or goes on for the same revision, with what it has done so far.
GoesOn(o, t, new) ==
    /\ t \in {NoOperation} \cup Deployment
    /\ t # NoOperation =>
         /\ t.scenario = task[o].scenario /\ t.revision = task[o].revision
         /\ t.definition = task[o].definition
         /\ t.alone => task[o].alone /\ Progress(t, new)
         /\ Phase(t)

\* A step of a deployment that is not recorded yet.
LEMMA Deploys ==
    ASSUME ServesInv, NEW o \in Operations, task[o].op = "deploy",
           NEW new \in SUBSET Stub, NEW t, GoesOn(o, t, new),
           task' = [task EXCEPT ![o] = t],
           stubs' = [stubs EXCEPT ![task[o].scenario] = new],
           UNCHANGED <<remote, saved, released, clock, settled>>,
           current' \in [Scenarios -> States], since' \in [Scenarios -> Nat],
           calls' \in Nat, failures' \in Nat, crashes' \in Nat
    PROVE  ServesInv'
<1> DEFINE here == task[o].scenario
<1>0. /\ t \in {NoOperation} \cup Deployment
      /\ t # NoOperation =>
           /\ t.scenario = task[o].scenario /\ t.revision = task[o].revision
           /\ t.definition = task[o].definition
           /\ t.alone => task[o].alone /\ Progress(t, new)
           /\ Phase(t)
  BY DEF GoesOn
<1>1. RuntimeTypeOK /\ DeploymentInv(o) /\ task[o] \in Deployment /\ here \in Scenarios
  BY TaskKinds DEF ServesInv, Deployment
<1>2. /\ task' \in [Operations -> {NoOperation} \cup Deployment \cup Moving]
      /\ task'[o] = t
      /\ \A p \in Operations \ {o} : task'[p] = task[p]
  BY <1>0, <1>1, OneTask
<1>3. /\ stubs' \in [Scenarios -> SUBSET Stub]
      /\ stubs'[here] = new
      /\ \A s \in Scenarios \ {here} : stubs'[s] = stubs[s]
  BY <1>1 DEF RuntimeTypeOK
<1>4. RuntimeTypeOK'
  <2>1. Defined' = Defined
    BY DEF Defined
  <2>2. t \notin Moving
    BY <1>0 DEF NoOperation, Deployment, Moving
  <2>3. \A p \in Operations : task'[p] \in Moving => task'[p].rest \subseteq Defined
    BY <1>1, <1>2, <2>2 DEF RuntimeTypeOK
  <2> QED
    BY <1>1, <1>2, <1>3, <2>1, <2>3 DEF RuntimeTypeOK
<1>5. ASSUME NEW s \in Scenarios, settled'[s] PROVE ServesRelease(s)'
  <2>1. settled[s] /\ s # here /\ stubs'[s] = stubs[s]
    BY <1>1, <1>3, <1>5 DEF DeploymentInv
  <2> QED
    BY <2>1 DEF ServesInv, ServesRelease, Pinned
<1>6. ASSUME NEW p \in Operations, p # o, task'[p].op = "deploy" PROVE DeploymentInv(p)'
  <2>1. DeploymentInv(p) /\ task'[p] = task[p] /\ task[p].scenario \in Scenarios
    BY <1>1, <1>2, <1>6, TaskKinds DEF ServesInv, Deployment
  <2>2. ASSUME task[p].alone PROVE task[p].scenario # here /\ Deploying(task[p].scenario) = {p}
    BY <1>6, <2>1, <2>2 DEF DeploymentInv, Deploying
  <2>3. ASSUME task[p].alone
        PROVE  Deploying(task[p].scenario)' = {p} /\ stubs'[task[p].scenario] = stubs[task[p].scenario]
    <3>1. \A q \in Operations \ {o} : task'[q] = task[q]
      BY <1>2
    <3>2. ~ (task'[o].op = "deploy" /\ task'[o].scenario = task[p].scenario)
      BY <1>0, <1>2, <2>2, <2>3 DEF NoOperation
    <3>3. p \in Deploying(task[p].scenario)'
      BY <1>6, <2>1 DEF Deploying
    <3>4. \A q \in Operations : q \in Deploying(task[p].scenario)' => q \in Deploying(task[p].scenario)
      BY <3>1, <3>2, <2>1 DEF Deploying
    <3>5. Deploying(task[p].scenario)' = {p}
      BY <2>1, <2>2, <2>3, <3>3, <3>4 DEF Deploying
    <3> QED
      BY <1>3, <2>1, <2>2, <2>3, <3>5
  <2> QED
    BY <2>1, <2>3 DEF DeploymentInv, Progress, Phase
<1>7. ASSUME task'[o].op = "deploy" PROVE DeploymentInv(o)'
  <2>1. t # NoOperation
    BY <1>2, <1>7 DEF NoOperation
  <2>2. /\ t.revision \in 1..Len(saved[t.scenario])
        /\ t.definition = saved[t.scenario][t.revision]
        /\ ~ settled[t.scenario]
    BY <1>0, <1>1, <2>1 DEF DeploymentInv
  <2>3. ASSUME t.alone PROVE Deploying(t.scenario)' = {o}
    <3>1. Deploying(here) = {o}
      BY <1>0, <1>1, <2>1, <2>3 DEF DeploymentInv
    <3>2. \A q \in Operations \ {o} : task'[q] = task[q]
      BY <1>2
    <3>3. \A q \in Operations : (task'[q].op = "deploy" /\ task'[q].scenario = here) <=> q = o
      BY <1>0, <1>2, <1>7, <2>1, <3>1, <3>2 DEF Deploying
    <3> QED
      BY <1>0, <2>1, <3>3 DEF Deploying
  <2>4. Phase(t) /\ (t.alone => Progress(t, new))
    BY <1>0, <2>1
  <2>5. t.scenario = here
    BY <1>0, <2>1
  <2> QED
    BY <1>2, <1>3, <2>2, <2>3, <2>4, <2>5 DEF DeploymentInv
<1> QED
  BY <1>4, <1>5, <1>6, <1>7 DEF ServesInv

-----------------------------------------------------------------------------
(* What the operations do to the state of a scenario.                      *)

\* The states of a released definition are states.
LEMMA DeclaredStates ==
    ASSUME NEW d \in Released
    PROVE  Declared(d) /\ StatesOf(d) \subseteq States
  BY ReleasedAssumption DEF States

\* A scenario enters a state; the others stay in theirs.
LEMMA EnterProperties ==
    ASSUME RuntimeTypeOK, NEW s \in Scenarios, NEW state \in States, Enter(s, state)
    PROVE  /\ current' \in [Scenarios -> States]
           /\ since' \in [Scenarios -> Nat]
           /\ current'[s] = state
           /\ since'[s] = IF state = current[s] THEN since[s] ELSE 0
           /\ \A other \in Scenarios \ {s} :
                current'[other] = current[other] /\ since'[other] = since[other]
  BY DEF RuntimeTypeOK, Enter

\* After a restart every scenario that is deployed is in "Started".
LEMMA RestartedProperties ==
    ASSUME RuntimeTypeOK, Restarted
    PROVE  /\ current' \in [Scenarios -> States]
           /\ since' \in [Scenarios -> Nat]
           /\ \A s \in Scenarios : since'[s] = 0 /\ current'[s] \in {current[s], "Started"}
<1>1. "Started" \in States /\ NotDeployed \in States
  BY DEF States
<1> QED
  BY <1>1 DEF RuntimeTypeOK, Restarted

\* An operation that moves scenarios has one to move that exists.
LEMMA SubjectProperties ==
    ASSUME RuntimeTypeOK, NEW o \in Operations, task[o] \in Moving
    PROVE  /\ Subject(o) \in task[o].rest
           /\ Subject(o) \in Defined
           /\ Subject(o) \in Scenarios
           /\ saved[Subject(o)] # <<>>
<1>1. task[o].rest \in SUBSET Scenarios /\ task[o].rest # {}
  BY DEF Moving
<1>2. task[o].rest \subseteq Defined
  BY DEF RuntimeTypeOK
<1> QED
  BY <1>1, <1>2, FirstIsAMember DEF Subject, Defined

\* The definition that an operation follows is a released one.
LEMMA DefinitionProperties ==
    ASSUME RuntimeTypeOK, NEW s \in Scenarios, saved[s] # <<>>
    PROVE  /\ DefinitionOf(s) \in Released
           /\ released[s] # <<>> => DefinitionOf(s) = Pinned(s)
<1>1. /\ saved[s] \in Seq(Released) /\ released[s] \in Seq(Nat)
      /\ \A i \in 1..Len(released[s]) : released[s][i] \in 1..Len(saved[s])
  BY DEF RuntimeTypeOK
<1>2. Len(saved[s]) \in 1..Len(saved[s])
  BY <1>1, EmptySeq
<1>3. CASE released[s] = <<>>
  <2>1. DefinitionOf(s) = saved[s][Len(saved[s])]
    BY <1>3 DEF DefinitionOf, Last
  <2> QED
    BY <1>1, <1>2, <1>3, <2>1, ElementOfSeq
<1>4. CASE released[s] # <<>>
  <2>1. Len(released[s]) \in 1..Len(released[s])
    BY <1>1, <1>4, EmptySeq
  <2>2. DefinitionOf(s) = Pinned(s) /\ Pinned(s) = saved[s][released[s][Len(released[s])]]
    BY <1>4 DEF DefinitionOf, Pinned, Last
  <2> QED
    BY <1>1, <2>1, <2>2, ElementOfSeq
<1> QED
  BY <1>3, <1>4

\* After a scenario the operation ends or goes on with the others.
LEMMA ContinueProperties ==
    ASSUME RuntimeTypeOK, NEW o \in Operations, task[o] \in Moving, Continue(o)
    PROVE  \E t \in {NoOperation} \cup Moving :
             /\ task' = [task EXCEPT ![o] = t]
             /\ t \in Moving => t.rest \subseteq Defined /\ t.at = "read"
<1>1. CASE task[o].rest = {Subject(o)}
  <2>1. task' = [task EXCEPT ![o] = NoOperation]
    BY <1>1 DEF Continue, End
  <2>2. NoOperation \notin Moving
    BY DEF NoOperation, Moving
  <2> QED
    BY <2>1, <2>2
<1>2. CASE task[o].rest # {Subject(o)}
  <2> DEFINE t == [task[o] EXCEPT !.at = "read", !.rest = task[o].rest \ {Subject(o)}]
  <2>1. task' = [task EXCEPT ![o] = t]
    BY <1>2 DEF Continue
  <2>2. task[o].rest \ {Subject(o)} \in (SUBSET Scenarios) \ {{}}
    <3>1. task[o].rest \in SUBSET Scenarios
      BY DEF Moving
    <3>2. Subject(o) \in task[o].rest
      BY SubjectProperties
    <3>3. \E other \in task[o].rest : other # Subject(o)
      BY <1>2, <3>2
    <3> QED
      BY <3>1, <3>3
  <2>3. t \in Moving /\ t.rest = task[o].rest \ {Subject(o)} /\ t.at = "read"
    BY <2>2 DEF Moving
  <2> HIDE DEF t
  <2> QED
    BY <2>1, <2>3 DEF RuntimeTypeOK
<1> QED
  BY <1>1, <1>2

\* An operation moves a scenario only to a state that the definition declares.
LEMMA TargetIsDeclared ==
    ASSUME NEW move \in Moving, NEW s \in Scenarios, RuntimeTypeOK, saved[s] # <<>>,
           NEW state,
           Target(move, s, state) # "fail", Target(move, s, state) # "skip"
    PROVE  /\ Target(move, s, state) \in StatesOf(DefinitionOf(s))
           /\ move.op = "advance" =>
                /\ state \in StatesOf(DefinitionOf(s))
                /\ Target(move, s, state)
                    = Traversal(DefinitionOf(s), state, ElapsedIn(s, state) + move.ms).state
<1> DEFINE d == DefinitionOf(s)
           elapsed == ElapsedIn(s, state) + move.ms
           end == Traversal(d, state, elapsed)
<1>1. d \in Released /\ Declared(d)
  BY DefinitionProperties, DeclaredStates
<1>2. elapsed \in Nat
  BY DEF ElapsedIn, RuntimeTypeOK, Moving
<1>3. state \in StatesOf(d) => end \in Places(d, elapsed)
  BY <1>1, <1>2, TraversalKeepsTime
<1>4. CASE move.op = "advance"
  <2>1. Target(move, s, state) =
          IF state = NotDeployed \/ state \notin StatesOf(d)
             \/ end.fired > Cardinality(StatesOf(d)) THEN "fail" ELSE end.state
    BY <1>4 DEF Target
  <2>2. state \in StatesOf(d) /\ Target(move, s, state) = end.state
    BY <2>1
  <2> HIDE DEF d, end
  <2>3. end.state \in StatesOf(d)
    BY <1>3, <2>2 DEF Places
  <2> QED
    BY <2>2, <2>3 DEF d, end
<1> HIDE DEF end
<1>5. CASE move.op = "publish"
  <2>1. Target(move, s, state) =
          CASE state = NotDeployed -> "skip"
            [] state # NotDeployed /\ state \notin StatesOf(d) -> "fail"
            [] OTHER -> IF move.topic \in DOMAIN d.topics[state]
                        THEN d.topics[state][move.topic] ELSE "skip"
    BY <1>5 DEF Target
  <2>2. state \in StatesOf(d) /\ move.topic \in DOMAIN d.topics[state]
        /\ Target(move, s, state) = d.topics[state][move.topic]
    BY <2>1
  <2> HIDE DEF d
  <2> QED
    BY <1>1, <1>5, <2>2 DEF Declared, d
<1>6. CASE move.op \in {"reset", "resetAll"}
  <2>1. Target(move, s, state) = d.reset
    BY <1>6 DEF Target
  <2> HIDE DEF d
  <2> QED
    BY <1>1, <1>6, <2>1 DEF Declared, d
<1> QED
  BY <1>4, <1>5, <1>6 DEF Moving

-----------------------------------------------------------------------------
(* What the runtime serves, action by action.                              *)

\* A move as it begins.
LEMMA MoveIsMoving ==
    ASSUME NEW op \in {"advance", "publish", "reset", "resetAll"}, NEW at \in {"start", "read"},
           NEW rest \in SUBSET Scenarios, rest # {}
    PROVE  /\ Move(op, at, rest) \in Moving
           /\ Move(op, at, rest).rest = rest /\ Move(op, at, rest).at = at
           /\ \A ms \in Nat : LET m == [Move(op, at, rest) EXCEPT !.ms = ms] IN
                m \in Moving /\ m.rest = rest /\ m.at = at
           /\ \A topic \in Topics : LET m == [Move(op, at, rest) EXCEPT !.topic = topic] IN
                m \in Moving /\ m.rest = rest /\ m.at = at
<1>1. NotDeployed \in States
  BY DEF States
<1> QED
  BY <1>1 DEF Move, Moving

LEMMA BeginMoveServes ==
    ASSUME ServesInv, NEW o \in Operations, NEW move \in Moving, move.rest \subseteq Defined,
           BeginMove(o, move)
    PROVE  ServesInv'
<1>1. RuntimeTypeOK
  BY DEF ServesInv
<1>2. task[o].op # "deploy" /\ task' = [task EXCEPT ![o] = move] /\ calls' \in Nat
  BY <1>1 DEF BeginMove, MayBegin, NoOperation, RuntimeTypeOK
<1>3. UNCHANGED <<remote, saved, released, clock, stubs, current, settled, since, failures, crashes>>
  BY DEF BeginMove, files
<1>4. /\ current' \in [Scenarios -> States] /\ since' \in [Scenarios -> Nat]
      /\ clock' \in [Scenarios -> [state : States, elapsed : Nat]]
      /\ failures' \in Nat /\ crashes' \in Nat
  BY <1>1, <1>3 DEF RuntimeTypeOK
<1> QED
  BY <1>2, <1>3, <1>4, Moves

LEMMA StartResetAllServes ==
    ASSUME ServesInv, NEW o \in Operations, StartResetAll(o)
    PROVE  ServesInv'
<1>1. RuntimeTypeOK /\ task[o] \in Moving /\ task[o].op # "deploy" /\ task[o].rest \subseteq Defined
  BY TaskKinds DEF ServesInv, StartResetAll, RuntimeTypeOK
<1> DEFINE t == [task[o] EXCEPT !.at = "read"]
<1>2. task' = [task EXCEPT ![o] = t]
  BY DEF StartResetAll
<1>3. t \in Moving /\ t.rest \subseteq Defined
  BY <1>1 DEF Moving
<1>4. UNCHANGED <<remote, saved, released, clock, stubs, settled, calls, failures, crashes>>
  BY DEF StartResetAll, files, counters
<1>5. current' \in [Scenarios -> States] /\ since' \in [Scenarios -> Nat]
  BY <1>1, RestartedProperties DEF StartResetAll
<1>6. /\ clock' \in [Scenarios -> [state : States, elapsed : Nat]]
      /\ calls' \in Nat /\ failures' \in Nat /\ crashes' \in Nat
  BY <1>1, <1>4 DEF RuntimeTypeOK
<1> HIDE DEF t
<1> QED
  BY <1>1, <1>2, <1>3, <1>4, <1>5, <1>6, Moves

\* What an operation remembers when it read the state of a scenario.
LEMMA SetNextProperties ==
    ASSUME RuntimeTypeOK, NEW o \in Operations, task[o] \in Moving,
           NEW state \in States, NEW end,
           task[o].op = "advance" => end.passed \in Nat /\ end.elapsed \in Nat,
           SetNext(o, state, end)
    PROVE  \E t \in Moving :
             /\ task' = [task EXCEPT ![o] = t]
             /\ t.rest = task[o].rest /\ t.op = task[o].op
             /\ t.at = "set" /\ t.next = state
             /\ t.op = "advance" =>
                  /\ t.elapsed = end.elapsed
                  /\ \/ t.left = 0
                     \/ t.left = (since[Subject(o)] + task[o].ms) - end.passed
<1>1. CASE task[o].op = "advance"
  <2> DEFINE all == since[Subject(o)] + task[o].ms
             rest == IF all > end.passed THEN all - end.passed ELSE 0
  <2>1. task' = [task EXCEPT ![o] = [task[o] EXCEPT !.at = "set", !.next = state,
                                        !.elapsed = end.elapsed, !.left = rest]]
    BY <1>1, Zenon DEF SetNext
  <2>2. all \in Nat
    <3>1. Subject(o) \in Scenarios
      BY SubjectProperties
    <3> QED
      BY <3>1 DEF RuntimeTypeOK, Moving
  <2>3. rest \in Nat /\ (rest = 0 \/ rest = all - end.passed)
    BY <1>1, <2>2
  <2>4. rest = 0 \/ rest = (since[Subject(o)] + task[o].ms) - end.passed
    BY <2>3
  <2> HIDE DEF rest
  <2> DEFINE t == [task[o] EXCEPT !.at = "set", !.next = state, !.elapsed = end.elapsed,
                                  !.left = rest]
  <2>5. t \in Moving
    BY <1>1, <2>3 DEF Moving
  <2>6. /\ t.rest = task[o].rest /\ t.op = task[o].op
        /\ t.at = "set" /\ t.next = state
        /\ t.elapsed = end.elapsed /\ t.left = rest
    BY DEF Moving
  <2>7. task' = [task EXCEPT ![o] = t]
    BY <2>1
  <2> HIDE DEF t
  <2> QED
    BY <2>4, <2>5, <2>6, <2>7, Zenon
<1>2. CASE task[o].op # "advance"
  <2> DEFINE t == [task[o] EXCEPT !.at = "set", !.next = state]
  <2>1. task' = [task EXCEPT ![o] = t]
    BY <1>2 DEF SetNext
  <2>2. t \in Moving
    BY DEF Moving
  <2>3. /\ t.rest = task[o].rest /\ t.op = task[o].op /\ t.at = "set" /\ t.next = state
        /\ t.op # "advance"
    BY <1>2 DEF Moving
  <2> HIDE DEF t
  <2> QED
    BY <2>1, <2>2, <2>3, Zenon
<1> QED
  BY <1>1, <1>2

\* Reading a state ends the operation, skips the scenario, or settles where it goes.
LEMMA ReadStateProperties ==
    ASSUME RuntimeTypeOK, NEW o \in Operations, ReadState(o)
    PROVE  /\ task[o] \in Moving
           /\ \E t \in {NoOperation} \cup Moving :
                /\ task' = [task EXCEPT ![o] = t]
                /\ t \in Moving => t.rest \subseteq Defined
                /\ \/ t = NoOperation
                   \/ t.at = "read"
                   \/ LET s == Subject(o)
                          end == Traversal(DefinitionOf(s), current[s],
                                           ElapsedIn(s, current[s]) + task[o].ms)
                      IN  /\ t.at = "set" /\ t.op = task[o].op /\ t.rest = task[o].rest
                          /\ t.next \in StatesOf(DefinitionOf(s))
                          /\ t.op = "advance" =>
                               /\ current[s] \in StatesOf(DefinitionOf(s))
                               /\ t.elapsed = end.elapsed
                               /\ t.left = 0 \/ t.left = (since[s] + task[o].ms) - end.passed
<1> DEFINE s == Subject(o)
           state == current[s]
           target == Target(task[o], s, state)
           elapsed == ElapsedIn(s, state) + task[o].ms
           end == Traversal(DefinitionOf(s), state, elapsed)
<1>1. task[o] \in Moving
  BY TaskKinds DEF ReadState
<1>2. s \in Scenarios /\ saved[s] # <<>> /\ s \in task[o].rest /\ task[o].rest \subseteq Defined
  BY <1>1, SubjectProperties DEF RuntimeTypeOK
<1>3. DefinitionOf(s) \in Released /\ StatesOf(DefinitionOf(s)) \subseteq States
  BY <1>2, DefinitionProperties, DeclaredStates
<1>4. elapsed \in Nat
  BY <1>1, <1>2 DEF ElapsedIn, RuntimeTypeOK, Moving
<1>5. \/ target = "fail" /\ End(o)
      \/ target = "skip" /\ Continue(o)
      \/ target # "fail" /\ target # "skip" /\ SetNext(o, target, end)
  BY DEF ReadState
<1>6. CASE target = "fail" /\ End(o)
  <2>1. task' = [task EXCEPT ![o] = NoOperation]
    BY <1>6 DEF End
  <2>2. NoOperation \notin Moving
    BY DEF NoOperation, Moving
  <2> QED
    BY <1>1, <2>1, <2>2
<1>7. CASE target = "skip" /\ Continue(o)
  BY <1>1, <1>7, ContinueProperties
<1>8. CASE target # "fail" /\ target # "skip" /\ SetNext(o, target, end)
  <2>1. /\ target \in StatesOf(DefinitionOf(s))
        /\ task[o].op = "advance" => state \in StatesOf(DefinitionOf(s))
    BY <1>1, <1>2, <1>8, TargetIsDeclared
  <2>2. task[o].op = "advance" => end \in Places(DefinitionOf(s), elapsed)
    BY <1>3, <1>4, <2>1, TraversalKeepsTime
  <2>3. task[o].op = "advance" => end.passed \in Nat /\ end.elapsed \in Nat
    BY <2>2 DEF Places
  <2> HIDE DEF target, end
  <2>4. target \in States /\ SetNext(o, target, end)
    BY <1>3, <1>8, <2>1
  <2>5. PICK t \in Moving :
             /\ task' = [task EXCEPT ![o] = t]
             /\ t.rest = task[o].rest /\ t.op = task[o].op
             /\ t.at = "set" /\ t.next = target
             /\ t.op = "advance" =>
                  /\ t.elapsed = end.elapsed
                  /\ \/ t.left = 0
                     \/ t.left = (since[Subject(o)] + task[o].ms) - end.passed
    BY <1>1, <2>3, <2>4, SetNextProperties
  <2>6. t.op = "advance" =>
          /\ state \in StatesOf(DefinitionOf(s))
          /\ t.elapsed = end.elapsed
          /\ t.left = 0 \/ t.left = (since[s] + task[o].ms) - end.passed
    BY <2>1, <2>5
  <2> QED
    BY <1>1, <1>2, <2>1, <2>5, <2>6 DEF end
<1> QED
  BY <1>5, <1>6, <1>7, <1>8

LEMMA ReadStateServes ==
    ASSUME ServesInv, NEW o \in Operations, ReadState(o)
    PROVE  ServesInv'
<1>1. RuntimeTypeOK
  BY DEF ServesInv
<1>2. PICK t \in {NoOperation} \cup Moving :
         task' = [task EXCEPT ![o] = t] /\ (t \in Moving => t.rest \subseteq Defined)
  BY <1>1, ReadStateProperties
<1>3. task[o].op # "deploy"
  BY DEF ReadState
<1>4. UNCHANGED <<remote, saved, released, clock, stubs, current, settled, since, calls, failures, crashes>>
  BY DEF ReadState, files, counters
<1>5. /\ current' \in [Scenarios -> States] /\ since' \in [Scenarios -> Nat]
      /\ clock' \in [Scenarios -> [state : States, elapsed : Nat]]
      /\ calls' \in Nat /\ failures' \in Nat /\ crashes' \in Nat
  BY <1>1, <1>4 DEF RuntimeTypeOK
<1> QED
  BY <1>2, <1>3, <1>4, <1>5, Moves

\* Setting a state ends the operation, goes on with the next scenario or with the clock.
LEMMA SetStateProperties ==
    ASSUME RuntimeTypeOK, NEW o \in Operations, task[o] \in Moving, SetState(o)
    PROVE  \/ /\ task' = [task EXCEPT ![o] = NoOperation]
              /\ UNCHANGED <<current, since>>
           \/ /\ Enter(Subject(o), task[o].next)
              /\ \/ \E t \in {NoOperation} \cup Moving :
                       /\ task' = [task EXCEPT ![o] = t]
                       /\ t \in Moving => t.rest \subseteq Defined /\ t.at = "read"
                 \/ /\ task[o].op = "advance"
                    /\ \E t \in Moving :
                         /\ task' = [task EXCEPT ![o] = t]
                         /\ t.at = "file" /\ t.op = "advance"
                         /\ t.rest = task[o].rest /\ t.next = task[o].next
                         /\ t.elapsed = task[o].elapsed /\ t.left = task[o].left
<1>1. CASE End(o) /\ UNCHANGED <<current, since>>
  BY <1>1 DEF End
<1>2. CASE Enter(Subject(o), task[o].next) /\ task[o].op = "advance" /\ task' = [task EXCEPT ![o].at = "file"]
  <2> DEFINE t == [task[o] EXCEPT !.at = "file"]
  <2>1. task' = [task EXCEPT ![o] = t]
    BY <1>2
  <2>2. /\ t \in Moving /\ t.at = "file" /\ t.op = task[o].op
        /\ t.rest = task[o].rest /\ t.next = task[o].next
        /\ t.elapsed = task[o].elapsed /\ t.left = task[o].left
    BY DEF Moving
  <2> HIDE DEF t
  <2> QED
    BY <1>2, <2>1, <2>2
<1>3. CASE Enter(Subject(o), task[o].next) /\ Continue(o)
  BY <1>3, ContinueProperties
<1> QED
  BY <1>1, <1>2, <1>3 DEF SetState

LEMMA SetStateServes ==
    ASSUME ServesInv, NEW o \in Operations, task[o] \in Moving, SetState(o)
    PROVE  ServesInv'
<1>1. RuntimeTypeOK /\ task[o].op # "deploy" /\ task[o].rest \subseteq Defined
  BY TaskKinds DEF ServesInv, RuntimeTypeOK, Moving
<1>2. Subject(o) \in Scenarios /\ task[o].next \in States
  BY <1>1, SubjectProperties DEF Moving
<1>3. UNCHANGED <<remote, saved, released, clock, stubs, settled, calls, failures, crashes>>
  BY DEF SetState, files, counters
<1>4. /\ clock' \in [Scenarios -> [state : States, elapsed : Nat]]
      /\ calls' \in Nat /\ failures' \in Nat /\ crashes' \in Nat
  BY <1>1, <1>3 DEF RuntimeTypeOK
<1>5. current' \in [Scenarios -> States] /\ since' \in [Scenarios -> Nat]
  <2>1. Enter(Subject(o), task[o].next) \/ UNCHANGED <<current, since>>
    BY <1>1, SetStateProperties
  <2> QED
    BY <1>1, <1>2, <2>1, EnterProperties DEF RuntimeTypeOK
<1>6. \E t \in {NoOperation} \cup Moving :
         task' = [task EXCEPT ![o] = t] /\ (t \in Moving => t.rest \subseteq Defined)
  <2>1. NoOperation \notin Moving
    BY DEF NoOperation, Moving
  <2> QED
    BY <1>1, <2>1, SetStateProperties
<1> QED
  BY <1>1, <1>3, <1>4, <1>5, <1>6, Moves

LEMMA WriteClockServes ==
    ASSUME ServesInv, NEW o \in Operations, WriteClock(o)
    PROVE  ServesInv'
<1>1. RuntimeTypeOK /\ task[o] \in Moving /\ task[o].op # "deploy"
  BY TaskKinds DEF ServesInv, WriteClock
<1>2. Subject(o) \in Scenarios
  BY <1>1, SubjectProperties
<1>3. UNCHANGED <<remote, saved, released, stubs, current, settled, calls, failures, crashes>>
  BY DEF WriteClock, counters
<1>4. /\ current' \in [Scenarios -> States]
      /\ calls' \in Nat /\ failures' \in Nat /\ crashes' \in Nat
  BY <1>1, <1>3 DEF RuntimeTypeOK
<1>5. since' \in [Scenarios -> Nat] /\ clock' \in [Scenarios -> [state : States, elapsed : Nat]]
  BY <1>1, <1>2 DEF RuntimeTypeOK, WriteClock, Moving
<1>6. task' = [task EXCEPT ![o] = NoOperation] /\ NoOperation \notin Moving
  BY DEF WriteClock, End, NoOperation, Moving
<1> QED
  BY <1>1, <1>3, <1>4, <1>5, <1>6, Moves
\* WireMock holds a scenario with some mappings.
LEMMA WithStubsProperties ==
    ASSUME RuntimeTypeOK, NEW s \in Scenarios, NEW new \in SUBSET Stub, WithStubs(s, new)
    PROVE  /\ stubs' = [stubs EXCEPT ![s] = new]
           /\ current' \in [Scenarios -> States] /\ since' \in [Scenarios -> Nat]
<1> DEFINE state == IF new = {} THEN NotDeployed
                    ELSE IF current[s] = NotDeployed THEN "Started" ELSE current[s]
<1>1. state \in States
  BY DEF States, RuntimeTypeOK
<1>2. stubs' = [stubs EXCEPT ![s] = new] /\ Enter(s, state)
  BY DEF WithStubs
<1> HIDE DEF state
<1> QED
  BY <1>1, <1>2, EnterProperties

\* A deployment that is in progress.
LEMMA DeploymentProperties ==
    ASSUME ServesInv, NEW o \in Operations, task[o].op = "deploy"
    PROVE  /\ RuntimeTypeOK /\ task[o] \in Deployment /\ DeploymentInv(o) /\ Phase(task[o])
           /\ task[o].scenario \in Scenarios
           /\ stubs[task[o].scenario] \in SUBSET Stub
           /\ task[o].alone => Progress(task[o], stubs[task[o].scenario])
           /\ Declared(task[o].definition) /\ task[o].definition.initial \in States
           /\ StubsOf(o) = Parts(task[o].definition, task[o].definition.handlers, task[o].number)
           /\ StubsOf(o) \in SUBSET Stub
<1>1. RuntimeTypeOK /\ task[o] \in Deployment /\ DeploymentInv(o)
  BY TaskKinds DEF ServesInv
<1>2. Phase(task[o]) /\ (task[o].alone => Progress(task[o], stubs[task[o].scenario]))
  BY <1>1 DEF DeploymentInv
<1>3. task[o].scenario \in Scenarios /\ task[o].definition \in Released /\ task[o].number \in Nat
  BY <1>1 DEF Deployment
<1>4. Declared(task[o].definition) /\ task[o].definition.initial \in States
  BY <1>3, DeclaredStates DEF Declared
<1>5. StubsOf(o) = Parts(task[o].definition, task[o].definition.handlers, task[o].number)
  BY DEF StubsOf, Parts
<1>6. StubsOf(o) \in SUBSET Stub
  BY <1>3, <1>4 DEF StubsOf, Stub, Declared
<1> QED
  BY <1>1, <1>2, <1>3, <1>4, <1>5, <1>6 DEF RuntimeTypeOK

\* Where a deployment goes after it listed or deleted mappings.
LEMMA AfterDeletesGoesOn ==
    ASSUME ServesInv, NEW o \in Operations, task[o].op = "deploy",
           task[o].at \in {"list", "delete"},
           NEW todo \in SUBSET Stub, NEW new \in SUBSET Stub,
           task[o].alone /\ ~ task[o].cleaning => new \subseteq todo,
           AfterDeletes(o, todo)
    PROVE  \E t : GoesOn(o, t, new) /\ task' = [task EXCEPT ![o] = t]
<1>1. task[o] \in Deployment /\ Phase(task[o])
  BY DeploymentProperties
<1>2. CASE todo # {}
  <2> DEFINE t == [task[o] EXCEPT !.at = "delete", !.todo = todo]
  <2>1. task' = [task EXCEPT ![o] = t]
    BY <1>2 DEF AfterDeletes
  <2>2. t \in Deployment
    BY <1>1 DEF Deployment
  <2>3. /\ t.at = "delete" /\ t.todo = todo /\ t.part = task[o].part
        /\ t.scenario = task[o].scenario /\ t.revision = task[o].revision
        /\ t.definition = task[o].definition
    BY <1>1 DEF Deployment
  <2>4. (t.alone => task[o].alone) /\ (t.cleaning => task[o].cleaning) /\ (task[o].cleaning => t.cleaning)
    BY <1>1 DEF Deployment
  <2> HIDE DEF t
  <2>5. t.alone => Progress(t, new)
    BY <2>3, <2>4 DEF Progress
  <2>6. Phase(t)
    BY <1>1, <2>3, <2>4 DEF Phase
  <2> QED
    BY <2>1, <2>2, <2>3, <2>4, <2>5, <2>6 DEF GoesOn
<1>3. CASE todo = {} /\ task[o].cleaning
  BY <1>3 DEF AfterDeletes, End, GoesOn
<1>4. CASE todo = {} /\ ~ task[o].cleaning
  <2> DEFINE t == [task[o] EXCEPT !.at = "post", !.todo = {}]
  <2>1. task' = [task EXCEPT ![o] = t]
    BY <1>4 DEF AfterDeletes
  <2>2. t \in Deployment
    BY <1>1 DEF Deployment
  <2>3. /\ t.at = "post" /\ t.part = task[o].part
        /\ t.scenario = task[o].scenario /\ t.revision = task[o].revision
        /\ t.definition = task[o].definition
    BY <1>1 DEF Deployment
  <2>4. t.alone => task[o].alone
    BY <1>1 DEF Deployment
  <2> HIDE DEF t
  <2>5. t.part = 1 /\ Phase(t)
    BY <1>1, <1>4, <2>3, <2>4 DEF Phase
  <2>6. t.alone => Progress(t, new)
    BY <1>4, <2>3, <2>4, <2>5 DEF Progress, Parts
  <2> QED
    BY <2>1, <2>2, <2>3, <2>4, <2>5, <2>6 DEF GoesOn
<1> QED
  BY <1>2, <1>3, <1>4

\* Cleaning up and ending claim nothing about the mappings.
LEMMA CleanUpGoesOn ==
    ASSUME ServesInv, NEW o \in Operations, task[o].op = "deploy", NEW new,
           End(o) \/ CleanUp(o)
    PROVE  \E t : GoesOn(o, t, new) /\ task' = [task EXCEPT ![o] = t]
<1>1. task[o] \in Deployment /\ Phase(task[o])
  BY DeploymentProperties
<1>2. CASE End(o)
  BY <1>2 DEF End, GoesOn
<1>3. CASE CleanUp(o)
  <2> DEFINE t == [task[o] EXCEPT !.at = "list", !.cleaning = TRUE]
  <2>1. task' = [task EXCEPT ![o] = t]
    BY <1>3 DEF CleanUp
  <2>2. t \in Deployment
    BY <1>1 DEF Deployment
  <2>3. /\ t.at = "list" /\ t.part = task[o].part
        /\ t.scenario = task[o].scenario /\ t.revision = task[o].revision
        /\ t.definition = task[o].definition
    BY <1>1 DEF Deployment
  <2>4. (t.alone => task[o].alone) /\ t.cleaning
    BY <1>1 DEF Deployment
  <2> HIDE DEF t
  <2>5. Progress(t, new) /\ Phase(t)
    BY <1>1, <2>3, <2>4 DEF Progress, Phase
  <2> QED
    BY <2>1, <2>2, <2>3, <2>4, <2>5 DEF GoesOn
<1> QED
  BY <1>2, <1>3

\* Nothing but the state of the scenario is left to set, or to record.
LEMMA AllPostedGoesOn ==
    ASSUME ServesInv, NEW o \in Operations, task[o].op = "deploy",
           NEW at \in {"state", "record"}, NEW new,
           task[o].alone => new = StubsOf(o),
           task' = [task EXCEPT ![o].at = at]
    PROVE  \E t : GoesOn(o, t, new) /\ task' = [task EXCEPT ![o] = t]
<1>1. task[o] \in Deployment /\ Phase(task[o])
  BY DeploymentProperties
<1>2. StubsOf(o) = Parts(task[o].definition, task[o].definition.handlers, task[o].number)
  BY DeploymentProperties
<1> DEFINE t == [task[o] EXCEPT !.at = at]
<1>3. task' = [task EXCEPT ![o] = t]
  OBVIOUS
<1>4. t \in Deployment
  BY <1>1 DEF Deployment
<1>5. /\ t.at = at /\ t.part = task[o].part /\ t.number = task[o].number
      /\ t.scenario = task[o].scenario /\ t.revision = task[o].revision
      /\ t.definition = task[o].definition
  BY <1>1 DEF Deployment
<1>6. t.alone => task[o].alone
  BY <1>1 DEF Deployment
<1> HIDE DEF t
<1>7. Phase(t)
  BY <1>1, <1>5, <1>6 DEF Phase, Deployment
<1>8. t.alone => Progress(t, new)
  BY <1>2, <1>5, <1>6 DEF Progress
<1> QED
  BY <1>3, <1>4, <1>5, <1>6, <1>7, <1>8 DEF GoesOn

\* One more part is posted.
LEMMA PostGoesOn ==
    ASSUME ServesInv, NEW o \in Operations, task[o].op = "deploy", task[o].at = "post"
    PROVE  LET new == stubs[task[o].scenario] \cup {Posting(o)} IN
           /\ new \in SUBSET Stub
           /\ Post(o) => \E t : GoesOn(o, t, new) /\ task' = [task EXCEPT ![o] = t]
<1> DEFINE d == task[o].definition
           part == task[o].part
           posting == [definition |-> d, part |-> part, by |-> task[o].number]
           new == stubs[task[o].scenario] \cup {Posting(o)}
<1>1. /\ task[o] \in Deployment /\ Phase(task[o]) /\ StubsOf(o) \in SUBSET Stub
      /\ stubs[task[o].scenario] \in SUBSET Stub
      /\ task[o].alone => Progress(task[o], stubs[task[o].scenario])
      /\ StubsOf(o) = Parts(d, d.handlers, task[o].number)
      /\ Declared(d)
  BY DeploymentProperties
<1>2. part \in 1..d.handlers /\ d.handlers \in Nat
  BY <1>1 DEF Phase, Declared
<1>3. Posting(o) = posting /\ posting \in StubsOf(o)
  BY <1>2 DEF Posting, StubsOf
<1>4. new \in SUBSET Stub
  BY <1>1, <1>3
<1>5. task[o].alone => new = Parts(d, part, task[o].number)
  <2>1. part \in Nat /\ \A p : p \in 1..part <=> p \in 1..(part - 1) \/ p = part
    BY <1>2
  <2>2. task[o].alone => stubs[task[o].scenario] = Parts(d, part - 1, task[o].number)
    BY <1>1 DEF Progress
  <2>3. Parts(d, part, task[o].number) = Parts(d, part - 1, task[o].number) \cup {posting}
    <3> HIDE DEF part, d
    <3> QED
      BY <2>1 DEF Parts
  <2> QED
    BY <1>3, <2>2, <2>3
<1> HIDE DEF new
<1>6. ASSUME Post(o) PROVE \E t : GoesOn(o, t, new) /\ task' = [task EXCEPT ![o] = t]
  <2>1. CASE part = d.handlers
    <3>1. task' = [task EXCEPT ![o].at = "state"]
      BY <1>6, <2>1 DEF Post
    <3>2. task[o].alone => new = StubsOf(o)
      BY <1>1, <1>5, <2>1
    <3> QED
      BY <1>2, <3>1, <3>2, AllPostedGoesOn
  <2>2. CASE part # d.handlers
    <3> DEFINE t == [task[o] EXCEPT !.part = task[o].part + 1]
    <3>1. task' = [task EXCEPT ![o] = t]
      BY <1>6, <2>2 DEF Post
    <3>2. t \in Deployment
      BY <1>1 DEF Deployment
    <3>3. /\ t.at = "post" /\ t.part = part + 1 /\ t.number = task[o].number
          /\ t.scenario = task[o].scenario /\ t.revision = task[o].revision
          /\ t.definition = d
      BY <1>1 DEF Deployment
    <3>4. t.alone => task[o].alone
      BY <1>1 DEF Deployment
    <3> HIDE DEF t
    <3>5. Phase(t)
      BY <1>2, <2>2, <3>3, <3>4 DEF Phase
    <3>6. t.alone => Progress(t, new)
      <4>1. t.part - 1 = part
        BY <1>2, <3>3
      <4> QED
        BY <1>5, <3>3, <3>4, <4>1 DEF Progress
    <3> QED
      BY <3>1, <3>2, <3>3, <3>4, <3>5, <3>6 DEF GoesOn
  <2> QED
    BY <2>1, <2>2
<1> QED
  BY <1>4, <1>6 DEF new
LEMMA DeploymentStepServes ==
    ASSUME ServesInv, NEW o \in Operations,
           \/ DeployNative(o) \/ List(o) \/ Post(o) \/ DeployState(o)
           \/ \E stub \in task[o].todo : At(o, "delete") /\ Delete(o, stub)
    PROVE  ServesInv'
<1> DEFINE here == task[o].scenario
<1>1. /\ task[o].op = "deploy"
      /\ UNCHANGED <<remote, saved, released, clock, calls, failures, crashes, settled>>
  BY DEF DeployNative, List, Post, DeployState, Delete, At, files, counters
<1>2. /\ RuntimeTypeOK /\ task[o] \in Deployment /\ Phase(task[o]) /\ here \in Scenarios
      /\ stubs[here] \in SUBSET Stub
      /\ task[o].alone => Progress(task[o], stubs[here])
      /\ task[o].definition.initial \in States
      /\ StubsOf(o) \in SUBSET Stub
      /\ StubsOf(o) = Parts(task[o].definition, task[o].definition.handlers, task[o].number)
  BY <1>1, DeploymentProperties
<1>3. calls' \in Nat /\ failures' \in Nat /\ crashes' \in Nat
  BY <1>1, <1>2 DEF RuntimeTypeOK
<1>4. /\ stubs = [stubs EXCEPT ![here] = stubs[here]]
      /\ current \in [Scenarios -> States] /\ since \in [Scenarios -> Nat]
  BY <1>2 DEF RuntimeTypeOK
<1>5. ASSUME NEW new \in SUBSET Stub,
             \E t : GoesOn(o, t, new) /\ task' = [task EXCEPT ![o] = t],
             stubs' = [stubs EXCEPT ![here] = new],
             current' \in [Scenarios -> States], since' \in [Scenarios -> Nat]
      PROVE  ServesInv'
  BY <1>1, <1>3, <1>5, Deploys
<1>6. CASE DeployNative(o)
  <2>1. task[o].at = "list" /\ task' = [task EXCEPT ![o].at = "record"]
        /\ stubs' = [stubs EXCEPT ![here] = StubsOf(o)]
        /\ Enter(here, task[o].definition.initial)
    BY <1>6 DEF DeployNative
  <2>2. \E t : GoesOn(o, t, StubsOf(o)) /\ task' = [task EXCEPT ![o] = t]
    BY <1>1, <2>1, AllPostedGoesOn
  <2> QED
    BY <1>2, <1>5, <2>1, <2>2, EnterProperties
<1>7. CASE List(o)
  <2>1. task[o].at = "list" /\ AfterDeletes(o, stubs[here]) /\ UNCHANGED <<stubs, current, since>>
    BY <1>7 DEF List, At
  <2>2. \E t : GoesOn(o, t, stubs[here]) /\ task' = [task EXCEPT ![o] = t]
    BY <1>1, <1>2, <2>1, AfterDeletesGoesOn
  <2> QED
    BY <1>2, <1>4, <1>5, <2>1, <2>2
<1>8. CASE Post(o)
  <2> DEFINE new == stubs[here] \cup {Posting(o)}
  <2>1. task[o].at = "post" /\ WithStubs(here, new)
    BY <1>8 DEF Post, At
  <2>2. new \in SUBSET Stub /\ \E t : GoesOn(o, t, new) /\ task' = [task EXCEPT ![o] = t]
    BY <1>1, <1>8, <2>1, PostGoesOn
  <2> HIDE DEF new
  <2> QED
    BY <1>2, <1>5, <2>1, <2>2, WithStubsProperties
<1>9. CASE DeployState(o)
  <2>1. task[o].at = "state" /\ UNCHANGED stubs
    BY <1>9 DEF DeployState, At
  <2>2. CASE CleanUp(o) /\ UNCHANGED <<current, since>>
    <3>1. \E t : GoesOn(o, t, stubs[here]) /\ task' = [task EXCEPT ![o] = t]
      BY <1>1, <2>2, CleanUpGoesOn
    <3> QED
      BY <1>2, <1>4, <1>5, <2>1, <2>2, <3>1
  <2>3. CASE Enter(here, task[o].definition.initial) /\ task' = [task EXCEPT ![o].at = "record"]
    <3>1. task[o].alone => stubs[here] = StubsOf(o)
      BY <1>2, <2>1 DEF Progress
    <3>2. \E t : GoesOn(o, t, stubs[here]) /\ task' = [task EXCEPT ![o] = t]
      BY <1>1, <2>1, <2>3, <3>1, AllPostedGoesOn
    <3> QED
      BY <1>2, <1>4, <1>5, <2>1, <2>3, <3>2, EnterProperties
  <2> QED
    BY <1>9, <2>2, <2>3 DEF DeployState
<1>10. ASSUME NEW stub \in task[o].todo, At(o, "delete"), Delete(o, stub) PROVE ServesInv'
  <2> DEFINE new == stubs[here] \ {stub}
             todo == task[o].todo \ {stub}
  <2>1. task[o].at = "delete" /\ WithStubs(here, new) /\ (AfterDeletes(o, todo) \/ End(o))
    BY <1>10 DEF Delete, At
  <2>2. new \in SUBSET Stub /\ todo \in SUBSET Stub
    BY <1>2 DEF Deployment
  <2>3. task[o].alone /\ ~ task[o].cleaning => new \subseteq todo
    BY <1>2, <2>1 DEF Progress
  <2> HIDE DEF new, todo
  <2>4. \E t : GoesOn(o, t, new) /\ task' = [task EXCEPT ![o] = t]
    BY <1>1, <2>1, <2>2, <2>3, AfterDeletesGoesOn, CleanUpGoesOn
  <2> QED
    BY <1>2, <1>5, <2>1, <2>2, <2>4, WithStubsProperties
<1> QED
  BY <1>6, <1>7, <1>8, <1>9, <1>10
\* A call that fails ends the operation, or makes a deployment clean up.
LEMMA FailServes ==
    ASSUME ServesInv, NEW o \in Operations, Fail(o)
    PROVE  ServesInv'
<1>1. RuntimeTypeOK
  BY DEF ServesInv
<1>2. UNCHANGED <<remote, saved, released, clock, calls, crashes, settled>> /\ failures' \in Nat
  BY <1>1 DEF Fail, files, RuntimeTypeOK
<1>3. /\ calls' \in Nat /\ crashes' \in Nat
      /\ clock' \in [Scenarios -> [state : States, elapsed : Nat]]
  BY <1>1, <1>2 DEF RuntimeTypeOK
<1>4. CASE task[o].op = "deploy"
  <2> DEFINE here == task[o].scenario
  <2>1. End(o) \/ CleanUp(o)
    BY <1>4 DEF Fail
  <2>2. /\ task[o] \in Deployment /\ here \in Scenarios /\ stubs[here] \in SUBSET Stub
        /\ task[o].definition.initial \in States
    BY <1>4, DeploymentProperties
  <2>3. ASSUME NEW new \in SUBSET Stub, stubs' = [stubs EXCEPT ![here] = new],
               current' \in [Scenarios -> States], since' \in [Scenarios -> Nat]
        PROVE  ServesInv'
    <3>1. \E t : GoesOn(o, t, new) /\ task' = [task EXCEPT ![o] = t]
      BY <1>4, <2>1, CleanUpGoesOn
    <3> QED
      BY <1>2, <1>3, <1>4, <2>3, <3>1, Deploys
  <2>4. stubs = [stubs EXCEPT ![here] = stubs[here]]
    BY <1>1, <2>2 DEF RuntimeTypeOK
  <2>5. CASE UNCHANGED <<stubs, current, since>>
    BY <1>1, <2>2, <2>3, <2>4, <2>5 DEF RuntimeTypeOK
  <2>6. ASSUME NEW stub \in task[o].todo, WithStubs(here, stubs[here] \ {stub}) PROVE ServesInv'
    <3>1. stubs[here] \ {stub} \in SUBSET Stub
      BY <2>2
    <3> QED
      BY <1>1, <2>2, <2>3, <2>6, <3>1, WithStubsProperties
  <2>7. CASE task[o].at = "post" /\ WithStubs(here, stubs[here] \cup {Posting(o)})
    <3>1. stubs[here] \cup {Posting(o)} \in SUBSET Stub
      BY <1>4, <2>7, PostGoesOn
    <3> QED
      BY <1>1, <2>2, <2>3, <2>7, <3>1, WithStubsProperties
  <2>8. CASE Enter(here, task[o].definition.initial) /\ UNCHANGED stubs
    BY <1>1, <2>2, <2>3, <2>4, <2>8, EnterProperties
  <2> QED
    BY <1>4, <2>5, <2>6, <2>7, <2>8 DEF Fail
<1>5. CASE task[o].op # "deploy"
  <2>1. task[o].op \notin {"none", "deploy"} /\ End(o) /\ UNCHANGED stubs
    BY <1>5 DEF Fail
  <2>2. task[o] \in Moving
    BY <1>1, <2>1, TaskKinds
  <2>3. \/ UNCHANGED <<current, since>>
        \/ Enter(Subject(o), task[o].next)
        \/ Restarted
    BY <1>5 DEF Fail
  <2>4. Subject(o) \in Scenarios /\ task[o].next \in States
    BY <1>1, <2>2, SubjectProperties DEF Moving
  <2>5. current' \in [Scenarios -> States] /\ since' \in [Scenarios -> Nat]
    BY <1>1, <2>3, <2>4, EnterProperties, RestartedProperties DEF RuntimeTypeOK
  <2>6. task' = [task EXCEPT ![o] = NoOperation] /\ NoOperation \notin Moving
    BY <2>1 DEF End, NoOperation, Moving
  <2> QED
    BY <1>2, <1>3, <1>5, <2>1, <2>5, <2>6, Moves
<1> QED
  BY <1>4, <1>5

\* A deployment begins: those of the same scenario are no longer alone.
LEMMA BeginDeployServes ==
    ASSUME ServesInv, NEW o \in Operations, NEW s \in Scenarios, NEW r \in DOMAIN saved[s],
           BeginDeploy(o, s, r)
    PROVE  ServesInv'
<1> DEFINE others == Deploying(s)
           deployment == [op |-> "deploy", at |-> "list", scenario |-> s, revision |-> r,
                          definition |-> saved[s][r], todo |-> {}, part |-> 1,
                          cleaning |-> FALSE, number |-> calls, alone |-> others = {}]
<1>1. RuntimeTypeOK /\ task[o] = NoOperation
  BY DEF ServesInv, BeginDeploy, MayBegin
<1>2. /\ task' = [p \in Operations |->
                    IF p = o THEN deployment
                    ELSE IF p \in others THEN [task[p] EXCEPT !.alone = FALSE] ELSE task[p]]
      /\ settled' = [settled EXCEPT ![s] = FALSE]
      /\ UNCHANGED <<remote, saved, released, clock, stubs, current, failures, crashes, since>>
      /\ calls' = calls + 1
  BY DEF BeginDeploy, MayBegin, files
<1>3. r \in 1..Len(saved[s]) /\ r \in Nat /\ saved[s][r] \in Released
  <2>1. saved[s] \in Seq(Released)
    BY <1>1 DEF RuntimeTypeOK
  <2>2. DOMAIN saved[s] = 1..Len(saved[s]) /\ Len(saved[s]) \in Nat
    BY <2>1, LenProperties
  <2> QED
    BY <2>1, <2>2, ElementOfSeq
<1>4. deployment \in Deployment
  <2>1. (others = {}) \in BOOLEAN /\ calls \in Nat
    BY <1>1 DEF RuntimeTypeOK
  <2> HIDE DEF others
  <2> QED
    BY <1>3, <2>1 DEF Deployment
<1>5. ASSUME NEW p \in Operations, p # o, p \in others
      PROVE  LET t == [task[p] EXCEPT !.alone = FALSE] IN
             /\ t \in Deployment /\ ~ t.alone
             /\ t.scenario = task[p].scenario /\ t.revision = task[p].revision
             /\ t.definition = task[p].definition /\ t.part = task[p].part
             /\ t.at = task[p].at /\ (t.cleaning <=> task[p].cleaning)
  <2>1. task[p] \in Deployment
    BY <1>1, <1>5, TaskKinds DEF Deploying
  <2> QED
    BY <2>1 DEF Deployment
<1> DEFINE lonely(p) == [task[p] EXCEPT !.alone = FALSE]
<1>6. /\ task'[o] = deployment
      /\ \A p \in Operations : p # o /\ p \in others => task'[p] = lonely(p)
      /\ \A p \in Operations : p # o /\ p \notin others => task'[p] = task[p]
  BY <1>2
<1>7. task' \in [Operations -> {NoOperation} \cup Deployment \cup Moving]
  <2>1. \A p \in Operations : task'[p] \in {NoOperation} \cup Deployment \cup Moving
    <3> HIDE DEF deployment, others
    <3> QED
      BY <1>1, <1>4, <1>5, <1>6 DEF RuntimeTypeOK
  <2>2. task' = [p \in Operations |-> task'[p]]
    BY <1>2
  <2> QED
    BY <2>1, <2>2
<1>8. \A p \in Operations : task'[p] \in Moving => task'[p] = task[p]
  <2>1. deployment \notin Moving
    BY <1>4 DEF Deployment, Moving
  <2>2. \A p \in Operations : p # o /\ p \in others => lonely(p) \notin Moving
    BY <1>5 DEF Deployment, Moving
  <2> QED
    BY <1>6, <2>1, <2>2
<1>9. RuntimeTypeOK'
  <2>1. settled' \in [Scenarios -> BOOLEAN]
    BY <1>1, <1>2 DEF RuntimeTypeOK
  <2>2. Defined' = Defined
    BY <1>2 DEF Defined
  <2>3. \A p \in Operations : task'[p] \in Moving => task'[p].rest \subseteq Defined
    BY <1>1, <1>8 DEF RuntimeTypeOK
  <2>4. /\ UNCHANGED <<remote, saved, released, clock, stubs, current, failures, crashes, since>>
        /\ calls' \in Nat
    BY <1>1, <1>2 DEF RuntimeTypeOK
  <2> QED
    BY <1>1, <1>7, <2>1, <2>2, <2>3, <2>4 DEF RuntimeTypeOK
<1>10. \A x \in Scenarios : settled'[x] => settled[x] /\ x # s
  BY <1>1, <1>2 DEF RuntimeTypeOK
<1>11. ASSUME NEW x \in Scenarios, settled'[x] PROVE ServesRelease(x)'
  BY <1>2, <1>10, <1>11 DEF ServesInv, ServesRelease, Pinned
<1>12. DeploymentInv(o)'
  <2>1. ASSUME others = {} PROVE Deploying(s)' = {o}
    <3>1. \A q \in Operations \ {o} : task'[q] = task[q] /\ q \notin Deploying(s)
      BY <1>6, <2>1
    <3>2. \A q \in Operations : (task'[q].op = "deploy" /\ task'[q].scenario = s) <=> q = o
      BY <1>6, <3>1 DEF Deploying
    <3> QED
      BY <3>2 DEF Deploying
  <2> DEFINE t == deployment
  <2>2. /\ t.revision = r /\ t.definition = saved[s][r] /\ t.scenario = s
        /\ t.part = 1 /\ t.at = "list" /\ (t.alone => others = {})
    OBVIOUS
  <2>3. 1 \in 1..saved[s][r].handlers
    BY <1>3, DeclaredStates DEF Declared
  <2> HIDE DEF t, others
  <2>4. Phase(t)
    BY <2>2, <2>3 DEF Phase
  <2>5. Progress(t, stubs[s])
    BY <2>2 DEF Progress
  <2>6. ~ settled'[s] /\ UNCHANGED <<saved, stubs>>
    BY <1>10, <1>2
  <2>7. task'[o] = t
    BY <1>6 DEF t
  <2> QED
    BY <1>3, <2>1, <2>2, <2>4, <2>5, <2>6, <2>7 DEF DeploymentInv
<1>13. ASSUME NEW p \in Operations, p # o, task'[p].op = "deploy" PROVE DeploymentInv(p)'
  <2>1. CASE p \in others
    <3> DEFINE t == lonely(p)
    <3>1. DeploymentInv(p) /\ Phase(task[p]) /\ task[p].scenario = s
      BY <2>1 DEF ServesInv, Deploying, DeploymentInv
    <3>2. /\ ~ t.alone /\ t.scenario = task[p].scenario /\ t.revision = task[p].revision
          /\ t.definition = task[p].definition /\ t.part = task[p].part
          /\ t.at = task[p].at /\ (t.cleaning <=> task[p].cleaning)
      BY <1>5, <1>13, <2>1
    <3> HIDE DEF t
    <3>3. Phase(t)
      BY <3>1, <3>2 DEF Phase
    <3>4. task'[p] = t
      BY <1>6, <1>13, <2>1 DEF t
    <3>5. ~ settled'[s] /\ saved' = saved
      BY <1>2, <1>10
    <3> QED
      BY <3>1, <3>2, <3>3, <3>4, <3>5 DEF DeploymentInv
  <2>2. CASE p \notin others
    <3>1. task'[p] = task[p]
      BY <1>6, <1>13, <2>2
    <3>2. DeploymentInv(p) /\ task[p].scenario # s /\ task[p].scenario \in Scenarios
      BY <1>1, <1>13, <2>2, <3>1, TaskKinds DEF ServesInv, Deploying, Deployment
    <3>3. ASSUME task[p].alone PROVE Deploying(task[p].scenario)' = {p}
      <4>1. Deploying(task[p].scenario) = {p}
        BY <3>2, <3>3 DEF DeploymentInv
      <4>2. ASSUME NEW q \in Operations
            PROVE  (task'[q].op = "deploy" /\ task'[q].scenario = task[p].scenario)
                    <=> (task[q].op = "deploy" /\ task[q].scenario = task[p].scenario)
        <5>1. CASE q = o
          <6> HIDE DEF others
          <6> QED
            BY <1>1, <1>6, <3>2, <5>1 DEF NoOperation
        <5>2. CASE q # o /\ q \in others
          <6>1. task'[q].scenario = s /\ task[q].scenario = s
            BY <1>5, <1>6, <5>2 DEF Deploying
          <6> QED
            BY <3>2, <6>1
        <5>3. CASE q # o /\ q \notin others
          BY <1>6, <5>3
        <5> QED
          BY <5>1, <5>2, <5>3
      <4> QED
        BY <4>1, <4>2 DEF Deploying
    <3>4. ~ settled'[task[p].scenario]
      BY <1>10, <3>2 DEF DeploymentInv
    <3> QED
      BY <1>2, <3>1, <3>2, <3>3, <3>4 DEF DeploymentInv, Phase, Progress
  <2> QED
    BY <2>1, <2>2
<1> QED
  BY <1>9, <1>11, <1>12, <1>13 DEF ServesInv
\* A scenario that is released serves what its newest release pins.
LEMMA RecordServes ==
    ASSUME ServesInv, NEW o \in Operations, Record(o)
    PROVE  ServesInv'
<1> DEFINE here == task[o].scenario
           revision == task[o].revision
<1>1. task[o].op = "deploy" /\ task[o].at = "record"
  BY DEF Record
<1>2. /\ RuntimeTypeOK /\ task[o] \in Deployment /\ DeploymentInv(o)
      /\ here \in Scenarios /\ Declared(task[o].definition)
      /\ task[o].alone => Progress(task[o], stubs[here])
  BY <1>1, DeploymentProperties
<1>3. /\ released' = [released EXCEPT ![here] = Append(released[here], revision)]
      /\ settled' = [settled EXCEPT ![here] = task[o].alone]
      /\ task' = [task EXCEPT ![o] = NoOperation]
  BY DEF Record, End
<1>4. UNCHANGED <<remote, saved, clock, stubs, current, calls, failures, crashes, since>>
  BY DEF Record, counters
<1>5. /\ task' \in [Operations -> {NoOperation} \cup Deployment \cup Moving]
      /\ task'[o] = NoOperation
      /\ \A p \in Operations \ {o} : task'[p] = task[p]
  BY <1>2, <1>3, OneTask
<1>6. /\ released[here] \in Seq(Nat) /\ revision \in 1..Len(saved[here])
      /\ task[o].definition = saved[here][revision] /\ revision \in Nat
  BY <1>2 DEF DeploymentInv, RuntimeTypeOK, Deployment
<1> DEFINE longer == Append(released[here], revision)
<1>7. /\ longer \in Seq(Nat) /\ Len(longer) = Len(released[here]) + 1
      /\ \A i \in 1..Len(released[here]) : longer[i] = released[here][i]
      /\ longer[Len(released[here]) + 1] = revision
  BY <1>6, AppendProperties
<1>8. longer # <<>> /\ Last(longer) = revision
  <2>1. Len(released[here]) \in Nat
    BY <1>6, LenProperties
  <2>2. longer # <<>>
    BY <1>7, <2>1, EmptySeq
  <2>3. Last(longer) = longer[Len(longer)]
    BY DEF Last
  <2> QED
    BY <1>7, <2>2, <2>3
<1>9. /\ released'[here] = longer /\ (settled'[here] => task[o].alone)
      /\ \A s \in Scenarios \ {here} :
            released'[s] = released[s] /\ (settled'[s] => settled[s])
  BY <1>2, <1>3 DEF RuntimeTypeOK
<1> HIDE DEF longer
<1>10. RuntimeTypeOK'
  <2>1. released' \in [Scenarios -> Seq(Nat)] /\ settled' \in [Scenarios -> BOOLEAN]
    BY <1>2, <1>3, <1>7 DEF RuntimeTypeOK, Deployment, longer
  <2>2. ASSUME NEW s \in Scenarios, NEW i \in 1..Len(released'[s])
        PROVE  released'[s][i] \in 1..Len(saved'[s])
    <3>1. CASE s = here
      <4>1. Len(released[here]) \in Nat
        BY <1>6, LenProperties
      <4>2. i \in 1..Len(released[here]) \/ i = Len(released[here]) + 1
        BY <1>7, <1>9, <2>2, <3>1, <4>1
      <4> QED
        BY <1>2, <1>4, <1>6, <1>7, <1>9, <3>1, <4>2 DEF RuntimeTypeOK
    <3>2. CASE s # here
      BY <1>2, <1>4, <1>9, <2>2, <3>2 DEF RuntimeTypeOK
    <3> QED
      BY <3>1, <3>2
  <2>3. Defined' = Defined
    BY <1>4 DEF Defined
  <2>4. \A p \in Operations : task'[p] \in Moving => task'[p].rest \subseteq Defined
    <3>1. NoOperation \notin Moving
      BY DEF NoOperation, Moving
    <3> QED
      BY <1>2, <1>5, <3>1 DEF RuntimeTypeOK
  <2> QED
    BY <1>2, <1>4, <1>5, <2>1, <2>2, <2>3, <2>4 DEF RuntimeTypeOK
<1>11. ASSUME NEW s \in Scenarios, settled'[s] PROVE ServesRelease(s)'
  <2>1. CASE s = here
    <3> DEFINE d == task[o].definition
               one == [definition |-> d, part |-> 1, by |-> task[o].number]
    <3>1. stubs[here] = Parts(d, d.handlers, task[o].number)
      BY <1>1, <1>2, <1>9, <1>11, <2>1 DEF Progress
    <3>2. Pinned(s)' = d
      BY <1>4, <1>6, <1>8, <1>9, <2>1 DEF Pinned
    <3>3. one \in Parts(d, d.handlers, task[o].number)
      <4>1. 1 \in 1..d.handlers
        BY <1>2 DEF Declared
      <4> QED
        BY <4>1 DEF Parts
    <3>4. one.by = task[o].number
      OBVIOUS
    <3>5. released'[s] # <<>> /\ stubs'[s] = stubs[here]
      BY <1>4, <1>8, <1>9, <2>1
    <3> HIDE DEF d, one
    <3> QED
      BY <3>1, <3>2, <3>3, <3>4, <3>5 DEF ServesRelease
  <2>2. CASE s # here
    <3>1. ServesRelease(s)
      BY <1>9, <1>11, <2>2 DEF ServesInv
    <3>2. Pinned(s)' = Pinned(s)
      BY <1>4, <1>9, <2>2 DEF Pinned
    <3> QED
      BY <1>4, <1>9, <2>2, <3>1, <3>2 DEF ServesRelease
  <2> QED
    BY <2>1, <2>2
<1>12. ASSUME NEW p \in Operations, task'[p].op = "deploy" PROVE DeploymentInv(p)'
  <2>1. p # o /\ task'[p] = task[p] /\ task[p].op = "deploy"
    BY <1>5, <1>12 DEF NoOperation
  <2>2. DeploymentInv(p) /\ task[p].scenario \in Scenarios
    BY <2>1, DeploymentProperties
  <2>3. ~ settled'[task[p].scenario]
    <3>1. CASE task[p].scenario = here
      <4>1. p \in Deploying(here)
        BY <2>1, <3>1 DEF Deploying
      <4>2. task[o].alone => Deploying(here) = {o}
        BY <1>2 DEF DeploymentInv
      <4> QED
        BY <1>9, <2>1, <3>1, <4>1, <4>2
    <3>2. CASE task[p].scenario # here
      BY <1>9, <2>2, <3>2 DEF DeploymentInv
    <3> QED
      BY <3>1, <3>2
  <2>4. ASSUME task[p].alone PROVE Deploying(task[p].scenario)' = {p}
    <3>1. Deploying(task[p].scenario) = {p}
      BY <2>2, <2>4 DEF DeploymentInv
    <3>2. \A q \in Operations : (task'[q].op = "deploy" /\ task'[q].scenario = task[p].scenario)
            <=> q = p
      BY <1>5, <2>1, <3>1 DEF Deploying, NoOperation
    <3> QED
      BY <2>1, <3>2 DEF Deploying
  <2> QED
    BY <1>4, <2>1, <2>2, <2>3, <2>4 DEF DeploymentInv, Phase, Progress
<1> QED
  BY <1>10, <1>11, <1>12 DEF ServesInv

\* A revision that is saved changes none of the earlier ones.
LEMMA SaveProperties ==
    ASSUME RuntimeTypeOK, NEW s \in Scenarios, NEW d \in Released, Save(s, d)
    PROVE  /\ saved' \in [Scenarios -> Seq(Released)]
           /\ Defined' = Defined
           /\ \A x \in Scenarios : \A i \in 1..Len(saved[x]) :
                i \in 1..Len(saved'[x]) /\ saved'[x][i] = saved[x][i]
<1> DEFINE longer == Append(saved[s], d)
<1>1. saved' = [saved EXCEPT ![s] = longer] /\ saved[s] \in Seq(Released) /\ saved[s] # <<>>
  BY DEF Save, RuntimeTypeOK
<1>2. /\ longer \in Seq(Released) /\ Len(longer) = Len(saved[s]) + 1
      /\ \A i \in 1..Len(saved[s]) : longer[i] = saved[s][i]
      /\ Len(saved[s]) \in Nat
  BY <1>1, AppendProperties, LenProperties
<1>3. longer # <<>>
  BY <1>2, EmptySeq
<1> HIDE DEF longer
<1>4. saved'[s] = longer /\ \A x \in Scenarios \ {s} : saved'[x] = saved[x]
  BY <1>1 DEF RuntimeTypeOK
<1>5. saved' \in [Scenarios -> Seq(Released)]
  BY <1>1, <1>2 DEF RuntimeTypeOK
<1>6. Defined' = Defined
  BY <1>1, <1>3, <1>4 DEF Defined
<1>7. ASSUME NEW x \in Scenarios, NEW i \in 1..Len(saved[x])
      PROVE  i \in 1..Len(saved'[x]) /\ saved'[x][i] = saved[x][i]
  BY <1>2, <1>4
<1> QED
  BY <1>5, <1>6, <1>7

\* A step that changes neither mappings nor operations, and of the revisions only adds one.
LEMMA QuietServes ==
    ASSUME ServesInv,
           UNCHANGED <<remote, released, clock, stubs, task, settled, failures, crashes>>,
           saved' \in [Scenarios -> Seq(Released)], Defined' = Defined,
           \A x \in Scenarios : \A i \in 1..Len(saved[x]) :
                i \in 1..Len(saved'[x]) /\ saved'[x][i] = saved[x][i],
           current' \in [Scenarios -> States], since' \in [Scenarios -> Nat],
           calls' \in Nat
    PROVE  ServesInv'
<1>1. RuntimeTypeOK'
  BY DEF ServesInv, RuntimeTypeOK
<1>2. ASSUME NEW s \in Scenarios, settled'[s] PROVE ServesRelease(s)'
  <2>1. ServesRelease(s) /\ released[s] # <<>> /\ released[s] \in Seq(Nat)
    BY <1>2 DEF ServesInv, ServesRelease, RuntimeTypeOK
  <2>2. Len(released[s]) \in 1..Len(released[s]) /\ Last(released[s]) = released[s][Len(released[s])]
    BY <2>1, EmptySeq DEF Last
  <2>3. Last(released[s]) \in 1..Len(saved[s])
    BY <2>2 DEF ServesInv, RuntimeTypeOK
  <2>4. Pinned(s)' = Pinned(s)
    BY <2>3 DEF Pinned
  <2> QED
    BY <2>1, <2>4 DEF ServesRelease
<1>3. ASSUME NEW p \in Operations, task'[p].op = "deploy" PROVE DeploymentInv(p)'
  <2>1. DeploymentInv(p) /\ task[p].scenario \in Scenarios
    BY <1>3, DeploymentProperties
  <2>2. /\ task[p].revision \in 1..Len(saved[task[p].scenario])'
        /\ task[p].definition = saved'[task[p].scenario][task[p].revision]
    BY <2>1 DEF DeploymentInv
  <2>3. \A s : Deploying(s)' = Deploying(s)
    BY DEF Deploying
  <2> QED
    BY <2>1, <2>2, <2>3 DEF DeploymentInv, Phase, Progress
<1> QED
  BY <1>1, <1>2, <1>3 DEF ServesInv

\* The process dies, and the runtime with it or not.
LEMMA CrashServes ==
    ASSUME ServesInv, NEW forgets \in BOOLEAN, Crash(forgets)
    PROVE  ServesInv'
<1>1. RuntimeTypeOK
  BY DEF ServesInv
<1>2. /\ task' = [o \in Operations |-> NoOperation]
      /\ UNCHANGED <<remote, saved, released, clock, calls, failures>> /\ crashes' = crashes + 1
  BY DEF Crash, files
<1>3. ASSUME NEW o \in Operations PROVE task'[o].op # "deploy" /\ task'[o] \notin Moving
  BY <1>2 DEF NoOperation, Moving
<1>4. /\ current' \in [Scenarios -> States] /\ since' \in [Scenarios -> Nat]
      /\ stubs' \in [Scenarios -> SUBSET Stub] /\ settled' \in [Scenarios -> BOOLEAN]
      /\ \A s \in Scenarios : settled'[s] => settled[s] /\ stubs'[s] = stubs[s]
  <2>1. CASE UNCHANGED <<stubs, current, since, settled>>
    BY <1>1, <2>1 DEF RuntimeTypeOK
  <2>2. CASE /\ stubs' = [s \in Scenarios |-> {}]
             /\ current' = [s \in Scenarios |-> NotDeployed]
             /\ since' = [s \in Scenarios |-> 0]
             /\ settled' = [s \in Scenarios |-> FALSE]
    BY <2>2 DEF States
  <2> QED
    BY <2>1, <2>2 DEF Crash
<1>5. RuntimeTypeOK'
  <2>1. Defined' = Defined
    BY <1>2 DEF Defined
  <2>2. task' \in [Operations -> {NoOperation} \cup Deployment \cup Moving]
    BY <1>2
  <2>3. crashes' \in Nat
    BY <1>1, <1>2 DEF RuntimeTypeOK
  <2>4. UNCHANGED <<remote, saved, released, clock, calls, failures>>
    BY <1>2
  <2> QED
    BY <1>1, <1>3, <1>4, <2>1, <2>2, <2>3, <2>4 DEF RuntimeTypeOK
<1>6. ASSUME NEW s \in Scenarios, settled'[s] PROVE ServesRelease(s)'
  <2>1. ServesRelease(s) /\ stubs'[s] = stubs[s] /\ UNCHANGED <<saved, released>>
    BY <1>2, <1>4, <1>6 DEF ServesInv
  <2> QED
    BY <2>1 DEF ServesRelease, Pinned
<1> QED
  BY <1>3, <1>5, <1>6 DEF ServesInv
LEMMA InitServes == RuntimeInit => ServesInv
<1> SUFFICES ASSUME RuntimeInit PROVE ServesInv
  OBVIOUS
<1>1. ASSUME NEW d \in Released PROVE <<d>> \in Seq(Released)
  OBVIOUS
<1>2. <<>> \in Seq(Released) /\ <<>> \in Seq(Nat) /\ Len(<<>>) = 0
  BY EmptySeq
<1>3. saved \in [Scenarios -> Seq(Released)]
  <2>1. saved \in [Scenarios -> {<<>>} \cup {<<d>> : d \in Released}]
    BY DEF RuntimeInit
  <2>2. {<<>>} \cup {<<d>> : d \in Released} \subseteq Seq(Released)
    BY <1>1, <1>2
  <2> QED
    BY <2>1, <2>2
<1>4. released \in [Scenarios -> Seq(Nat)]
      /\ \A s \in Scenarios : \A i \in 1..Len(released[s]) : released[s][i] \in 1..Len(saved[s])
  <2>1. \A s \in Scenarios : released[s] = <<>>
    BY DEF RuntimeInit
  <2>2. released = [s \in Scenarios |-> <<>>]
    BY DEF RuntimeInit
  <2> QED
    BY <1>2, <2>1, <2>2
<1>5. /\ stubs \in [Scenarios -> SUBSET Stub] /\ current \in [Scenarios -> States]
      /\ clock \in [Scenarios -> [state : States, elapsed : Nat]]
      /\ settled \in [Scenarios -> BOOLEAN] /\ since \in [Scenarios -> Nat]
      /\ \A s \in Scenarios : ~ settled[s]
  BY DEF RuntimeInit, NoClock, States
<1>6. /\ remote \in BOOLEAN /\ calls \in Nat /\ failures \in Nat /\ crashes \in Nat
      /\ Defined # {}
  BY RuntimeAssumption DEF RuntimeInit
<1>7. /\ task \in [Operations -> {NoOperation} \cup Deployment \cup Moving]
      /\ \A o \in Operations : task[o] \notin Moving /\ task[o].op # "deploy"
  BY DEF RuntimeInit, NoOperation, Moving
<1> QED
  BY <1>3, <1>4, <1>5, <1>6, <1>7 DEF ServesInv, RuntimeTypeOK

\* Every step keeps what the runtime serves.
LEMMA NextServes == ServesInv /\ [RuntimeNext]_runtimeVars => ServesInv'
<1> SUFFICES ASSUME ServesInv, [RuntimeNext]_runtimeVars PROVE ServesInv'
  OBVIOUS
<1>1. RuntimeTypeOK
  BY DEF ServesInv
<1>2. ASSUME NEW o \in Operations, Step(o) PROVE ServesInv'
  <2>1. CASE StartResetAll(o)
    BY <2>1, StartResetAllServes
  <2>2. CASE ReadState(o)
    BY <2>2, ReadStateServes
  <2>3. CASE SetState(o)
    <3>1. task[o].op # "none" /\ task[o].at = "set"
      BY <2>3 DEF SetState
    <3>2. task[o] \in Moving
      <4>1. task[o] \in Deployment => task[o].at # "set"
        BY DEF Deployment
      <4> QED
        BY <1>1, <3>1, <4>1, TaskKinds
    <3> QED
      BY <2>3, <3>2, SetStateServes
  <2>4. CASE WriteClock(o)
    BY <2>4, WriteClockServes
  <2>5. CASE Record(o)
    BY <2>5, RecordServes
  <2>6. CASE DeployNative(o) \/ List(o) \/ Post(o) \/ DeployState(o)
    BY <2>6, DeploymentStepServes
  <2>7. CASE At(o, "delete") /\ \E stub \in task[o].todo : Delete(o, stub)
    BY <2>7, DeploymentStepServes
  <2> QED
    BY <1>2, <2>1, <2>2, <2>3, <2>4, <2>5, <2>6, <2>7 DEF Step
<1>3. ASSUME NEW o \in Operations, Fail(o) PROVE ServesInv'
  BY <1>3, FailServes
<1>4. ASSUME NEW o \in Operations, NEW topic \in Topics, Publish(o, topic) PROVE ServesInv'
  <2>1. Defined \in SUBSET Scenarios /\ Defined # {}
    BY <1>1 DEF RuntimeTypeOK, Defined
  <2> DEFINE m == [Move("publish", "read", Defined) EXCEPT !.topic = topic]
  <2>2. m \in Moving /\ m.rest = Defined
    BY <2>1, MoveIsMoving
  <2>3. BeginMove(o, m)
    BY <1>4 DEF Publish
  <2> HIDE DEF m
  <2> QED
    BY <2>2, <2>3, BeginMoveServes
<1>5. ASSUME NEW o \in Operations, ResetAll(o) PROVE ServesInv'
  <2>1. Defined \in SUBSET Scenarios /\ Defined # {}
    BY <1>1 DEF RuntimeTypeOK, Defined
  <2> QED
    BY <1>5, <2>1, MoveIsMoving, BeginMoveServes DEF ResetAll
<1>6. ASSUME NEW o \in Operations, NEW s \in Scenarios, NEW r \in DOMAIN saved[s], BeginDeploy(o, s, r)
      PROVE  ServesInv'
  BY <1>6, BeginDeployServes
<1>7. ASSUME NEW o \in Operations, NEW s \in Scenarios, NEW ms \in Advances, Advance(o, s, ms)
      PROVE  ServesInv'
  <2> DEFINE one == {s}
             m == [Move("advance", "read", one) EXCEPT !.ms = ms]
  <2>1. ms \in Nat /\ one \subseteq Defined /\ one \in SUBSET Scenarios /\ one # {}
    BY <1>7, RuntimeAssumption DEF Advance
  <2>2. BeginMove(o, m)
    BY <1>7 DEF Advance
  <2> HIDE DEF one
  <2>3. m \in Moving /\ m.rest = one
    BY <2>1, MoveIsMoving
  <2> HIDE DEF m
  <2> QED
    BY <2>1, <2>2, <2>3, BeginMoveServes
<1>8. ASSUME NEW o \in Operations, NEW s \in Scenarios, ResetScenario(o, s) PROVE ServesInv'
  <2>1. s \in Defined /\ {s} \in SUBSET Scenarios /\ {s} # {}
    BY <1>8 DEF ResetScenario
  <2> QED
    BY <1>8, <2>1, MoveIsMoving, BeginMoveServes DEF ResetScenario
<1>9. CASE RestartStates
  <2>1. UNCHANGED <<remote, saved, released, clock, stubs, task, settled, failures, crashes>>
        /\ calls' \in Nat /\ Restarted
    BY <1>1, <1>9 DEF RestartStates, files, RuntimeTypeOK
  <2>2. /\ saved' \in [Scenarios -> Seq(Released)] /\ Defined' = Defined
        /\ \A x \in Scenarios : \A i \in 1..Len(saved[x]) :
             i \in 1..Len(saved'[x]) /\ saved'[x][i] = saved[x][i]
    BY <1>1, <2>1 DEF RuntimeTypeOK, Defined
  <2> QED
    BY <1>1, <2>1, <2>2, RestartedProperties, QuietServes
<1>10. ASSUME NEW s \in Scenarios, NEW to \in UNION {StatesOf(d) : d \in Released}, ClientCall(s, to)
       PROVE  ServesInv'
  <2>1. /\ UNCHANGED <<remote, saved, released, clock, stubs, task, settled, failures, crashes, calls>>
        /\ calls' \in Nat /\ Enter(s, to) /\ to \in States
    BY <1>1, <1>10 DEF ClientCall, files, counters, RuntimeTypeOK, States
  <2>2. /\ saved' \in [Scenarios -> Seq(Released)] /\ Defined' = Defined
        /\ \A x \in Scenarios : \A i \in 1..Len(saved[x]) :
             i \in 1..Len(saved'[x]) /\ saved'[x][i] = saved[x][i]
    BY <1>1, <2>1 DEF RuntimeTypeOK, Defined
  <2> QED
    BY <1>1, <2>1, <2>2, EnterProperties, QuietServes
<1>11. ASSUME NEW s \in Scenarios, NEW d \in Released, Save(s, d) PROVE ServesInv'
  <2>1. UNCHANGED <<remote, released, clock, stubs, task, settled, failures, crashes, calls, current, since>>
    BY <1>11 DEF Save, counters
  <2>2. current' \in [Scenarios -> States] /\ since' \in [Scenarios -> Nat] /\ calls' \in Nat
    BY <1>1, <2>1 DEF RuntimeTypeOK
  <2> QED
    BY <1>1, <1>11, <2>1, <2>2, SaveProperties, QuietServes
<1>12. ASSUME NEW forgets \in BOOLEAN, Crash(forgets) PROVE ServesInv'
  BY <1>12, CrashServes
<1>13. CASE UNCHANGED runtimeVars
  <2>1. UNCHANGED <<remote, saved, released, clock, stubs, task, settled, failures, crashes, calls, current, since>>
    BY <1>13 DEF runtimeVars, files, counters
  <2>2. /\ saved' \in [Scenarios -> Seq(Released)] /\ Defined' = Defined
        /\ \A x \in Scenarios : \A i \in 1..Len(saved[x]) :
             i \in 1..Len(saved'[x]) /\ saved'[x][i] = saved[x][i]
        /\ current' \in [Scenarios -> States] /\ since' \in [Scenarios -> Nat] /\ calls' \in Nat
    BY <1>1, <2>1 DEF RuntimeTypeOK, Defined
  <2> QED
    BY <2>1, <2>2, QuietServes
<1> QED
  BY <1>2, <1>3, <1>4, <1>5, <1>6, <1>7, <1>8, <1>9, <1>10, <1>11, <1>12, <1>13
  DEF RuntimeNext

-----------------------------------------------------------------------------
(* The native adapter, action by action.                                   *)

\* Without another operation in progress, what the one in progress needs is enough.
LEMMA NativeTask ==
    ASSUME ServesInv, NativeInv, NEW o \in Operations,
           \A p \in Operations : p # o => task[p] = NoOperation,
           NEW t \in {NoOperation} \cup Deployment \cup Moving,
           task' = [task EXCEPT ![o] = t],
           t.op = "deploy" => NativeDeploymentInv(t)',
           t \in Moving => NativeMoveInv(o)',
           \A s \in Scenarios : NativeScenarioInv(s)'
    PROVE  NativeInv'
<1>1. RuntimeTypeOK
  BY DEF ServesInv
<1>2. task'[o] = t /\ \A p \in Operations \ {o} : task'[p] = NoOperation
  BY <1>1, OneTask
<1>3. NoOperation.op # "deploy" /\ NoOperation \notin Moving
  BY DEF NoOperation, Moving
<1>4. \A p, q \in Operations : task'[p] # NoOperation /\ task'[q] # NoOperation => p = q
  BY <1>2
<1>5. \A p \in Operations :
        /\ task'[p].op = "deploy" => NativeDeploymentInv(task[p])'
        /\ task'[p] \in Moving => NativeMoveInv(p)'
  <2>1. ASSUME NEW p \in Operations, p # o
        PROVE  task'[p].op # "deploy" /\ task'[p] \notin Moving
    BY <1>2, <1>3, <2>1
  <2>2. task'[o].op = "deploy" => NativeDeploymentInv(task[o])'
    BY <1>2 DEF NativeDeploymentInv
  <2> QED
    BY <1>2, <2>1, <2>2
<1> QED
  BY <1>4, <1>5 DEF NativeInv

\* The one operation in progress.
LEMMA NativeAlone ==
    ASSUME NativeInv, NEW o \in Operations,
           task[o] # NoOperation \/ \A p \in Operations : task[p] = NoOperation
    PROVE  \A p \in Operations : p # o => task[p] = NoOperation
  BY DEF NativeInv
\* A scenario whose state and clock stay as they are.
LEMMA SameScenario ==
    ASSUME NEW s \in Scenarios, NativeScenarioInv(s),
           settled'[s] => settled[s] /\ Pinned(s)' = Pinned(s),
           current'[s] = current[s], since'[s] = since[s], clock'[s] = clock[s]
    PROVE  NativeScenarioInv(s)'
  BY DEF NativeScenarioInv, ElapsedIn

\* A scenario that enters a state which its release declares, or "Started".
LEMMA EnteredScenarios ==
    ASSUME RuntimeTypeOK, NativeInv, NEW s \in Scenarios, NEW state \in States, Enter(s, state),
           UNCHANGED <<saved, released, settled, clock>>,
           settled[s] => state \in StatesOf(Pinned(s)) \cup {"Started"}
    PROVE  \A x \in Scenarios : NativeScenarioInv(x)'
<1>1. \A x \in Scenarios : NativeScenarioInv(x) /\ Pinned(x)' = Pinned(x)
  BY DEF NativeInv, Pinned
<1>2. ASSUME NEW x \in Scenarios, x # s PROVE NativeScenarioInv(x)'
  BY <1>1, <1>2, EnterProperties, SameScenario
<1>3. NativeScenarioInv(s)'
  <2>1. /\ current'[s] = state
        /\ since'[s] = IF state = current[s] THEN since[s] ELSE 0
    BY EnterProperties
  <2>2. ElapsedIn(s, state) \in Nat /\ ElapsedIn(s, state)' = ElapsedIn(s, state)
    BY <2>1 DEF ElapsedIn, RuntimeTypeOK
  <2>3. since'[s] =< ElapsedIn(s, state)
    BY <1>1, <2>1, <2>2 DEF NativeScenarioInv
  <2> QED
    BY <1>1, <2>1, <2>2, <2>3 DEF NativeScenarioInv, ElapsedIn
<1> QED
  BY <1>2, <1>3

\* Scenarios that are restarted.
LEMMA RestartedScenarios ==
    ASSUME RuntimeTypeOK, NativeInv, Restarted, UNCHANGED <<saved, released, settled, clock>>
    PROVE  \A x \in Scenarios : NativeScenarioInv(x)'
<1> SUFFICES ASSUME NEW x \in Scenarios PROVE NativeScenarioInv(x)'
  OBVIOUS
<1>1. NativeScenarioInv(x) /\ Pinned(x)' = Pinned(x)
  BY DEF NativeInv, Pinned
<1>2. since'[x] = 0 /\ current'[x] \in {current[x], "Started"}
  BY RestartedProperties
<1>3. ElapsedIn(x, current[x])' \in Nat
  BY DEF ElapsedIn, RuntimeTypeOK
<1> QED
  BY <1>1, <1>2, <1>3 DEF NativeScenarioInv

\* The states and clocks of all scenarios stay as they are.
LEMMA SameScenarios ==
    ASSUME NativeInv, UNCHANGED <<saved, released, settled, clock, current, since>>
    PROVE  \A x \in Scenarios : NativeScenarioInv(x)'
  BY SameScenario DEF NativeInv, Pinned

\* An operation that begins has nothing to keep yet.
LEMMA BeginMoveNative ==
    ASSUME ServesInv, NativeInv, ~ remote, NEW o \in Operations, NEW move \in Moving,
           move.at \in {"start", "read"}, BeginMove(o, move)
    PROVE  NativeInv'
<1>1. RuntimeTypeOK
  BY DEF ServesInv
<1>2. \A p \in Operations : task[p] = NoOperation
  BY DEF BeginMove, MayBegin, Idle
<1>3. task' = [task EXCEPT ![o] = move] /\ move.op # "deploy"
  BY DEF BeginMove, Moving
<1>4. task'[o] = move
  BY <1>1, <1>3, OneTask
<1>5. NativeMoveInv(o)'
  BY <1>4 DEF NativeMoveInv
<1>6. \A x \in Scenarios : NativeScenarioInv(x)'
  BY SameScenarios DEF BeginMove, files
<1> QED
  BY <1>2, <1>3, <1>5, <1>6, NativeTask

LEMMA StartResetAllNative ==
    ASSUME ServesInv, NativeInv, NEW o \in Operations, StartResetAll(o)
    PROVE  NativeInv'
<1>1. RuntimeTypeOK /\ task[o] \in Moving /\ task[o] # NoOperation
  BY TaskKinds DEF ServesInv, StartResetAll, NoOperation
<1> DEFINE t == [task[o] EXCEPT !.at = "read"]
<1>2. task' = [task EXCEPT ![o] = t]
  BY DEF StartResetAll
<1>3. t \in Moving /\ t.at = "read" /\ t.op # "deploy"
  BY <1>1 DEF Moving
<1> HIDE DEF t
<1>4. task'[o] = t
  BY <1>1, <1>2, <1>3, OneTask
<1>5. NativeMoveInv(o)'
  BY <1>3, <1>4 DEF NativeMoveInv
<1>6. \A x \in Scenarios : NativeScenarioInv(x)'
  BY <1>1, RestartedScenarios DEF StartResetAll, files
<1>7. \A p \in Operations : p # o => task[p] = NoOperation
  BY <1>1, NativeAlone
<1> QED
  BY <1>2, <1>3, <1>5, <1>6, <1>7, NativeTask

\* What an operation reads is what the release declares, and no less time than passed.
LEMMA ReadStateNative ==
    ASSUME ServesInv, NativeInv, NEW o \in Operations, ReadState(o)
    PROVE  NativeInv'
<1> DEFINE s == Subject(o)
           elapsed == ElapsedIn(s, current[s]) + task[o].ms
           end == Traversal(DefinitionOf(s), current[s], elapsed)
<1>1. RuntimeTypeOK /\ task[o] \in Moving /\ task[o] # NoOperation
  BY ReadStateProperties, TaskKinds DEF ServesInv, NoOperation, ReadState
<1>2. PICK t \in {NoOperation} \cup Moving :
         /\ task' = [task EXCEPT ![o] = t]
         /\ \/ t = NoOperation
            \/ t.at = "read"
            \/ /\ t.at = "set" /\ t.op = task[o].op /\ t.rest = task[o].rest
               /\ t.next \in StatesOf(DefinitionOf(s))
               /\ t.op = "advance" =>
                    /\ current[s] \in StatesOf(DefinitionOf(s))
                    /\ t.elapsed = end.elapsed
                    /\ t.left = 0 \/ t.left = (since[s] + task[o].ms) - end.passed
  BY <1>1, ReadStateProperties
<1>3. UNCHANGED <<saved, released, settled, clock, current, since>>
  BY DEF ReadState, files
<1>4. \A x \in Scenarios : NativeScenarioInv(x)'
  BY <1>3, SameScenarios
<1>5. \A p \in Operations : p # o => task[p] = NoOperation
  BY <1>1, NativeAlone
<1>6. t.op # "deploy"
  BY DEF NoOperation, Moving
<1>7. task'[o] = t
  BY <1>1, <1>2, OneTask
<1>8. ASSUME t \in Moving PROVE NativeMoveInv(o)'
  <2>1. t # NoOperation
    BY <1>8 DEF NoOperation, Moving
  <2>2. CASE t.at = "read"
    BY <1>7, <2>2 DEF NativeMoveInv
  <2>3. CASE /\ t.at = "set" /\ t.op = task[o].op /\ t.rest = task[o].rest
             /\ t.next \in StatesOf(DefinitionOf(s))
             /\ t.op = "advance" =>
                  /\ current[s] \in StatesOf(DefinitionOf(s))
                  /\ t.elapsed = end.elapsed
                  /\ t.left = 0 \/ t.left = (since[s] + task[o].ms) - end.passed
    <3>1. s \in Scenarios /\ saved[s] # <<>> /\ DefinitionOf(s) \in Released
      BY <1>1, SubjectProperties, DefinitionProperties
    <3>2. Subject(o)' = s
      BY <1>7, <2>3 DEF Subject
    <3>3. settled[s] => t.next \in StatesOf(Pinned(s))
      BY <1>1, <2>3, <3>1, DefinitionProperties DEF ServesInv, ServesRelease
    <3>4. t.op = "advance" => t.left =< t.elapsed
      <4> SUFFICES ASSUME t.op = "advance" PROVE t.left =< t.elapsed
        OBVIOUS
      <4>1. ElapsedIn(s, current[s]) \in Nat /\ task[o].ms \in Nat /\ since[s] \in Nat
        BY <1>1, <3>1 DEF ElapsedIn, RuntimeTypeOK, Moving
      <4>2. end \in Places(DefinitionOf(s), elapsed)
        BY <2>3, <3>1, <4>1, TraversalKeepsTime
      <4>3. since[s] =< ElapsedIn(s, current[s])
        BY <3>1 DEF NativeInv, NativeScenarioInv
      <4> HIDE DEF s, end
      <4>4. end.elapsed \in Nat /\ end.passed \in Nat
            /\ end.elapsed + end.passed = ElapsedIn(s, current[s]) + task[o].ms
        BY <4>2 DEF Places
      <4> QED
        BY <2>3, <4>1, <4>3, <4>4
    <3>5. Pinned(s) = saved'[s][Last(released'[s])] /\ settled'[s] = settled[s]
      BY <1>3 DEF Pinned
    <3> HIDE DEF s
    <3> QED
      BY <1>7, <2>3, <3>2, <3>3, <3>4, <3>5 DEF NativeMoveInv, Pinned
  <2> QED
    BY <1>2, <2>1, <2>2, <2>3
<1> HIDE DEF s, end
<1> QED
  BY <1>2, <1>4, <1>5, <1>6, <1>8, NativeTask
\* The state is set, and for an advance the clock is still to be written.
LEMMA SetStateNative ==
    ASSUME ServesInv, NativeInv, NEW o \in Operations, task[o] \in Moving, SetState(o)
    PROVE  NativeInv'
<1>1. RuntimeTypeOK /\ task[o].at = "set" /\ task[o] # NoOperation
  BY DEF ServesInv, SetState, NoOperation, Moving
<1>2. Subject(o) \in Scenarios /\ task[o].next \in States
  BY <1>1, SubjectProperties DEF Moving
<1>3. UNCHANGED <<saved, released, settled, clock>>
  BY DEF SetState, files
<1>4. \A p \in Operations : p # o => task[p] = NoOperation
  BY <1>1, NativeAlone
<1>5. NativeMoveInv(o)
  BY DEF NativeInv
<1>6. NoOperation.op # "deploy" /\ NoOperation \notin Moving /\ \A t \in Moving : t.op # "deploy"
  BY DEF NoOperation, Moving
<1>7. CASE task' = [task EXCEPT ![o] = NoOperation] /\ UNCHANGED <<current, since>>
  <2>1. \A x \in Scenarios : NativeScenarioInv(x)'
    BY <1>3, <1>7, SameScenarios
  <2> QED
    BY <1>4, <1>6, <1>7, <2>1, NativeTask
<1>8. ASSUME Enter(Subject(o), task[o].next) PROVE \A x \in Scenarios : NativeScenarioInv(x)'
  BY <1>1, <1>2, <1>3, <1>5, <1>8, EnteredScenarios DEF NativeMoveInv
<1>9. ASSUME Enter(Subject(o), task[o].next),
             NEW t \in {NoOperation} \cup Moving, task' = [task EXCEPT ![o] = t],
             t \in Moving => t.at = "read"
      PROVE  NativeInv'
  <2>1. task'[o] = t
    BY <1>1, <1>9, OneTask
  <2>2. t \in Moving => NativeMoveInv(o)'
    BY <1>9, <2>1 DEF NativeMoveInv
  <2> QED
    BY <1>4, <1>6, <1>8, <1>9, <2>2, NativeTask
<1>10. ASSUME Enter(Subject(o), task[o].next), task[o].op = "advance",
              NEW t \in Moving, task' = [task EXCEPT ![o] = t],
              t.at = "file", t.op = "advance", t.rest = task[o].rest, t.next = task[o].next,
              t.elapsed = task[o].elapsed, t.left = task[o].left
       PROVE  NativeInv'
  <2>1. task'[o] = t
    BY <1>1, <1>10, OneTask
  <2>2. Subject(o)' = Subject(o)
    BY <1>10, <2>1 DEF Subject
  <2>3. current'[Subject(o)] = t.next
    BY <1>1, <1>2, <1>10, EnterProperties
  <2>4. t.left =< t.elapsed
    BY <1>1, <1>5, <1>10 DEF NativeMoveInv
  <2>5. NativeMoveInv(o)'
    BY <1>10, <2>1, <2>2, <2>3, <2>4 DEF NativeMoveInv
  <2> QED
    BY <1>4, <1>6, <1>8, <1>10, <2>5, NativeTask
<1> QED
  BY <1>1, <1>7, <1>9, <1>10, SetStateProperties

\* The clock is written for the state that the scenario is in.
LEMMA WriteClockNative ==
    ASSUME ServesInv, NativeInv, NEW o \in Operations, WriteClock(o)
    PROVE  NativeInv'
<1> DEFINE s == Subject(o)
<1>1. /\ RuntimeTypeOK /\ task[o] \in Moving /\ task[o] # NoOperation
      /\ task[o].at = "file" /\ task[o].op = "advance"
  BY TaskKinds DEF ServesInv, WriteClock, NoOperation
<1>2. /\ s \in Scenarios
      /\ task[o].next \in States /\ task[o].elapsed \in Nat /\ task[o].left \in Nat
  BY <1>1, SubjectProperties DEF Moving
<1>3. \A p \in Operations : p # o => task[p] = NoOperation
  BY <1>1, NativeAlone
<1>4. current[s] = task[o].next /\ task[o].left =< task[o].elapsed
  BY <1>1 DEF NativeInv, NativeMoveInv
<1>5. /\ clock' = [clock EXCEPT ![s] = [state |-> task[o].next, elapsed |-> task[o].elapsed]]
      /\ since' = [since EXCEPT ![s] = task[o].left]
      /\ task' = [task EXCEPT ![o] = NoOperation]
      /\ UNCHANGED <<saved, released, settled, current>>
  BY DEF WriteClock, End
<1>6. ASSUME NEW x \in Scenarios PROVE NativeScenarioInv(x)'
  <2>1. NativeScenarioInv(x) /\ Pinned(x)' = Pinned(x)
    BY <1>5 DEF NativeInv, Pinned
  <2>2. CASE x = s
    <3>1. clock'[x].state = task[o].next /\ clock'[x].elapsed = task[o].elapsed
          /\ since'[x] = task[o].left /\ current'[x] = task[o].next
      BY <1>1, <1>2, <1>4, <1>5, <2>2 DEF RuntimeTypeOK
    <3> QED
      BY <1>4, <1>5, <2>1, <2>2, <3>1 DEF NativeScenarioInv, ElapsedIn
  <2>3. CASE x # s
    <3>1. clock'[x] = clock[x] /\ since'[x] = since[x] /\ current'[x] = current[x]
      BY <1>1, <1>2, <1>5, <2>3 DEF RuntimeTypeOK
    <3> QED
      BY <1>5, <2>1, <3>1, SameScenario
  <2> QED
    BY <2>2, <2>3
<1>7. NoOperation.op # "deploy" /\ NoOperation \notin Moving
  BY DEF NoOperation, Moving
<1> QED
  BY <1>3, <1>5, <1>6, <1>7, NativeTask

\* The mappings are replaced and the initial state entered in one step.
LEMMA DeployNativeNative ==
    ASSUME ServesInv, NativeInv, NEW o \in Operations, DeployNative(o)
    PROVE  NativeInv'
<1> DEFINE here == task[o].scenario
<1>1. task[o].op = "deploy" /\ task[o] # NoOperation
  BY DEF DeployNative, NoOperation
<1>2. /\ RuntimeTypeOK /\ task[o] \in Deployment /\ DeploymentInv(o) /\ here \in Scenarios
      /\ task[o].definition.initial \in States /\ Declared(task[o].definition)
  BY <1>1, DeploymentProperties
<1>3. \A p \in Operations : p # o => task[p] = NoOperation
  BY <1>1, NativeAlone
<1>4. PICK t \in Deployment :
         /\ task' = [task EXCEPT ![o] = t]
         /\ t.at = "record" /\ t.scenario = here /\ t.definition = task[o].definition
  <2> DEFINE new == [task[o] EXCEPT !.at = "record"]
  <2>1. task' = [task EXCEPT ![o] = new]
    BY DEF DeployNative
  <2>2. /\ new \in Deployment /\ new.at = "record" /\ new.scenario = here
        /\ new.definition = task[o].definition
    BY <1>2 DEF Deployment
  <2> HIDE DEF new
  <2> QED
    BY <2>1, <2>2
<1>5. t \notin Moving
  BY DEF Deployment, Moving
<1>6. Enter(here, task[o].definition.initial) /\ UNCHANGED <<saved, released, settled, clock>>
  BY DEF DeployNative, files
<1>7. ~ settled[here]
  BY <1>2 DEF DeploymentInv
<1>8. \A x \in Scenarios : NativeScenarioInv(x)'
  BY <1>2, <1>6, <1>7, EnteredScenarios
<1>9. NativeDeploymentInv(t)'
  <2>1. current'[here] = task[o].definition.initial
    BY <1>2, <1>6, EnterProperties
  <2> QED
    BY <1>2, <1>4, <2>1 DEF NativeDeploymentInv, Declared
<1> QED
  BY <1>3, <1>4, <1>5, <1>8, <1>9, NativeTask

LEMMA BeginDeployNative ==
    ASSUME ServesInv, NativeInv, ~ remote,
           NEW o \in Operations, NEW s \in Scenarios, NEW r \in DOMAIN saved[s],
           BeginDeploy(o, s, r), RuntimeTypeOK'
    PROVE  NativeInv'
<1>1. RuntimeTypeOK /\ \A p \in Operations : task[p] = NoOperation
  BY DEF ServesInv, BeginDeploy, MayBegin, Idle
<1>2. task'[o].op = "deploy" /\ task'[o].at = "list"
  BY DEF BeginDeploy
<1>3. \A p \in Operations : p # o => task'[p] = NoOperation
  BY <1>1 DEF BeginDeploy, Deploying, NoOperation
<1>4. /\ UNCHANGED <<saved, released, current, since, clock>>
      /\ \A x \in Scenarios : settled'[x] => settled[x]
  BY <1>1 DEF BeginDeploy, files, RuntimeTypeOK
<1>5. \A x \in Scenarios : NativeScenarioInv(x)'
  BY <1>4, SameScenario DEF NativeInv, Pinned
<1>6. \A p, q \in Operations : task'[p] # NoOperation /\ task'[q] # NoOperation => p = q
  BY <1>3
<1>7. \A p \in Operations :
        /\ task'[p].op = "deploy" => NativeDeploymentInv(task[p])'
        /\ task'[p] \in Moving => NativeMoveInv(p)'
  <2>1. \A p \in Operations : p # o => task'[p].op # "deploy" /\ task'[p] \notin Moving
    BY <1>3 DEF NoOperation, Moving
  <2>2. task'[o] \notin Moving
    BY <1>2 DEF Moving
  <2>3. NativeDeploymentInv(task[o])'
    BY <1>2 DEF NativeDeploymentInv
  <2> QED
    BY <2>1, <2>2, <2>3
<1> QED
  BY <1>5, <1>6, <1>7 DEF NativeInv

\* The release that is recorded is the one that was entered.
LEMMA RecordNative ==
    ASSUME ServesInv, NativeInv, NEW o \in Operations, Record(o)
    PROVE  NativeInv'
<1> DEFINE here == task[o].scenario
<1>1. task[o].op = "deploy" /\ task[o].at = "record" /\ task[o] # NoOperation
  BY DEF Record, NoOperation
<1>2. /\ RuntimeTypeOK /\ task[o] \in Deployment /\ DeploymentInv(o) /\ here \in Scenarios
  BY <1>1, DeploymentProperties
<1>3. \A p \in Operations : p # o => task[p] = NoOperation
  BY <1>1, NativeAlone
<1>4. /\ released' = [released EXCEPT ![here] = Append(released[here], task[o].revision)]
      /\ settled' = [settled EXCEPT ![here] = task[o].alone]
      /\ task' = [task EXCEPT ![o] = NoOperation]
      /\ UNCHANGED <<saved, clock, current, since>>
  BY DEF Record, End
<1>5. current[here] \in StatesOf(task[o].definition) \cup {"Started"}
  BY <1>1 DEF NativeInv, NativeDeploymentInv
<1>6. ASSUME NEW x \in Scenarios PROVE NativeScenarioInv(x)'
  <2>1. NativeScenarioInv(x)
    BY DEF NativeInv
  <2>2. CASE x = here
    <3>1. /\ released[x] \in Seq(Nat) /\ task[o].revision \in Nat
          /\ task[o].definition = saved[x][task[o].revision]
      BY <1>2, <2>2 DEF RuntimeTypeOK, Deployment, DeploymentInv
    <3>2. released'[x] = Append(released[x], task[o].revision)
      BY <1>2, <1>4, <2>2 DEF RuntimeTypeOK
    <3>3. Last(released'[x]) = task[o].revision
      BY <3>1, <3>2, AppendProperties, LenProperties DEF Last
    <3>4. Pinned(x)' = task[o].definition
      BY <1>4, <3>1, <3>3 DEF Pinned
    <3>5. current'[x] \in StatesOf(Pinned(x)') \cup {"Started"}
      BY <1>4, <1>5, <2>2, <3>4
    <3> QED
      BY <1>4, <2>1, <3>5 DEF NativeScenarioInv, ElapsedIn, StatesOf
  <2>3. CASE x # here
    <3>1. released'[x] = released[x] /\ settled'[x] = settled[x]
      BY <1>2, <1>4, <2>3 DEF RuntimeTypeOK
    <3> QED
      BY <1>4, <2>1, <3>1, SameScenario DEF Pinned
  <2> QED
    BY <2>2, <2>3
<1>7. NoOperation.op # "deploy" /\ NoOperation \notin Moving
  BY DEF NoOperation, Moving
<1> QED
  BY <1>3, <1>4, <1>6, <1>7, NativeTask

\* Operations are as they were, and so is what they need.
LEMMA SameTasks ==
    ASSUME NativeInv, UNCHANGED task,
           \A p \in Operations : task[p] = NoOperation \/ UNCHANGED <<current, settled>>,
           \A x \in Scenarios : settled[x] => Pinned(x)' = Pinned(x),
           RuntimeTypeOK,
           \A x \in Scenarios : NativeScenarioInv(x)'
    PROVE  NativeInv'
<1>1. \A p, q \in Operations : task'[p] # NoOperation /\ task'[q] # NoOperation => p = q
  BY DEF NativeInv
<1>2. ASSUME NEW p \in Operations
      PROVE  /\ task'[p].op = "deploy" => NativeDeploymentInv(task[p])'
             /\ task'[p] \in Moving => NativeMoveInv(p)'
  <2>1. CASE task[p] = NoOperation
    BY <2>1 DEF NoOperation, Moving
  <2>2. CASE UNCHANGED <<current, settled>>
    <3>1. /\ task[p].op = "deploy" => NativeDeploymentInv(task[p])
          /\ task[p] \in Moving => NativeMoveInv(p)
      BY DEF NativeInv
    <3>2. task[p].op = "deploy" => NativeDeploymentInv(task[p])'
      BY <2>2, <3>1 DEF NativeDeploymentInv
    <3>3. ASSUME task[p] \in Moving PROVE NativeMoveInv(p)'
      <4>1. Subject(p)' = Subject(p) /\ Subject(p) \in Scenarios
        BY <3>3, SubjectProperties DEF Subject
      <4>2. settled[Subject(p)] => Pinned(Subject(p))' = Pinned(Subject(p))
        BY <4>1 DEF Pinned
      <4> QED
        BY <2>2, <3>1, <3>3, <4>1, <4>2 DEF NativeMoveInv, StatesOf, Pinned
    <3> QED
      BY <3>2, <3>3
  <2> QED
    BY <2>1, <2>2
<1> QED
  BY <1>1, <1>2 DEF NativeInv

\* A client moves a scenario along what the mappings of the release declare.
LEMMA ClientCallNative ==
    ASSUME ServesInv, NativeInv, ~ remote, NEW s \in Scenarios, NEW to \in States, ClientCall(s, to)
    PROVE  NativeInv'
<1>1. RuntimeTypeOK /\ \A p \in Operations : task[p] = NoOperation
  BY DEF ServesInv, ClientCall, Idle
<1>2. /\ Enter(s, to) /\ UNCHANGED <<saved, released, clock, settled, task>>
  BY DEF ClientCall, files
<1>3. PICK stub \in stubs[s] : /\ current[s] \in StatesOf(stub.definition)
                               /\ to \in stub.definition.clients[current[s]]
  BY DEF ClientCall
<1>4. ASSUME settled[s] PROVE to \in StatesOf(Pinned(s))
  <2>1. \E number : stubs[s] = Parts(Pinned(s), Pinned(s).handlers, number)
    BY <1>4 DEF ServesInv, ServesRelease
  <2>2. stub.definition = Pinned(s)
    BY <2>1 DEF Parts
  <2>3. Declared(stub.definition)
    <3>1. stub \in Stub
      BY <1>1 DEF RuntimeTypeOK
    <3> QED
      BY <3>1, DeclaredStates DEF Stub
  <2> QED
    BY <1>3, <2>2, <2>3 DEF Declared
<1>5. \A x \in Scenarios : NativeScenarioInv(x)'
  BY <1>1, <1>2, <1>4, EnteredScenarios
<1> QED
  BY <1>1, <1>2, <1>5, SameTasks DEF Pinned

\* A revision that is saved changes no release.
LEMMA SaveNative ==
    ASSUME ServesInv, NativeInv, NEW s \in Scenarios, NEW d \in Released, Save(s, d)
    PROVE  NativeInv'
<1>1. RuntimeTypeOK
  BY DEF ServesInv
<1>2. UNCHANGED <<released, clock, current, task, settled, since>>
  BY DEF Save
<1>3. ASSUME NEW x \in Scenarios, settled[x] PROVE Pinned(x)' = Pinned(x)
  <2>1. released[x] # <<>> /\ released[x] \in Seq(Nat)
    BY <1>1, <1>3 DEF ServesInv, ServesRelease, RuntimeTypeOK
  <2>2. Len(released[x]) \in 1..Len(released[x]) /\ Last(released[x]) = released[x][Len(released[x])]
    BY <2>1, EmptySeq DEF Last
  <2>3. Last(released[x]) \in 1..Len(saved[x])
    BY <1>1, <2>2 DEF RuntimeTypeOK
  <2>4. saved'[x][Last(released[x])] = saved[x][Last(released[x])]
    BY <1>1, <2>3, SaveProperties
  <2> QED
    BY <1>2, <2>4 DEF Pinned
<1>4. \A x \in Scenarios : NativeScenarioInv(x)'
  BY <1>2, <1>3, SameScenario DEF NativeInv
<1> QED
  BY <1>1, <1>2, <1>3, <1>4, SameTasks

LEMMA CrashNative ==
    ASSUME ServesInv, NativeInv, NEW forgets \in BOOLEAN, Crash(forgets)
    PROVE  NativeInv'
<1>1. RuntimeTypeOK
  BY DEF ServesInv
<1>2. \A p \in Operations : task'[p] = NoOperation
  BY DEF Crash
<1>3. \A p \in Operations : task'[p].op # "deploy" /\ task'[p] \notin Moving
  BY <1>2 DEF NoOperation, Moving
<1>4. UNCHANGED <<saved, released, clock>>
  BY DEF Crash, files
<1>5. \A x \in Scenarios : NativeScenarioInv(x)'
  <2>1. CASE UNCHANGED <<stubs, current, since, settled>>
    BY <1>4, <2>1, SameScenarios
  <2>2. CASE /\ current' = [s \in Scenarios |-> NotDeployed]
             /\ since' = [s \in Scenarios |-> 0]
             /\ settled' = [s \in Scenarios |-> FALSE]
    <3>1. ASSUME NEW x \in Scenarios PROVE NativeScenarioInv(x)'
      <4>1. ElapsedIn(x, current[x])' \in Nat
        BY <1>1, <1>4 DEF ElapsedIn, RuntimeTypeOK
      <4> QED
        BY <2>2, <4>1 DEF NativeScenarioInv
    <3> QED
      BY <3>1
  <2> QED
    BY <2>1, <2>2 DEF Crash
<1> QED
  BY <1>2, <1>3, <1>5 DEF NativeInv
LEMMA InitNative == RuntimeInit => NativeInv
  BY DEF RuntimeInit, NativeInv, NativeScenarioInv, ElapsedIn, NoClock, NoOperation, Moving

\* Every step on the native adapter keeps states and clocks.
LEMMA NextNative ==
    ServesInv /\ NativeInv /\ ~ remote /\ ServesInv' /\ [RuntimeNext]_runtimeVars => NativeInv'
<1> SUFFICES ASSUME ServesInv, NativeInv, ~ remote, ServesInv', [RuntimeNext]_runtimeVars
             PROVE  NativeInv'
  OBVIOUS
<1>1. RuntimeTypeOK /\ RuntimeTypeOK'
  BY DEF ServesInv
<1>2. ASSUME NEW o \in Operations, Step(o) PROVE NativeInv'
  <2>1. CASE StartResetAll(o)
    BY <2>1, StartResetAllNative
  <2>2. CASE ReadState(o)
    BY <2>2, ReadStateNative
  <2>3. CASE SetState(o)
    <3>1. task[o].op # "none" /\ task[o].at = "set"
      BY <2>3 DEF SetState
    <3>2. task[o] \in Moving
      <4>1. task[o] \in Deployment => task[o].at # "set"
        BY DEF Deployment
      <4> QED
        BY <1>1, <3>1, <4>1, TaskKinds
    <3> QED
      BY <2>3, <3>2, SetStateNative
  <2>4. CASE WriteClock(o)
    BY <2>4, WriteClockNative
  <2>5. CASE Record(o)
    BY <2>5, RecordNative
  <2>6. CASE DeployNative(o)
    BY <2>6, DeployNativeNative
  <2>7. ~ (List(o) \/ Post(o) \/ DeployState(o) \/ At(o, "delete"))
    BY DEF List, Post, DeployState, At
  <2> QED
    BY <1>2, <2>1, <2>2, <2>3, <2>4, <2>5, <2>6, <2>7 DEF Step
<1>3. \A o \in Operations : ~ Fail(o)
  BY DEF Fail
<1>4. ASSUME NEW o \in Operations, NEW topic \in Topics, Publish(o, topic) PROVE NativeInv'
  <2>1. Defined \in SUBSET Scenarios /\ Defined # {}
    BY <1>1 DEF RuntimeTypeOK, Defined
  <2> DEFINE m == [Move("publish", "read", Defined) EXCEPT !.topic = topic]
  <2>2. m \in Moving /\ m.at = "read"
    BY <2>1, MoveIsMoving
  <2>3. BeginMove(o, m)
    BY <1>4 DEF Publish
  <2>4. \E move \in Moving : move.at = "read" /\ BeginMove(o, move)
    <3> HIDE DEF m
    <3> QED
      BY <2>2, <2>3
  <2> QED
    BY <2>4, BeginMoveNative
<1>5. ASSUME NEW o \in Operations, ResetAll(o) PROVE NativeInv'
  <2>1. Defined \in SUBSET Scenarios /\ Defined # {}
    BY <1>1 DEF RuntimeTypeOK, Defined
  <2> DEFINE m == Move("resetAll", "start", Defined)
  <2>2. m \in Moving /\ m.at = "start"
    BY <2>1, MoveIsMoving
  <2>3. \E move \in Moving : move.at = "start" /\ BeginMove(o, move)
    BY <1>5, <2>2 DEF ResetAll
  <2> QED
    BY <2>3, BeginMoveNative
<1>6. ASSUME NEW o \in Operations, NEW s \in Scenarios, NEW r \in DOMAIN saved[s], BeginDeploy(o, s, r)
      PROVE  NativeInv'
  BY <1>1, <1>6, BeginDeployNative
<1>7. ASSUME NEW o \in Operations, NEW s \in Scenarios, NEW ms \in Advances, Advance(o, s, ms)
      PROVE  NativeInv'
  <2> DEFINE one == {s}
             m == [Move("advance", "read", one) EXCEPT !.ms = ms]
  <2>1. ms \in Nat /\ one \in SUBSET Scenarios /\ one # {}
    BY <1>7, RuntimeAssumption DEF Advance
  <2>2. BeginMove(o, m)
    BY <1>7 DEF Advance
  <2> HIDE DEF one
  <2>3. m \in Moving /\ m.at = "read"
    BY <2>1, MoveIsMoving
  <2>4. \E move \in Moving : move.at = "read" /\ BeginMove(o, move)
    <3> HIDE DEF m
    <3> QED
      BY <2>2, <2>3
  <2> QED
    BY <2>4, BeginMoveNative
<1>8. ASSUME NEW o \in Operations, NEW s \in Scenarios, ResetScenario(o, s) PROVE NativeInv'
  <2> DEFINE one == {s}
             m == Move("reset", "read", one)
  <2>1. BeginMove(o, m)
    BY <1>8 DEF ResetScenario
  <2>2. one \in SUBSET Scenarios /\ one # {}
    OBVIOUS
  <2> HIDE DEF one
  <2>3. \E move \in Moving : move.at = "read" /\ BeginMove(o, move)
    BY <2>1, <2>2, MoveIsMoving
  <2> QED
    BY <2>3, BeginMoveNative
<1>9. CASE RestartStates
  <2>1. /\ UNCHANGED <<saved, released, clock, task, settled>> /\ Restarted
        /\ \A p \in Operations : task[p] = NoOperation
    BY <1>9 DEF RestartStates, files, Idle
  <2> QED
    BY <1>1, <2>1, RestartedScenarios, SameTasks DEF Pinned
<1>10. ASSUME NEW s \in Scenarios, NEW to \in UNION {StatesOf(d) : d \in Released}, ClientCall(s, to)
       PROVE  NativeInv'
  BY <1>10, ClientCallNative DEF States
<1>11. ASSUME NEW s \in Scenarios, NEW d \in Released, Save(s, d) PROVE NativeInv'
  BY <1>11, SaveNative
<1>12. ASSUME NEW forgets \in BOOLEAN, Crash(forgets) PROVE NativeInv'
  BY <1>12, CrashNative
<1>13. CASE UNCHANGED runtimeVars
  <2>1. UNCHANGED <<saved, released, clock, task, settled, current, since>>
    BY <1>13 DEF runtimeVars, files
  <2> QED
    BY <1>1, <2>1, SameScenarios, SameTasks DEF Pinned
<1> QED
  BY <1>2, <1>3, <1>4, <1>5, <1>6, <1>7, <1>8, <1>9, <1>10, <1>11, <1>12, <1>13
  DEF RuntimeNext

\* The adapter is chosen once.
LEMMA SameAdapter == [RuntimeNext]_runtimeVars => remote' = remote
<1> SUFFICES ASSUME [RuntimeNext]_runtimeVars PROVE remote' = remote
  OBVIOUS
<1>1. CASE UNCHANGED runtimeVars
  BY <1>1 DEF runtimeVars
<1>2. ASSUME NEW o \in Operations, Step(o) PROVE remote' = remote
  BY <1>2 DEF Step, StartResetAll, ReadState, SetState, WriteClock, DeployNative, List, Post,
              DeployState, Record, Delete
<1>3. ASSUME NEW o \in Operations, NEW move, BeginMove(o, move) PROVE remote' = remote
  BY <1>3 DEF BeginMove
<1> QED
  BY <1>1, <1>2, <1>3 DEF RuntimeNext, Fail, Publish, ResetAll, BeginDeploy, Advance,
     ResetScenario, RestartStates, Save, ClientCall, Crash

\* The inductive invariant holds: whatever operations overlap or fail, a settled scenario is
\* served by one whole deployment of its newest release, and on the native adapter states
\* and clocks follow it.
THEOREM RuntimeInvariant == RuntimeSpec => []RuntimeInv
<1>1. RuntimeInit => RuntimeInv
  BY InitServes, InitNative DEF RuntimeInv
<1>2. RuntimeInv /\ [RuntimeNext]_runtimeVars => RuntimeInv'
  BY NextServes, NextNative, SameAdapter DEF RuntimeInv
<1> QED
  BY <1>1, <1>2, PTL DEF RuntimeSpec

-----------------------------------------------------------------------------
(* The properties.                                                         *)

\* A whole deployment has as many mappings as the definition has handlers.
LEMMA PartsOfADeployment ==
    ASSUME NEW d, NEW n \in Nat, NEW number
    PROVE  /\ Cardinality(Parts(d, n, number)) = n
           /\ {[definition |-> b.definition, part |-> b.part] : b \in Parts(d, n, number)}
                = {[definition |-> d, part |-> p] : p \in 1..n}
<1> DEFINE f == [p \in 1..n |-> [definition |-> d, part |-> p, by |-> number]]
<1>1. f \in Bijection(1..n, Parts(d, n, number))
  <2>1. f \in [1..n -> Parts(d, n, number)]
    BY DEF Parts
  <2>2. \A p, q \in 1..n : f[p] = f[q] => p = q
    <3> SUFFICES ASSUME NEW p \in 1..n, NEW q \in 1..n, f[p] = f[q] PROVE p = q
      OBVIOUS
    <3>1. f[p].part = p /\ f[q].part = q
      OBVIOUS
    <3> QED
      BY <3>1
  <2>3. \A b \in Parts(d, n, number) : \E p \in 1..n : f[p] = b
    BY DEF Parts
  <2> HIDE DEF f
  <2> QED
    BY <2>1, <2>2, <2>3, Fun_IsBij
<1>2. Cardinality(Parts(d, n, number)) = n
  BY <1>1, FS_CountingElements DEF ExistsBijection
<1>3. {[definition |-> b.definition, part |-> b.part] : b \in Parts(d, n, number)}
        = {[definition |-> d, part |-> p] : p \in 1..n}
  <2> DEFINE Projected == {[definition |-> b.definition, part |-> b.part] : b \in Parts(d, n, number)}
             Wanted == {[definition |-> d, part |-> p] : p \in 1..n}
  <2>1. ASSUME NEW b \in Parts(d, n, number)
        PROVE  [definition |-> b.definition, part |-> b.part] \in Wanted
    <3>1. PICK p \in 1..n : b = [definition |-> d, part |-> p, by |-> number]
      BY DEF Parts
    <3>2. b.definition = d /\ b.part = p
      BY <3>1
    <3> QED
      BY <3>2
  <2>2. ASSUME NEW p \in 1..n
        PROVE  [definition |-> d, part |-> p] \in Projected
    <3> DEFINE b == [definition |-> d, part |-> p, by |-> number]
    <3>1. b \in Parts(d, n, number) /\ b.definition = d /\ b.part = p
      BY DEF Parts
    <3> HIDE DEF b
    <3>2. [definition |-> d, part |-> p] = [definition |-> b.definition, part |-> b.part]
      BY <3>1
    <3> QED
      BY <3>1, <3>2
  <2>3. Projected \subseteq Wanted
    BY <2>1
  <2>4. Wanted \subseteq Projected
    <3> HIDE DEF Projected
    <3> QED
      BY <2>2
  <2> HIDE DEF Projected, Wanted
  <2>5. Projected = Wanted
    BY <2>3, <2>4
  <2> QED
    BY <2>5 DEF Projected, Wanted
<1> QED
  BY <1>2, <1>3

LEMMA ServesImpliesServed == RuntimeInv => ServedIsLastRelease
<1> SUFFICES ASSUME RuntimeInv, NEW s \in Scenarios, settled[s]
             PROVE  LET d == Pinned(s) IN
                    /\ Cardinality(stubs[s]) = d.handlers
                    /\ {[definition |-> b.definition, part |-> b.part] : b \in stubs[s]}
                        = {[definition |-> d, part |-> p] : p \in 1..d.handlers}
  BY DEF ServedIsLastRelease
<1>1. RuntimeTypeOK
  BY DEF RuntimeInv, ServesInv
<1>2. PICK stub \in stubs[s] : stubs[s] = Parts(Pinned(s), Pinned(s).handlers, stub.by)
  BY DEF RuntimeInv, ServesInv, ServesRelease
<1>3. Pinned(s).handlers \in Nat
  <2>1. stub.definition = Pinned(s)
    BY <1>2 DEF Parts
  <2>2. stub \in Stub
    BY <1>1 DEF RuntimeTypeOK
  <2>3. Declared(Pinned(s))
    BY <2>1, <2>2, DeclaredStates DEF Stub
  <2> QED
    BY <2>3 DEF Declared
<1> QED
  BY <1>2, <1>3, PartsOfADeployment

\* What the runtime serves is the newest release, all of it and nothing else, once a
\* deployment that no other one of the scenario overlapped is recorded, for any number
\* of scenarios, operations, failures and crashes.
THEOREM TheRuntimeServesTheLastRelease == RuntimeSpec => []ServedIsLastRelease
  BY RuntimeInvariant, ServesImpliesServed, PTL

\* On the native adapter a settled scenario stays in the states of its newest release.
THEOREM StatesStayReleased == RuntimeSpec => []StatesAreReleased
<1>1. RuntimeInv => StatesAreReleased
  BY DEF RuntimeInv, NativeInv, NativeScenarioInv, StatesAreReleased
<1> QED
  BY <1>1, RuntimeInvariant, PTL

\* On the native adapter the clock of a scenario never falls behind the time that was
\* advanced since it entered its state.
THEOREM NoTimeIsEverLost == RuntimeSpec => []NoTimeIsLost
<1>1. RuntimeInv => NoTimeIsLost
  BY DEF RuntimeInv, NativeInv, NativeScenarioInv, NoTimeIsLost
<1> QED
  BY <1>1, RuntimeInvariant, PTL
=============================================================================
