--------------------------- MODULE ScenarioDesign ---------------------------
(***************************************************************************)
(* Configured scenarios: the graphs of states and handlers a user saves,   *)
(* what makes one acceptable, how two revisions of one are compared, which *)
(* states a graph reaches and which requests replay it.                    *)
(* A request is [path, body, params]: the method and path it is sent to,   *)
(* its body ("none": it has none) and its query parameters and headers, a  *)
(* set of <<name, value>> that gives a name one value.  What a response    *)
(* says is a name for its body, "null" when a handler gives none.          *)
(***************************************************************************)
EXTENDS Orders, Naturals, Sequences, SequencesExt, FiniteSets

CONSTANTS
    StateNames,     \* the names of states, as a sequence: the order of a definition
    Documented,     \* the statuses the contract documents, of each path a template matches:
                    \* those of the first operation that matches it
    Conforming,     \* the <<body, <<path, status>>>> that the documented schemas allow
    Candidates,     \* the definitions a user may submit
    MaxRevisions    \* bound: the revisions saved

VARIABLE revisions  \* the saved definitions of one scenario, oldest first

Stay == "stay"      \* new_state is None
Never == "never"    \* no timeout

-----------------------------------------------------------------------------
(* A definition: [initial, reset, handlers, timeout, topics].  handlers     *)
(* gives each declared state its handlers, timeout and topics the target   *)
(* of its timer and of each of its topics.  A handler is [name, path,      *)
(* query, extra, body, status, says, next]: query is what is written after *)
(* the path, a sequence of <<name, value>>, and extra the query_parameters *)
(* and headers that are given apart, a set of them.                        *)

Known(d) == DOMAIN d.handlers

\* Every state has a place in the order of states, and its handlers are a list; no state
\* has the name of none.
ASSUME CandidateAssumption ==
    /\ StateNames \in Seq(ToSet(StateNames))
    /\ \A i, j \in DOMAIN StateNames : i # j => StateNames[i] # StateNames[j]
    /\ Stay \notin ToSet(StateNames)
    /\ \A d \in Candidates :
        /\ Known(d) \subseteq ToSet(StateNames)
        /\ \A s \in Known(d) : d.handlers[s] \in Seq(ToSet(d.handlers[s]))

NamesOf(handlers) == {h.name : h \in ToSet(handlers)}

Transitions(d, s) == {h \in ToSet(d.handlers[s]) : h.next # Stay}

\* The model validators: names are unique and every target is declared.
WellFormed(d) ==
    /\ {d.initial, d.reset} \subseteq Known(d)
    /\ \A s \in Known(d) :
        /\ d.handlers[s] # <<>>
        /\ Cardinality(NamesOf(d.handlers[s])) = Len(d.handlers[s])
        /\ \A h \in Transitions(d, s) : h.next \in Known(d)
        /\ d.timeout[s] \in Known(d) \cup {Never}
        /\ \A t \in DOMAIN d.topics[s] : d.topics[s][t] \in Known(d)

\* What tells the handlers of a state apart: the path with its query, and the body; what
\* is given apart from the path is not looked at.
Trigger(h) == <<h.path, h.query, h.body>>

\* validate_scenario_contract(): paths, statuses and bodies are documented, and no two
\* handlers of a state have the same trigger.  Triggers that only overlap (one names a
\* body or a parameter, the other does not) are accepted.
AgreesWithContract(d) ==
    \A s \in Known(d) :
        LET handlers == d.handlers[s] IN
        \A i \in DOMAIN handlers :
            /\ handlers[i].path \in DOMAIN Documented
            /\ handlers[i].status \in Documented[handlers[i].path]
            /\ \/ handlers[i].says = "null"
               \/ <<handlers[i].says, <<handlers[i].path, handlers[i].status>>>> \in Conforming
            /\ \A j \in DOMAIN handlers : i # j => Trigger(handlers[i]) # Trigger(handlers[j])

\* configure_scenario(): a definition that is refused leaves everything alone.
Save(d) ==
    /\ Len(revisions) < MaxRevisions
    /\ WellFormed(d) /\ AgreesWithContract(d)
    /\ revisions' = Append(revisions, d)

DesignInit == revisions = <<>>

DesignNext == \E d \in Candidates : Save(d)

DesignSpec == DesignInit /\ [][DesignNext]_revisions

-----------------------------------------------------------------------------
(* The graph.                                                              *)

\* The handlers of a state that lead to a state not seen before, the first to each.
Leading(d, s, seen) ==
    {i \in DOMAIN d.handlers[s] :
        /\ d.handlers[s][i].next \notin seen \cup {Stay}
        /\ \A j \in 1..(i - 1) : d.handlers[s][j].next # d.handlers[s][i].next}

\* Where they lead, in their order.
Fresh(d, s, seen) ==
    LET order == InOrder(Leading(d, s, seen), Len(d.handlers[s]))
    IN  [k \in DOMAIN order |-> d.handlers[s][order[k]].next]

\* One round of the search: the first state of the frontier is left, and the unseen
\* ones it leads to join it.
Explore(d, search) ==
    IF search.frontier = <<>> THEN search
    ELSE LET fresh == Fresh(d, Head(search.frontier), search.reachable)
         IN  [reachable |-> search.reachable \cup ToSet(fresh),
              frontier |-> Tail(search.frontier) \o fresh]

\* A state joins the frontier once, so that there are not more rounds than states.
Exploration(d) ==
    LET search[n \in 0..Len(StateNames)] ==
            IF n = 0 THEN [reachable |-> {d.initial}, frontier |-> <<d.initial>>]
            ELSE Explore(d, search[n - 1])
    IN  search

\* The states the handlers lead to; timeouts and topics are not followed.
Reachable(d) == Exploration(d)[Len(StateNames)].reachable

\* scenario_graph_diagnostics(): what the author is told of a graph.
Diagnostics(d) ==
    {[code |-> "unreachable-state", state |-> s, handler |-> "none"] :
        s \in Known(d) \ Reachable(d)}
    \cup {[code |-> "terminal-state", state |-> s, handler |-> "none"] :
        s \in {t \in Known(d) : Transitions(d, t) = {}}}
    \cup UNION {{[code |-> "self-transition", state |-> s, handler |-> h.name] :
        h \in {g \in Transitions(d, s) : g.next = s}} : s \in Known(d)}

\* The path by which a state is found that s leads to: a step of a path is the state it
\* leaves and the handler that leaves it.
PathFrom(d, s, path, t) ==
    Append(path, <<s, d.handlers[s][CHOOSE i \in DOMAIN d.handlers[s] :
                        /\ d.handlers[s][i].next = t
                        /\ \A j \in 1..(i - 1) : d.handlers[s][j].next # t]>>)

\* Mutant: a state that is found again gets the newer path.
ExtendAgain(d, search) ==
    IF search.pending = <<>> THEN search
    ELSE LET s == Head(search.pending)
             fresh == Fresh(d, s, DOMAIN search.paths)
             again == {h.next : h \in Transitions(d, s)}
         IN  [paths |-> [t \in DOMAIN search.paths \cup again |->
                            IF t \in again THEN PathFrom(d, s, search.paths[s], t)
                            ELSE search.paths[t]],
              pending |-> Tail(search.pending) \o fresh]

\* One round of build_scenario_validation_cases(): the first pending state is left, and
\* the states it is the first to lead to get a path.
Extend(d, search) ==
    IF search.pending = <<>> THEN search
    ELSE LET s == Head(search.pending)
             fresh == Fresh(d, s, DOMAIN search.paths)
         IN  [paths |-> [t \in DOMAIN search.paths \cup ToSet(fresh) |->
                            IF t \in DOMAIN search.paths THEN search.paths[t]
                            ELSE PathFrom(d, s, search.paths[s], t)],
              pending |-> Tail(search.pending) \o fresh]

Extension(d) ==
    LET search[n \in 0..Len(StateNames)] ==
            IF n = 0 THEN [paths |-> [s \in {d.initial} |-> <<>>], pending |-> <<d.initial>>]
            ELSE Extend(d, search[n - 1])
    IN  search

\* The path that first reaches each reachable state.
Paths(d) == Extension(d)[Len(StateNames)].paths

\* The replay of every handler of a reachable state: its path, then the handler.
Replays(d) ==
    LET paths == Paths(d) IN
    FlattenSeq([i \in DOMAIN StateNames |->
        LET s == StateNames[i] IN
        IF s \notin DOMAIN paths THEN <<>>
        ELSE [j \in DOMAIN d.handlers[s] |->
                Append(paths[s], <<s, d.handlers[s][j]>>)]])

\* The plan: the cases of all replays; the first case of a replay resets the state.
ReplayCases(d) ==
    FlattenSeq([i \in DOMAIN Replays(d) |->
        [j \in DOMAIN Replays(d)[i] |->
            [state |-> Replays(d)[i][j][1], handler |-> Replays(d)[i][j][2],
             reset |-> j = 1]]])

-----------------------------------------------------------------------------
(* Comparison of two revisions: the set of changes, each breaking or not.   *)

Change(path, breaking) == [path |-> path, breaking |-> breaking]

CompareValue(path, before, after, breaking) ==
    IF before = after THEN {} ELSE {Change(path, breaking)}

Named(handlers, name) == CHOOSE h \in ToSet(handlers) : h.name = name

\* A handler that both revisions name.
CompareHandler(s, n, b, a) ==
    CompareValue(<<s, n, "request">>, <<b.path, b.query, b.extra, b.body>>,
                 <<a.path, a.query, a.extra, a.body>>, TRUE)
    \cup CompareValue(<<s, n, "new_state">>, b.next, a.next, TRUE)
    \cup CompareValue(<<s, n, "response">>, <<b.status, b.says>>, <<a.status, a.says>>, FALSE)

\* Mutant: a removed handler is not breaking.
CompareHandlersKept(s, before, after) ==
    {Change(<<s, n>>, FALSE) :
        n \in (NamesOf(after) \cup NamesOf(before))
              \ (NamesOf(after) \cap NamesOf(before))}
    \cup UNION {CompareHandler(s, n, Named(before, n), Named(after, n)) :
                n \in NamesOf(before) \cap NamesOf(after)}

CompareHandlers(s, before, after) ==
    {Change(<<s, n>>, FALSE) : n \in NamesOf(after) \ NamesOf(before)}
    \cup {Change(<<s, n>>, TRUE) : n \in NamesOf(before) \ NamesOf(after)}
    \cup UNION {CompareHandler(s, n, Named(before, n), Named(after, n)) :
                n \in NamesOf(before) \cap NamesOf(after)}

\* compare_scenario_revisions(): the timers and topics of a state are not compared.
Changes(before, after) ==
    CompareValue(<<"initial_state">>, before.initial, after.initial, TRUE)
    \cup CompareValue(<<"reset_state">>, before.reset, after.reset, FALSE)
    \cup {Change(<<s>>, FALSE) : s \in Known(after) \ Known(before)}
    \cup {Change(<<s>>, TRUE) : s \in Known(before) \ Known(after)}
    \cup UNION {CompareHandlers(s, before.handlers[s], after.handlers[s]) :
                s \in Known(before) \cap Known(after)}

BreakingChanges(before, after) == {c \in Changes(before, after) : c.breaking}

-----------------------------------------------------------------------------
(* What a client of a running scenario sees: the first handler of the      *)
(* current state that its request matches.                                 *)

\* A pattern of requests: the paths it matches, its body ("none": no condition), the
\* parameters it wants and the names it forbids.  Others may be there.
Takes(pattern, request) ==
    /\ request.path \in pattern.paths
    /\ pattern.body \in {"none", request.body}
    /\ pattern.params \subseteq request.params
    /\ \A p \in request.params : p[1] \notin pattern.absent

\* The parameters of a handler: what is given apart goes before what the path says, and
\* the last value of a name before the others.
Demands(h) ==
    h.extra \cup
    {h.query[i] : i \in {k \in DOMAIN h.query :
        /\ \A j \in DOMAIN h.query : j > k => h.query[j][1] # h.query[k][1]
        /\ \A p \in h.extra : p[1] # h.query[k][1]}}

\* What compile_scenario_mappings() makes of its request.
PatternOf(h) == [paths |-> {h.path}, body |-> h.body, params |-> Demands(h), absent |-> {}]

Matches(h, request) == Takes(PatternOf(h), request)

Answering(d, s, request) == {i \in DOMAIN d.handlers[s] : Matches(d.handlers[s][i], request)}

\* The first of the handlers that match, when one does.
Answer(d, s, request) ==
    d.handlers[s][CHOOSE i \in Answering(d, s, request) :
                    \A j \in Answering(d, s, request) : i <= j]

\* The request a handler describes, as _scenario_validation_case() sends it.
RequestOf(h) == [path |-> h.path, body |-> h.body, params |-> Demands(h)]

\* The requests that the handlers of a definition tell apart.
Triggers(d) == UNION {{RequestOf(h) : h \in ToSet(d.handlers[s])} : s \in Known(d)}

\* The states a walk of n transitions reaches, by definition: the reference of the
\* two searches.
Walked(d, n) ==
    LET after[k \in 0..n] ==
            IF k = 0 THEN {d.initial}
            ELSE UNION {{h.next : h \in Transitions(d, s)} : s \in after[k - 1]}
    IN  after[n]

-----------------------------------------------------------------------------
(* Properties.                                                             *)

\* Between any two saved revisions: when no change is reported as breaking, a client of
\* the older one who is answered in some state is answered by the newer one in
\* that state too and led to the same state, and starts where it started - unless
\* the newer one lets the request match two handlers, a case the comparison does
\* not see because it ignores the order of handlers.
NonBreakingKeepsClients ==
    \A i, j \in DOMAIN revisions :
        LET before == revisions[i]
            after == revisions[j]
        IN  BreakingChanges(before, after) = {} =>
            /\ after.initial = before.initial
            /\ \A s \in Known(before) : \A request \in Triggers(before) \cup Triggers(after) :
                Answering(before, s, request) # {} =>
                    /\ s \in Known(after)
                    /\ Answering(after, s, request) # {}
                    /\ (\A g, h \in Answering(after, s, request) : g = h) =>
                        Answer(after, s, request).next = Answer(before, s, request).next

\* The replays of a saved scenario are walks of its graph from the initial state,
\* end with each handler of each state a walk reaches, once, and are as short as
\* any; the states they leave out are those the diagnostics warn about.
ReplaysAreShortest ==
    \A i \in DOMAIN revisions :
        LET d == revisions[i]
            replays == Replays(d)
            walked == UNION {Walked(d, n) : n \in 0..Len(StateNames)}
        IN  /\ \A r \in ToSet(replays) :
                /\ r[1][1] = d.initial
                /\ \A k \in 1..(Len(r) - 1) : r[k][2].next = r[k + 1][1]
                /\ \A n \in 0..(Len(r) - 2) : Last(r)[1] \notin Walked(d, n)
            /\ {Last(r) : r \in ToSet(replays)}
                = UNION {{<<s, h>> : h \in ToSet(d.handlers[s])} : s \in walked}
            /\ Cardinality({Last(r) : r \in ToSet(replays)}) = Len(replays)
            /\ \A s \in Known(d) :
                s \notin walked <=>
                    \E g \in Diagnostics(d) : g.code = "unreachable-state" /\ g.state = s

\* "ambiguous handlers ... are rejected" (docs/api.md:138), read as: in a saved scenario
\* the request of each handler is answered by that handler.  It does not hold: the
\* handlers of POST /orders and POST /orders?dry=1 have different triggers, and the
\* first takes the requests of the second.
AmbiguousAreRejected ==
    \A i \in DOMAIN revisions : \A s \in Known(revisions[i]) :
        \A h \in ToSet(revisions[i].handlers[s]) :
            Answer(revisions[i], s, RequestOf(h)) = h
=============================================================================
