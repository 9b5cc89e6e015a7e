------------------------------ MODULE Evidence ------------------------------
(***************************************************************************)
(* A validation run: the mappings compiled from a workspace answer the     *)
(* cases planned from the same workspace, and the report says what they    *)
(* cover.  The runtime is one state per scenario name.  Wherever an answer *)
(* is awaited the requests of clients are served too.  An answer is its    *)
(* status and what it says; injected faults are left out, and so are       *)
(* requests that give a parameter two values, a second path with a member  *)
(* id, and contracts with only a part of the eligibility operations.       *)
(***************************************************************************)
EXTENDS ScenarioDesign

CONSTANTS
    Ids,            \* the ids of configured scenarios, as a sequence in their order
    Success, Error, \* the documented status of each operation's answers (Error: 0, none)
    Sample,         \* what is sampled from the schema of each operation's statuses
    Template,       \* the paths that the path template of each operation matches
    Baseline,       \* the request generated for each operation: [path, body, params]
    Workspaces,     \* the workspaces to validate
    Options,        \* the options of a validation: [reset, boundary, negative, pairwise]
    Requests,       \* the requests of clients
    MaxDataset,     \* max_dataset_cases
    PlannedEdges,   \* max_edge_cases_per_operation of a validation
    CompiledEdges,  \* max_per_operation of the compiler (50)
    MaxEdges,       \* MAX_EDGE_CASES (500)
    MaxPlan,        \* the most cases of all configured scenarios (500)
    Resolution,     \* the steps of a percentage rounded to two places (10000)
    MaxRequests     \* bound: the requests of clients

VARIABLES
    workspace,  \* [operations, eligibility, journey, dataset, scenarios, edges, pairs,
                \* rows, totals, profile]
    deployed,   \* its mappings in the runtime
    states,     \* the state of each scenario name
    unmatched,  \* an event of the journal was not matched: whether, not how many
    run,        \* the validation that is under way
    report,     \* the last report
    requests    \* how many requests clients have sent

evidenceVars == <<workspace, deployed, states, unmatched, run, report, requests>>

NoRun == [phase |-> "idle", options |-> [reset |-> FALSE], plan |-> <<>>, results |-> <<>>,
          before |-> "none", status |-> 0, says |-> "none", disturbed |-> FALSE]
NoReport == [options |-> [reset |-> FALSE], disturbed |-> FALSE, passed |-> FALSE]
FailureStatus == 503
FailureBody == "failure"    \* the body of a profile's failures
NoSchema == <<"none", 0>>   \* of a case whose answer may say anything

\* The paths that the cases of an eligibility contract are sent to, whatever its own are.
BeginPath == "POST /eligibility/requests"
StatusPath == "GET /eligibility/requests/REQ-SYN-001"
UnknownPath == "GET /eligibility/UNKNOWN-SYNTHETIC"
DefaultPath == "GET /eligibility/SYN-1207-000001"

Journey == "journey"            \* the scenario name of the eligibility journey
Intermittent == "intermittent"  \* that of the alternating mappings

ScenarioNames == ToSet(Ids) \cup {Journey, Intermittent}

\* The states of a scenario name.
Conditions == ToSet(StateNames) \cup {"Started", "PROCESSING", "COMPLETED", "DEGRADED"}

Listed(s) == s \in Seq(ToSet(s))

(* What is stored for an operation, its edge cases and its pairwise cases   *)
(* are [op, path, body, params, absent], absent the parameters that their   *)
(* mapping forbids; a stored case also says its answer, an edge case has a  *)
(* polarity and a pairwise case the ids of its pairs.  The compiler takes   *)
(* "pairs", a validation plans "rows": they are generated under different   *)
(* limits.  A member of an eligibility dataset is [path, lookup, says]: the *)
(* contract's path for its id, that of its case, and its answer.  "journey" *)
(* is the contract's path to begin at and that of the status.               *)

\* What is stored and what a contract yields are lists, and configured scenarios were
\* accepted.  Rounding cannot hide a state of a plan that is not too long.
ASSUME WorkspaceAssumption ==
    /\ Listed(Ids) /\ "none" \notin ToSet(Ids)
    /\ {MaxDataset, PlannedEdges, CompiledEdges, MaxEdges, MaxPlan, Resolution} \subseteq Nat
    /\ MaxPlan < Resolution
    /\ \A w \in Workspaces :
        /\ Listed(w.operations) /\ Listed(w.dataset) /\ Listed(w.edges)
        /\ Listed(w.pairs) /\ Listed(w.rows)
        /\ DOMAIN w.scenarios \subseteq ToSet(Ids)
        /\ \A id \in DOMAIN w.scenarios :
            /\ w.scenarios[id] \in Candidates
            /\ WellFormed(w.scenarios[id]) /\ AgreesWithContract(w.scenarios[id])

Generated(w) == ToSet(w.edges) \cup ToSet(w.pairs) \cup ToSet(w.rows)

\* What is generated for an operation is sent to a path of its template and has nothing
\* that its mapping forbids, and nothing is generated for the unknown member; an edge case
\* has one of two polarities; and a pairwise case has some of the pairs of its operation.
ASSUME CaseAssumption ==
    \A w \in Workspaces :
        /\ \A c \in Generated(w) \cup (IF w.eligibility THEN {} ELSE ToSet(w.dataset)) :
            /\ c.op \in ToSet(w.operations)
            /\ c.path \in Template[c.op]
            /\ \A p \in c.params : p[1] \notin c.absent
        /\ \A op \in ToSet(w.operations) : Baseline[op].path \in Template[op]
        /\ \A e \in ToSet(w.edges) : e.polarity \in {"boundary", "negative"}
        /\ \A p \in ToSet(w.pairs) \cup ToSet(w.rows) :
            p.ids # {} /\ p.ids \subseteq w.totals[p.op] /\ IsFiniteSet(w.totals[p.op])
        /\ w.eligibility =>
            /\ {"check", "begin", "get"} \subseteq ToSet(w.operations)
            /\ \A m \in ToSet(w.dataset) : m.path \in Template["check"] \ {UnknownPath}
            /\ \A c \in Generated(w) : c.path # UnknownPath
            /\ w.journey.begin \in Template["begin"] /\ w.journey.get \in Template["get"]

Concat(Of(_), seq) == FlattenSeq([i \in DOMAIN seq |-> Of(seq[i])])
Prefix(seq, n) == SubSeq(seq, 1, IF Len(seq) < n THEN Len(seq) ELSE n)
Each(Of(_), seq) == [i \in DOMAIN seq |-> Of(seq[i])]

-----------------------------------------------------------------------------
(* Compilation.                                                            *)

\* The patterns of requests that are compiled: any request of an operation or of a path,
\* and one for a case.
AnyOf(paths) == [paths |-> paths, body |-> "none", params |-> {}, absent |-> {}]
Exactly(c) == [paths |-> {c.path}, body |-> c.body, params |-> c.params, absent |-> c.absent]

\* A mapping without a scenario; "op" is the operation its metadata names.
Plain(priority, op, takes, status, says) ==
    [priority |-> priority, op |-> op, takes |-> takes, status |-> status, says |-> says,
     scenario |-> "none", required |-> "any", next |-> Stay]

Stateful(op, takes, status, says, name, required, next) ==
    [Plain(1, op, takes, status, says) EXCEPT
        !.scenario = name, !.required = required, !.next = next]

\* A mapping that answers with what is sampled for the status.
Sampled(priority, op, takes, status) ==
    Plain(priority, op, takes, status, Sample[op][status])

\* compile_eligibility_dataset_mappings() or compile_contract_case_mappings().
DatasetMappings(w) ==
    IF w.dataset = <<>> THEN <<>>
    ELSE IF w.eligibility
    THEN Append(Each(LAMBDA m : Plain(1, "check", AnyOf({m.path}), 200, m.says), w.dataset),
                Plain(100, "check", AnyOf(Template["check"]), 404, "MEMBER_NOT_FOUND"))
    ELSE Each(LAMBDA c : Plain(1, c.op, Exactly(c), Success[c.op], c.says), w.dataset)

\* compile_eligibility_journey().
JourneyMappings(w) ==
    IF ~ w.eligibility THEN <<>>
    ELSE LET begin == AnyOf({w.journey.begin})
             get == AnyOf({w.journey.get})
         IN  <<Stateful("begin", begin, 202, "SUBMITTED", Journey, "any", "PROCESSING"),
               Stateful("get", get, 200, "PROCESSING", Journey, "PROCESSING", "COMPLETED"),
               Stateful("get", get, 200, "COMPLETED", Journey, "COMPLETED", Stay)>>

Overridden(w) ==
    IF ~ w.eligibility THEN {}
    ELSE {"begin", "get"} \cup IF w.dataset = <<>> THEN {} ELSE {"check"}

\* compile_scenario_mappings(), for each configured scenario.
ScenarioMappings(w) ==
    Concat(LAMBDA id :
        IF id \notin DOMAIN w.scenarios THEN <<>>
        ELSE Concat(LAMBDA s :
            IF s \notin Known(w.scenarios[id]) THEN <<>>
            ELSE Each(LAMBDA h :
                Stateful("none", PatternOf(h), h.status, h.says, id, s, h.next),
                w.scenarios[id].handlers[s]),
            StateNames),
        Ids)

\* generate_edge_cases(): the candidates of the chosen polarities, at most perOperation
\* of each operation, and MaxEdges in all.
EdgeCases(w, polarities, perOperation) ==
    LET of(op) == Selected(w.edges, {e \in ToSet(w.edges) :
                                        e.op = op /\ e.polarity \in polarities})
    IN  Prefix(Concat(LAMBDA op : Prefix(of(op), perOperation), w.operations), MaxEdges)

EdgeStatus(e) == IF e.polarity = "boundary" THEN Success[e.op] ELSE Error[e.op]

\* The base mapping of an operation takes the paths of its template: also those of
\* another operation, when their templates overlap.
BaseMappings(w) ==
    DatasetMappings(w) \o JourneyMappings(w) \o ScenarioMappings(w)
    \o Each(LAMBDA e : Sampled(2, e.op, Exactly(e), EdgeStatus(e)),
            EdgeCases(w, {"boundary", "negative"}, CompiledEdges))
    \o Each(LAMBDA p : Sampled(3, p.op, Exactly(p), Success[p.op]), w.pairs)
    \o Each(LAMBDA op : Sampled(10, op, AnyOf(Template[op]), Success[op]),
            Selected(w.operations, ToSet(w.operations) \ Overridden(w)))

\* The intermittent profile: success and failure alternate, for all mappings
\* together; scenarios keep their own states.
Alternating(m) ==
    IF m.scenario # "none" THEN <<m>>
    ELSE <<[m EXCEPT !.scenario = Intermittent, !.required = "Started", !.next = "DEGRADED"],
           [m EXCEPT !.scenario = Intermittent, !.required = "DEGRADED", !.next = "Started",
                     !.status = FailureStatus, !.says = FailureBody]>>

\* compile() and apply_behavior_profile(); the delays of "slow" show in ClientRequest.
Mappings(w) ==
    CASE w.profile = "unavailable" ->
            Each(LAMBDA m : [m EXCEPT !.status = FailureStatus, !.says = FailureBody],
                 BaseMappings(w))
      [] w.profile = "intermittent" -> Concat(Alternating, BaseMappings(w))
      [] OTHER -> BaseMappings(w)

-----------------------------------------------------------------------------
(* Execution.                                                              *)

MappingMatches(m, current, request) ==
    /\ Takes(m.takes, request)
    /\ m.required = "any" \/ m.required = current[m.scenario]

\* The matching mappings of the least priority; execute() takes the first.
Candidate(mappings, current, request, i) ==
    /\ MappingMatches(mappings[i], current, request)
    /\ \A j \in DOMAIN mappings : MappingMatches(mappings[j], current, request) =>
        \/ mappings[i].priority < mappings[j].priority
        \/ mappings[i].priority = mappings[j].priority /\ i <= j

\* The answer of a request, and the states it leaves.
Execute(mappings, current, request) ==
    LET chosen == {i \in DOMAIN mappings : Candidate(mappings, current, request, i)}
    IN  IF chosen = {}
        THEN [status |-> 404, says |-> "NO_MATCH", matched |-> FALSE, states |-> current]
        ELSE LET m == mappings[CHOOSE i \in chosen : TRUE] IN
             [status |-> m.status, says |-> m.says, matched |-> TRUE,
              states |-> IF m.next = Stay THEN current
                         ELSE [current EXCEPT ![m.scenario] = m.next]]

-----------------------------------------------------------------------------
(* The plan.                                                               *)

Sent(c) == [path |-> c.path, body |-> c.body, params |-> c.params]
Lookup(path) == [path |-> path, body |-> "none", params |-> {}]
BeginRequest == [path |-> BeginPath, body |-> "member", params |-> {}]

\* A case outside the configured scenarios.
Case(op, request, status, schema) ==
    [op |-> op, request |-> request, status |-> status, schema |-> schema,
     scenario |-> "none", required |-> "none", handler |-> "none", next |-> Stay,
     reset |-> FALSE, pairs |-> {}]

\* A case whose answer is compared with the documented schema of its status.
Checked(op, request, status) == Case(op, request, status, <<op, status>>)

\* One that only expects the profile's failure.
Failing(op, request) == Case(op, request, FailureStatus, NoSchema)

\* A case as each profile plans it: once, with its failure, or only its failure.
InProfile(w, op, request, status, schema) ==
    CASE w.profile = "unavailable" -> <<Failing(op, request)>>
      [] w.profile = "intermittent" ->
            <<Case(op, request, status, schema), Failing(op, request)>>
      [] OTHER -> <<Case(op, request, status, schema)>>

\* _build_eligibility_validation_cases(); without members one default id is looked up.
\* The member in the body of the first step of the journey matters to no mapping of it.
EligibilityCases(w) ==
    LET members == IF w.dataset = <<>> THEN <<[lookup |-> DefaultPath]>>
                   ELSE Prefix(w.dataset, MaxDataset)
        step(op, request, status) == IF w.profile = "unavailable" THEN Failing(op, request)
                                     ELSE Checked(op, request, status)
    IN  Concat(LAMBDA m : InProfile(w, "check", Lookup(m.lookup), 200, <<"check", 200>>), members)
        \o InProfile(w, "check", Lookup(UnknownPath), 404, NoSchema)
        \o <<step("begin", BeginRequest, 202), step("get", Lookup(StatusPath), 200),
             step("get", Lookup(StatusPath), 200)>>

\* _build_generic_validation_cases(): stored cases, and the baseline of each operation
\* that has none.
GenericCases(w) ==
    LET selected == Prefix(w.dataset, MaxDataset)
        covered == {c.op : c \in ToSet(selected)}
        planned(op, request) == InProfile(w, op, request, Success[op], <<op, Success[op]>>)
    IN  Concat(LAMBDA c : planned(c.op, Sent(c)), selected)
        \o Concat(LAMBDA op : planned(op, Baseline[op]),
                  Selected(w.operations, ToSet(w.operations) \ covered))

ScenarioCases(w) ==
    Concat(LAMBDA id :
        IF id \notin DOMAIN w.scenarios THEN <<>>
        ELSE Each(LAMBDA c :
            [op |-> "none", request |-> RequestOf(c.handler), status |-> c.handler.status,
             schema |-> <<c.handler.path, c.handler.status>>,
             scenario |-> id, required |-> c.state, handler |-> c.handler.name,
             next |-> c.handler.next, reset |-> c.reset, pairs |-> {}],
            ReplayCases(w.scenarios[id])),
        Ids)

\* A longer plan is refused (ValueError).
PlanFits(w) == Len(ScenarioCases(w)) <= MaxPlan

Polarities(options) ==
    (IF options.boundary THEN {"boundary"} ELSE {})
    \cup (IF options.negative THEN {"negative"} ELSE {})

Plan(w, options) ==
    (IF w.eligibility THEN EligibilityCases(w) ELSE GenericCases(w))
    \o ScenarioCases(w)
    \o Each(LAMBDA e : Checked(e.op, Sent(e), EdgeStatus(e)),
            EdgeCases(w, Polarities(options), PlannedEdges))
    \o IF options.pairwise
       THEN Each(LAMBDA p : [Checked(p.op, Sent(p), Success[p.op]) EXCEPT !.pairs = p.ids],
                 w.rows)
       ELSE <<>>

-----------------------------------------------------------------------------
(* Coverage.                                                               *)

\* _coverage() is 100.0 when 100 * covered / total, rounded to two places, is.
Complete(covered, total) == 2 * Resolution * covered + total >= 2 * Resolution * total

AllStates(w) == UNION {{<<id, s>> : s \in Known(w.scenarios[id])} : id \in DOMAIN w.scenarios}

AllTransitions(w) ==
    UNION {UNION {{<<id, s, h.name, h.next>> : h \in Transitions(w.scenarios[id], s)} :
           s \in Known(w.scenarios[id])} : id \in DOMAIN w.scenarios}

\* The results of the cases of configured scenarios that passed.
PassedOf(plan, results) ==
    {i \in DOMAIN results : results[i].passed /\ plan[i].scenario # "none"}

CoveredStates(plan, results) ==
    UNION {{<<plan[i].scenario, results[i].before>>, <<plan[i].scenario, results[i].after>>} :
           i \in PassedOf(plan, results)}

CoveredTransitions(plan, results) ==
    {<<plan[i].scenario, plan[i].required, plan[i].handler, plan[i].next>> :
        i \in {k \in PassedOf(plan, results) :
               plan[k].next # Stay /\ results[k].after = plan[k].next}}

\* The pairs covered, and those required of the operations with a pairwise case.  Their ids
\* begin with the operation: the code adds the totals of different operations.
CoveredPairs(plan, results) ==
    UNION {plan[i].pairs : i \in {k \in DOMAIN results : results[k].passed}}

RequiredPairs(w, plan) ==
    UNION {w.totals[plan[i].op] : i \in {k \in DOMAIN plan : plan[k].pairs # {}}}

\* Mutant: the coverage of states is not asked for.
PassesWithoutCoverage(w, plan, results, missed) ==
    /\ \A i \in DOMAIN results : results[i].passed
    /\ ~ missed

\* The status of the report.
Passes(w, plan, results, missed) ==
    /\ \A i \in DOMAIN results : results[i].passed
    /\ ~ missed
    /\ Complete(Cardinality(CoveredStates(plan, results) \cap AllStates(w)),
                Cardinality(AllStates(w)))
    /\ Complete(Cardinality(CoveredTransitions(plan, results) \cap AllTransitions(w)),
                Cardinality(AllTransitions(w)))
    /\ Complete(Cardinality(CoveredPairs(plan, results)), Cardinality(RequiredPairs(w, plan)))

-----------------------------------------------------------------------------
(* The run.                                                                *)

\* A request of a client.  During a run it comes in where an answer is delayed, by the
\* profile or by a handler, and at every call of a WireMock runtime.
ClientRequest(request) ==
    LET answer == Execute(deployed, states, request) IN
    /\ requests < MaxRequests
    /\ requests' = requests + 1
    /\ states' = answer.states
    /\ unmatched' = (unmatched \/ ~ answer.matched)
    /\ run' = IF run.phase = "idle" THEN run ELSE [run EXCEPT !.disturbed = TRUE]
    /\ UNCHANGED <<workspace, deployed, report>>

Planned(options) ==
    IF PlanFits(workspace)
    THEN [NoRun EXCEPT !.phase = "next", !.options = options, !.plan = Plan(workspace, options)]
    ELSE NoRun

\* Mutant: a validation does not reset the runtime.
StartRunAsIs(options) ==
    /\ run.phase = "idle"
    /\ run' = Planned(options)
    /\ UNCHANGED <<workspace, deployed, states, unmatched, report, requests>>

\* The runtime is reset before the plan is built: also for one that is refused.
StartRun(options) ==
    /\ run.phase = "idle"
    /\ run' = Planned(options)
    /\ IF options.reset
       THEN states' = [n \in ScenarioNames |-> "Started"] /\ unmatched' = FALSE
       ELSE UNCHANGED <<states, unmatched>>
    /\ UNCHANGED <<workspace, deployed, report, requests>>

CurrentCase == run.plan[Len(run.results) + 1]

\* The state is set and read, then the request is sent.
SendCase ==
    LET c == CurrentCase
        at == IF c.reset
              THEN [states EXCEPT ![c.scenario] = workspace.scenarios[c.scenario].initial]
              ELSE states
        answer == Execute(deployed, at, c.request)
    IN  /\ run.phase = "next"
        /\ Len(run.results) < Len(run.plan)
        /\ states' = answer.states
        /\ unmatched' = (unmatched \/ ~ answer.matched)
        /\ run' = [run EXCEPT !.phase = "sent", !.status = answer.status, !.says = answer.says,
                    !.before = IF c.scenario = "none" THEN "none" ELSE at[c.scenario]]
        /\ UNCHANGED <<workspace, deployed, report, requests>>

\* The answer arrives, is compared with its schema, and the state is read again.
ObserveCase ==
    LET c == CurrentCase
        after == IF c.scenario = "none" THEN "none" ELSE states[c.scenario]
        passed == /\ run.status = c.status
                  /\ c.schema = NoSchema \/ <<run.says, c.schema>> \in Conforming
                  /\ run.before = c.required
                  /\ after = IF c.next = Stay THEN c.required ELSE c.next
    IN  /\ run.phase = "sent"
        /\ run' = [run EXCEPT !.phase = "next", !.results = Append(@,
                    [passed |-> passed, before |-> run.before, after |-> after])]
        /\ UNCHANGED <<workspace, deployed, states, unmatched, report, requests>>

\* The journal is read after the last case.
Report ==
    /\ run.phase = "next"
    /\ Len(run.results) = Len(run.plan)
    /\ report' = [options |-> run.options, disturbed |-> run.disturbed,
                  passed |-> Passes(workspace, run.plan, run.results, unmatched)]
    /\ run' = NoRun
    /\ UNCHANGED <<workspace, deployed, states, unmatched, requests>>

EvidenceInit ==
    /\ workspace \in Workspaces
    /\ deployed = Mappings(workspace)
    /\ states = [n \in ScenarioNames |->
                    IF n \in DOMAIN workspace.scenarios THEN workspace.scenarios[n].initial
                    ELSE "Started"]
    /\ unmatched = FALSE /\ requests = 0
    /\ run = NoRun
    /\ report = NoReport

EvidenceNext ==
    \/ \E request \in Requests : ClientRequest(request)
    \/ \E options \in Options : StartRun(options)
    \/ SendCase \/ ObserveCase \/ Report

EvidenceSpec == EvidenceInit /\ [][EvidenceNext]_evidenceVars

-----------------------------------------------------------------------------
(* Properties.                                                             *)

\* A report that passed, of a run no client disturbed, can be relied on: handlers lead to
\* every state of every configured scenario, and in each there is a condition of the
\* other scenario names in which each of its handlers' requests gets the handler's status
\* and moves the scenario as the handler says.
PassedMeansServed ==
    report.passed /\ ~ report.disturbed =>
        \A id \in DOMAIN workspace.scenarios :
            LET d == workspace.scenarios[id] IN
            /\ Known(d) = Reachable(d)
            /\ \A s \in Known(d) : \A h \in ToSet(d.handlers[s]) :
                \E others \in [ScenarioNames \ {id} -> Conditions] :
                    LET current == [n \in ScenarioNames |-> IF n = id THEN s ELSE others[n]]
                        answer == Execute(deployed, current, RequestOf(h))
                    IN
                    /\ answer.status = h.status
                    /\ answer.states[id] = IF h.next = Stay THEN s ELSE h.next

\* Every edge case and row that the options plan is among those the compiler takes.
AllCompiled(w, options) ==
    /\ ToSet(EdgeCases(w, Polarities(options), PlannedEdges))
        \subseteq ToSet(EdgeCases(w, {"boundary", "negative"}, CompiledEdges))
    /\ options.pairwise => ToSet(w.rows) \subseteq ToSet(w.pairs)

\* No path is matched by the templates of two operations.
PathsAreApart(w) ==
    \A op, other \in ToSet(w.operations) :
        op # other => Template[op] \cap Template[other] = {}

\* Whatever is sampled, stored or said by the journey validates against the schema that
\* is documented for it; the answer for unknown members (100) is compared with none.
SamplesConform(w) ==
    \A m \in ToSet(BaseMappings(w)) :
        m.priority < 100 => <<m.says, <<m.op, m.status>>>> \in Conforming

\* A negative edge case is not also a request for which a stored case, the journey or a
\* boundary case is answered, and does not take what a boundary case, a pairwise case or a
\* baseline asks.
NegativesStandOut(w) ==
    \A e \in {x \in ToSet(w.edges) : x.polarity = "negative"} :
        /\ \A m \in ToSet(DatasetMappings(w) \o JourneyMappings(w)) :
            m.priority = 1 => ~ Takes(m.takes, Sent(e))
        /\ \A f \in {x \in ToSet(w.edges) : x.polarity = "boundary"} :
            ~ Takes(Exactly(f), Sent(e)) /\ ~ Takes(Exactly(e), Sent(f))
        /\ \A r \in ToSet(w.rows) : ~ Takes(Exactly(e), Sent(r))
        /\ \A op \in ToSet(w.operations) : ~ Takes(Exactly(e), Baseline[op])

\* The contract of the journey has the paths that its cases are sent to, and documents
\* what members and the journey answer.
JourneyIsDocumented(w) ==
    w.eligibility =>
        /\ Success["check"] = 200 /\ Success["begin"] = 202 /\ Success["get"] = 200
        /\ w.journey.begin = BeginPath /\ w.journey.get = StatusPath
        /\ UnknownPath \in Template["check"]
        /\ \A m \in ToSet(w.dataset) : m.lookup = m.path

\* The planned rows of an operation cover its pairs: their limit cut nothing off.
PairsAreComplete(w) ==
    \A p \in ToSet(w.rows) :
        w.totals[p.op] \subseteq UNION {r.ids : r \in {q \in ToSet(w.rows) : q.op = p.op}}

\* What is generated from a contract validates against itself: an undisturbed run that
\* resets the runtime passes in a workspace without configured scenarios, whatever clients
\* did before, in every profile for the plain cases and in an undegraded one for the
\* edge and pairwise cases too - once an eligibility workspace has members, while the caps
\* leave no planned edge case, row or pair out, if the templates of the operations do not
\* overlap, if what is sampled conforms, and if no negative case is mistaken.
GeneratedCasesPass ==
    /\ report.options.reset /\ ~ report.disturbed
    /\ DOMAIN workspace.scenarios = {}
    /\ workspace.eligibility => workspace.dataset # <<>>
    /\ AllCompiled(workspace, report.options)
    /\ PathsAreApart(workspace) /\ SamplesConform(workspace)
    /\ NegativesStandOut(workspace) /\ JourneyIsDocumented(workspace)
    /\ PairsAreComplete(workspace)
    /\ \/ workspace.profile \in {"normal", "slow"}
       \/ Polarities(report.options) = {} /\ ~ report.options.pairwise
    => report.passed
=============================================================================
