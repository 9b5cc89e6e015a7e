------------------------------ MODULE MCDesign ------------------------------
(***************************************************************************)
(* Three parts of the design of a simulation that share no variable: the   *)
(* revisions of a scenario, a validation run and the generation of cases.  *)
(* Their steps commute, so one part moves in each behaviour: "focus".      *)
(***************************************************************************)
EXTENDS Evidence, CaseGeneration, TLC

VARIABLE focus

mcStateNames == <<"a", "b", "c">>
mcDocumented ==
    [path \in {"p", "q", StatusPath} |-> IF path = "q" THEN {200} ELSE {200, 404, 409}]

\* The bodies; a body "bad" is one that no schema allows.
Bodies == {"ok", "order", "problem", "m1", "m2", "m3", "SUBMITTED", "PROCESSING",
           "COMPLETED", "failure", "NO_MATCH", "MEMBER_NOT_FOUND"}
mcConforming ==
    Bodies \X ({"p", "q", "check", "begin", "get", StatusPath} \X {200, 202, 400, 404, 409})
    \cup {<<"found", <<"search", 200>>>>}

\* A handler of a path without query; one of a path with a query; and one with parameters
\* that are given apart.
H(name, path, body, status, next) ==
    [name |-> name, path |-> path, query |-> <<>>, extra |-> {}, body |-> body,
     status |-> status, says |-> "ok", next |-> next]
Q(name, path, query, body, status, next) ==
    [H(name, path, body, status, next) EXCEPT !.query = query]
X(name, path, extra, body, status, next) ==
    [H(name, path, body, status, next) EXCEPT !.extra = extra]

Dry == <<"dry", "1">>
Wet == <<"dry", "2">>

AList == {<<H("h1", "p", "none", 200, "b")>>,
          <<H("h1", "p", "x", 200, "b")>>,
          <<H("h1", "p", "x", 409, Stay), H("h2", "q", "none", 200, "b")>>,
          <<H("h2", "q", "none", 200, "b"), H("h1", "p", "x", 409, Stay)>>,
          <<H("h1", "p", "x", 200, "b"), H("h2", "p", "none", 200, "c")>>,
          <<H("h2", "p", "none", 200, "c"), H("h1", "p", "x", 200, "b")>>,
          <<H("h1", "p", "x", 200, "b"), Q("h2", "p", <<Wet, Dry>>, "x", 200, Stay)>>,
          <<X("h2", "p", {Dry}, "none", 200, Stay), H("h1", "p", "x", 200, "b")>>,
          <<Q("h1", "p", <<Dry>>, "x", 200, "b"), Q("h2", "p", <<Wet>>, "x", 200, Stay)>>,
          <<H("h1", "p", "x", 200, "b"), X("h2", "p", {Dry}, "x", 409, Stay)>>,
          <<[H("h1", "p", "x", 200, "b") EXCEPT !.says = "bad"]>>,
          <<H("h1", "q", "none", 404, "b")>>}
BList == {<<H("h1", "q", "none", 200, "a")>>,
          <<H("h1", "q", "none", 200, Stay)>>,
          <<H("h1", "q", "none", 200, "c"), H("h2", "p", "none", 200, "a")>>}
CList == {<<H("h1", "p", "none", 200, Stay)>>,
          <<H("h1", "p", "none", 200, "a"), H("h1", "q", "none", 200, "b")>>}

Untimed(handlers) == [s \in DOMAIN handlers |-> Never]
NoTopics(handlers) == [s \in DOMAIN handlers |-> <<>>]

Definition(initial, handlers) ==
    [initial |-> initial, reset |-> "a", handlers |-> handlers,
     timeout |-> Untimed(handlers), topics |-> NoTopics(handlers)]

\* Configured scenarios of a workspace.
First == {Definition("a", [a |-> <<H("h1", "p", "x", 200, "b"), H("h2", "q", "none", 200, Stay)>>,
                           b |-> <<H("h1", "q", "none", 200, "a")>>]),
          Definition("a", [a |-> <<H("h1", "p", "none", 200, "b"), H("h2", "p", "x", 409, Stay)>>,
                           b |-> <<H("h1", "q", "none", 200, "a")>>]),
          Definition("a", [a |-> <<Q("h1", "p", <<Wet, Dry>>, "x", 200, "b"),
                                   X("h2", "p", {Wet}, "x", 409, Stay)>>,
                           b |-> <<H("h1", "q", "none", 200, "a")>>]),
          Definition("a", [a |-> <<H("h1", "p", "x", 200, Stay)>>,
                           b |-> <<H("h1", "q", "none", 200, "a")>>])}
Second == {Definition("b", [b |-> <<H("h1", "p", "x", 200, "a")>>,
                            a |-> <<H("h1", "q", "x", 200, "b")>>]),
           Definition("b", [b |-> <<H("h1", "p", "x", 200, "a"), H("h2", "q", "y", 200, Stay)>>,
                            a |-> <<H("h1", "q", "x", 200, "b")>>]),
           Definition("a", [a |-> <<H("h1", "p", "x", 409, Stay),
                                    Q("h2", "p", <<Dry>>, "x", 200, Stay)>>]),
           Definition("a", [a |-> <<H("h1", "p", "x", 409, Stay)>>])}

\* A scenario that shares an operation with the journey: its second handler is answered
\* where the journey is COMPLETED.
Beside == {Definition("a", [a |-> <<Q("h1", StatusPath, <<Dry>>, "none", 404, Stay),
                                    H("h2", StatusPath, "none", 200, Stay)>>])}

mcCandidates ==
    First \cup Second \cup Beside
    \cup {Definition(i, [a |-> a, b |-> b]) : i \in {"a", "b"}, a \in AList, b \in BList}
    \cup {Definition(i, [a |-> a, b |-> b, c |-> c]) :
            i \in {"a", "b"}, a \in AList, b \in BList, c \in CList}

-----------------------------------------------------------------------------
mcIds == <<"s1", "s2">>
mcSuccess == [p |-> 200, q |-> 200, search |-> 200, bad |-> 200,
              check |-> 200, begin |-> 202, get |-> 200]
mcError == [p |-> 400, q |-> 0, search |-> 0, bad |-> 0, check |-> 404, begin |-> 0, get |-> 404]

\* The template of q also takes the path of search.
mcTemplate == [p |-> {"p"}, q |-> {"q", "s"}, search |-> {"s"}, bad |-> {"x"},
               check |-> {UnknownPath, DefaultPath, "m1", "m2", "m3", "m", "short"},
               begin |-> {BeginPath}, get |-> {StatusPath, "r", "odd", "elsewhere"}]

mcSample == [op \in DOMAIN mcSuccess |->
                [status \in {0, 200, 202, 400, 404} |->
                    CASE status \in {400, 404} -> "problem"
                      [] op = "search" -> "found"
                      [] op = "bad" -> "bad"
                      [] OTHER -> "order"]]

Ask(path, body) == [path |-> path, body |-> body, params |-> {}]
mcBaseline == [p |-> Ask("p", "base"), q |-> Ask("q", "none"), search |-> Ask("s", "none"),
               bad |-> Ask("x", "none"), check |-> Ask("m", "none"),
               begin |-> Ask(BeginPath, "base"), get |-> Ask("r", "none")]

\* What is generated for an operation, or stored for it.
EdgeOf(op, path, body, polarity) ==
    [op |-> op, path |-> path, body |-> body, params |-> {}, absent |-> {}, polarity |-> polarity]
Row(op, path, body, ids) ==
    [op |-> op, path |-> path, body |-> body, params |-> {}, absent |-> {}, ids |-> ids]
Stored(op, path, body) ==
    [op |-> op, path |-> path, body |-> body, params |-> {}, absent |-> {}, says |-> "order"]
Member(path) == [path |-> path, lookup |-> path, says |-> path]

Edges == <<EdgeOf("p", "p", "low", "boundary"), EdgeOf("p", "p", "below", "negative"),
           EdgeOf("p", "p", "high", "boundary"), EdgeOf("p", "p", "above", "negative"),
           [EdgeOf("q", "q", "none", "boundary") EXCEPT !.params = {Dry}]>>

Rows == <<Row("p", "p", "x", {1, 2}), [Row("p", "p", "x", {2, 3}) EXCEPT !.params = {Wet}]>>

GenericWith(planned, operations, dataset, scenarios, profile) ==
    [operations |-> operations, eligibility |-> FALSE, dataset |-> dataset,
     scenarios |-> scenarios, edges |-> Edges, pairs |-> Rows, rows |-> planned,
     totals |-> [p |-> {1, 2, 3}, q |-> {}], profile |-> profile]

Generic(operations, dataset, scenarios, profile) ==
    GenericWith(Rows, operations, dataset, scenarios, profile)

Eligibility(journey, dataset, scenarios, profile) ==
    [operations |-> <<"check", "begin", "get">>, eligibility |-> TRUE, dataset |-> dataset,
     scenarios |-> scenarios, journey |-> [begin |-> BeginPath, get |-> journey],
     edges |-> <<EdgeOf("check", "short", "none", "negative"),
                 EdgeOf("begin", BeginPath, "long", "boundary"),
                 EdgeOf("get", "odd", "none", "negative")>>,
     pairs |-> <<Row("begin", BeginPath, "x", {1}), Row("get", StatusPath, "y", {2})>>,
     rows |-> <<Row("begin", BeginPath, "x", {1}), Row("get", StatusPath, "y", {2})>>,
     totals |-> [check |-> {}, begin |-> {1}, get |-> {2}], profile |-> profile]

NoScenarios == [i \in {} |-> 0]

Profiles == {"normal", "slow", "unavailable", "intermittent"}

\* In the last ones generated cases fail: templates overlap, a sample does not conform, a
\* stored case takes any body, rows are cut off, and the contract's path of the status is
\* not the one the cases use.
mcWorkspaces ==
    {Generic(<<"p", "q">>, d, s, f) :
        d \in {<<>>, <<Stored("q", "q", "none"), Stored("p", "p", "y")>>},
        s \in {NoScenarios} \cup {[s1 |-> x] : x \in First}
              \cup {[s1 |-> x, s2 |-> y] : x \in First, y \in Second},
        f \in Profiles}
    \cup {Eligibility(StatusPath, d, s, f) :
        d \in {<<>>, <<Member("m1"), Member("m2"), Member("m3")>>},
        s \in {NoScenarios} \cup {[s1 |-> x] : x \in Beside}, f \in Profiles}
    \cup {Generic(o, <<>>, NoScenarios, f) :
        o \in {<<"p", "q", "search">>, <<"p", "q", "bad">>}, f \in Profiles}
    \cup {Generic(<<"p", "q">>, <<Stored("p", "p", "none")>>, NoScenarios, f) : f \in Profiles}
    \cup {GenericWith(<<Rows[1]>>, <<"p", "q">>, <<>>, NoScenarios, f) : f \in Profiles}
    \cup {Eligibility("elsewhere", <<Member("m1")>>, NoScenarios, f) : f \in Profiles}

mcOptions ==
    {[reset |-> r, boundary |-> e, negative |-> e, pairwise |-> e] : r, e \in BOOLEAN}
    \cup {[reset |-> TRUE, boundary |-> FALSE, negative |-> TRUE, pairwise |-> FALSE]}
mcRequests == {[Ask("p", "x") EXCEPT !.params = {Dry}], Ask("q", "z"), Ask("m1", "none")}

-----------------------------------------------------------------------------
Schema(type, limits, enum) == [type |-> type, limits |-> limits, enum |-> enum, unique |-> FALSE]

Schemas ==
    {Schema("boolean", <<>>, <<>>),
     Schema("integer", [minimum |-> 1], <<>>),
     Schema("integer", [minimum |-> 0, exclusiveMaximum |-> 4], <<>>),
     Schema("integer", [exclusiveMinimum |-> 1, maximum |-> 3], <<>>),
     Schema("string", <<>>, <<3, 5, 7, 8, 9>>),
     Schema("string", [minLength |-> 0, maxLength |-> 2], <<>>),
     Schema("string", [minLength |-> 2], <<4>>),
     Schema("array", [minItems |-> 1, maxItems |-> 2], <<>>),
     [Schema("array", [minItems |-> 2], <<>>) EXCEPT !.unique = TRUE]}

Field(location, required, schema) ==
    [location |-> location, required |-> required, schema |-> schema]

Bool == Schema("boolean", <<>>, <<>>)
Enum == Schema("string", <<>>, <<3, 5, 7, 8, 9>>)
Lengths == Schema("string", [minLength |-> 0, maxLength |-> 2], <<>>)

mcOperationsToCover ==
    {[fields |-> <<Field(l, r, s), Field("query", FALSE, Bool)>>, error |-> e] :
        l \in {"body", "query", "path"}, r, e \in BOOLEAN, s \in Schemas}
    \cup {[fields |-> <<Field("body", TRUE, s), Field("body", r, t), Field("header", FALSE, u)>>,
          error |-> TRUE] : s, t, u \in Schemas, r \in BOOLEAN}
    \cup {[fields |-> <<Field("body", TRUE, Bool), Field("body", r, Bool),
                       Field("query", TRUE, s), Field("query", r, Lengths)>>,
          error |-> TRUE] : s \in {Bool, Enum}, r \in BOOLEAN}
mcLimits == {3, 6, 12, 25}

-----------------------------------------------------------------------------
Init ==
    /\ focus \in {"revisions", "evidence", "cases"}
    /\ DesignInit
    /\ CaseInit
    /\ EvidenceInit
    /\ focus # "evidence" => workspace = Eligibility(StatusPath, <<>>, NoScenarios, "normal")

Next ==
    /\ UNCHANGED focus
    /\ \/ focus = "revisions" /\ DesignNext /\ UNCHANGED <<evidenceVars, caseVars>>
       \/ focus = "evidence" /\ EvidenceNext /\ UNCHANGED <<revisions, caseVars>>
       \/ focus = "cases" /\ CaseNext /\ UNCHANGED <<revisions, evidenceVars>>

Spec == Init /\ [][Next]_<<focus, revisions, evidenceVars, caseVars>>
=============================================================================
