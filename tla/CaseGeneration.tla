--------------------------- MODULE CaseGeneration ---------------------------
(***************************************************************************)
(* The requests generated for one operation of a contract: its base        *)
(* request, one edge case per constraint, and rows of values that cover    *)
(* the pairs of all factors.  A value is <<kind, n>>: an integer n, a text *)
(* or a list of length n.  Formats, unions, nullable types, const, numbers *)
(* with fractions and nested schemas are left out.                         *)
(***************************************************************************)
EXTENDS Orders, Integers, Sequences, SequencesExt, FiniteSets

CONSTANTS
    OperationsToCover,  \* operations: [fields, error]
    Limits,             \* max_pairwise_cases_per_operation
    MaxFactors,         \* MAX_FACTORS (12)
    MaxValues           \* MAX_VALUES_PER_FACTOR (4)

VARIABLES
    operation,  \* the operation: its fields [location, required, schema], body first,
                \* and whether it documents an error
    limit,      \* the limit of its pairwise cases
    rows,       \* the rows so far: the index of each factor's value
    width,      \* how many factors the rows have
    uncovered,  \* the required pairs no row has
    phase       \* "grow", "add" or "done"

caseVars == <<operation, limit, rows, width, uncovered, phase>>

-----------------------------------------------------------------------------
(* Schemas: [type, limits, enum, unique]; enum holds the lengths of the    *)
(* allowed texts, limits the constraints that are present.                 *)

Sizes == {"minLength", "maxLength", "minItems", "maxItems"}

IsSchema(schema) ==
    /\ schema.type \in {"integer", "string", "array", "boolean"}
    /\ schema.enum \in Seq(Nat)
    /\ \A constraint \in DOMAIN schema.limits :
        schema.limits[constraint] \in IF constraint \in Sizes THEN Nat ELSE Int

ASSUME LimitAssumption == Limits \subseteq Nat \ {0} /\ {MaxFactors, MaxValues} \subseteq Nat

ASSUME OperationAssumption ==
    \A op \in OperationsToCover :
        /\ op.fields \in Seq(ToSet(op.fields))
        /\ \A field \in ToSet(op.fields) : IsSchema(field.schema)

Has(schema, constraint) == constraint \in DOMAIN schema.limits

LimitOf(schema, constraint, default) ==
    IF Has(schema, constraint) THEN schema.limits[constraint] ELSE default

Larger(m, n) == IF m < n THEN n ELSE m

Absent == <<"absent", 0>>
SyntheticLength == 9    \* bound: the length of a synthetic text
InvalidText == <<"invalid", 27>>

Text(n) == <<"x", n>>
SyntheticText(n) == IF n = 0 THEN Text(0) ELSE <<"synthetic", n>>

\* Lists of equal items and of distinct ones; up to one item they are the same.
Repeated(n) == <<"list", n>>
Distinct(n) == IF n <= 1 THEN Repeated(n) ELSE <<"items", n>>

\* What the schema says of a value.
Allows(schema, v) ==
    CASE schema.type = "integer" ->
            /\ v[1] = "int"
            /\ Has(schema, "minimum") => v[2] >= schema.limits["minimum"]
            /\ Has(schema, "maximum") => v[2] <= schema.limits["maximum"]
            /\ Has(schema, "exclusiveMinimum") => v[2] > schema.limits["exclusiveMinimum"]
            /\ Has(schema, "exclusiveMaximum") => v[2] < schema.limits["exclusiveMaximum"]
      [] schema.type = "string" ->
            /\ v[1] \in {"x", "synthetic", "invalid", "enum"}
            /\ schema.enum # <<>> => v[1] = "enum"
            /\ LimitOf(schema, "minLength", 0) <= v[2]
            /\ Has(schema, "maxLength") => v[2] <= schema.limits["maxLength"]
      [] schema.type = "array" ->
            /\ v[1] \in {"list", "items"}
            /\ LimitOf(schema, "minItems", 0) <= v[2]
            /\ Has(schema, "maxItems") => v[2] <= schema.limits["maxItems"]
            /\ schema.unique /\ v[2] > 1 => v[1] = "items"
      [] OTHER -> v[1] = "bool"

\* synthetic_value(): exclusive bounds are not looked at.
Synthetic(schema) ==
    CASE schema.type = "integer" ->
            <<"int", Smaller(LimitOf(schema, "minimum", 1),
                             LimitOf(schema, "maximum", LimitOf(schema, "minimum", 1)))>>
      [] schema.type = "string" ->
            IF schema.enum # <<>> THEN <<"enum", schema.enum[1]>>
            ELSE SyntheticText(LET n == Larger(SyntheticLength, LimitOf(schema, "minLength", 0))
                               IN  Smaller(n, LimitOf(schema, "maxLength", n)))
      [] schema.type = "array" ->
            LET least == LimitOf(schema, "minItems", 1)
                most == Larger(least, LimitOf(schema, "maxItems", Larger(1, least)))
            IN  Distinct(Larger(least, Smaller(most, 3)))
      [] OTHER -> <<"bool", 1>>

\* build_contract_case(): the request that gives every field its synthetic value.
Base(op) == [i \in DOMAIN op.fields |-> Synthetic(op.fields[i].schema)]

-----------------------------------------------------------------------------
(* Edge cases.                                                             *)

Edge(polarity, constraint, value) ==
    [polarity |-> polarity, constraint |-> constraint, value |-> value]

\* The case at a bound and the one just past it, when the schema has the constraint.
AtBound(schema, constraint, valid, invalid) ==
    IF Has(schema, constraint)
    THEN {Edge("boundary", constraint, valid), Edge("negative", constraint, invalid)}
    ELSE {}

\* A size is only undercut when it is positive.
AtLeast(schema, constraint, kind) ==
    {e \in AtBound(schema, constraint, <<kind, LimitOf(schema, constraint, 0)>>,
                   <<kind, LimitOf(schema, constraint, 0) - 1>>) : e.value[2] >= 0}

\* Mutant: the invalid case is the bound itself.
AtMostItself(schema, constraint, kind) ==
    AtBound(schema, constraint, <<kind, LimitOf(schema, constraint, 0)>>,
            <<kind, LimitOf(schema, constraint, 0)>>)

AtMost(schema, constraint, kind) ==
    AtBound(schema, constraint, <<kind, LimitOf(schema, constraint, 0)>>,
            <<kind, LimitOf(schema, constraint, 0) + 1>>)

Number(schema, constraint, offset) == <<"int", LimitOf(schema, constraint, 0) + offset>>

NumberEdges(schema) ==
    AtBound(schema, "minimum", Number(schema, "minimum", 0), Number(schema, "minimum", -1))
    \cup AtBound(schema, "maximum", Number(schema, "maximum", 0), Number(schema, "maximum", 1))
    \cup AtBound(schema, "exclusiveMinimum", Number(schema, "exclusiveMinimum", 1),
                 Number(schema, "exclusiveMinimum", 0))
    \cup AtBound(schema, "exclusiveMaximum", Number(schema, "exclusiveMaximum", -1),
                 Number(schema, "exclusiveMaximum", 0))

\* The first and the last of the allowed texts, and another one.
EnumEdges(schema) ==
    IF schema.enum = <<>> THEN {}
    ELSE {Edge("boundary", "enum", <<"enum", schema.enum[k]>>) : k \in {1, Len(schema.enum)}}
         \cup {Edge("negative", "enum", InvalidText)}

\* A value of another type.
TypeEdge(schema) ==
    Edge("negative", "type", IF schema.type = "integer" THEN InvalidText ELSE <<"int", 42>>)

\* _schema_values(), which names them in an order that nothing here depends on.
SchemaEdges(schema) ==
    {TypeEdge(schema)}
    \cup CASE schema.type = "integer" -> NumberEdges(schema)
           [] schema.type = "string" ->
                EnumEdges(schema) \cup AtLeast(schema, "minLength", "x")
                                  \cup AtMost(schema, "maxLength", "x")
           [] schema.type = "array" ->
                AtLeast(schema, "minItems", "list") \cup AtMost(schema, "maxItems", "list")
           [] OTHER -> {}

\* A required field is left out, unless it is part of the path; a text parameter has no
\* value of a wrong type.
FieldEdges(field) ==
    {e \in SchemaEdges(field.schema) :
        ~ (e.constraint = "type" /\ field.schema.type = "string" /\ field.location # "body")}
    \cup (IF field.required /\ field.location # "path"
          THEN {Edge("negative", "required", Absent)} ELSE {})

\* The request of an edge case: a cookie is never changed.
EdgeRequest(op, i, e) ==
    IF op.fields[i].location = "cookie" THEN Base(op) ELSE [Base(op) EXCEPT ![i] = e.value]

\* The edge cases of an operation: the field, the edge and the request.  Without a
\* documented error there are no negative ones.
EdgeRequests(op) ==
    UNION {{[field |-> i, edge |-> e, request |-> EdgeRequest(op, i, e)] :
            e \in {x \in FieldEdges(op.fields[i]) : op.error \/ x.polarity = "boundary"}} :
           i \in DOMAIN op.fields}

-----------------------------------------------------------------------------
(* Pairwise cases.                                                         *)

\* The least, a middle and the greatest.
Spread(least, most) == <<least, Smaller(most, Larger(least, (least + most) \div 2)), most>>

\* _representative_values(): three sizes, each allowed value, or both.
Representatives(schema) ==
    LET low == IF Has(schema, "exclusiveMinimum") THEN schema.limits["exclusiveMinimum"] + 1
               ELSE LimitOf(schema, "minimum", 0)
        high == IF Has(schema, "exclusiveMaximum") THEN schema.limits["exclusiveMaximum"] - 1
                ELSE LimitOf(schema, "maximum", LimitOf(schema, "minimum", 0) + 10)
        Items(n) == IF schema.unique THEN Distinct(n) ELSE Repeated(n)
    IN  CASE schema.type = "integer" -> [k \in 1..3 |-> <<"int", Spread(low, high)[k]>>]
          [] schema.type = "string" ->
                IF schema.enum # <<>>
                THEN [k \in DOMAIN schema.enum |-> <<"enum", schema.enum[k]>>]
                ELSE LET least == LimitOf(schema, "minLength", 1)
                         most == LimitOf(schema, "maxLength", Larger(least, 8))
                     IN  [k \in 1..3 |-> Text(Spread(least, most)[k])]
          [] schema.type = "array" ->
                LET least == LimitOf(schema, "minItems", 0)
                    most == LimitOf(schema, "maxItems", Larger(least, 3))
                IN  [k \in 1..3 |-> Items(Spread(least, most)[k])]
          [] OTHER -> <<<<"bool", 1>>, <<"bool", 0>>>>

\* _factor(): the representatives the schema allows, absence, each once.
FactorValues(field) ==
    LET listed == Representatives(field.schema)
        all == IF ~ field.required /\ field.location # "path"
               THEN Append(listed, Absent) ELSE listed
        valid == {k \in DOMAIN all : k > Len(listed) \/ Allows(field.schema, all[k])}
        chosen == InOrder({k \in valid : \A j \in valid : j < k => all[j] # all[k]}, MaxValues)
    IN  [n \in DOMAIN chosen |-> all[chosen[n]]]

\* extract_pairwise_factors(): the fields with two values or more.
Factors(op) ==
    InOrder({i \in DOMAIN op.fields : Len(FactorValues(op.fields[i])) >= 2}, MaxFactors)

ValuesOf(i) == DOMAIN FactorValues(operation.fields[Factors(operation)[i]])

\* A pair is <<left factor, its value, right factor, its value>>.
RequiredPairsOf(n) ==
    UNION {{<<p[1], a, p[2], b>> : a \in ValuesOf(p[1]), b \in ValuesOf(p[2])} :
           p \in {q \in (1..n) \X (1..n) : q[1] < q[2]}}

RowPairs(row) ==
    {<<p[1], row[p[1]], p[2], row[p[2]]>> :
        p \in {q \in (DOMAIN row) \X (DOMAIN row) : q[1] < q[2]}}

Covered(seq) == UNION {RowPairs(row) : row \in ToSet(seq)}

\* The first rows: the values of two factors, as many as the limit allows.
ChooseOperation ==
    /\ phase = "choose"
    /\ operation' \in OperationsToCover
    /\ limit' \in Limits
    /\ LET n == Len(Factors(operation')) IN
       IF n < 2 THEN phase' = "done" /\ rows' = <<>> /\ width' = 0
       ELSE LET right == Len(FactorValues(operation'.fields[Factors(operation')[2]]))
                left == Len(FactorValues(operation'.fields[Factors(operation')[1]]))
            IN  /\ phase' = "grow" /\ width' = 2
                /\ rows' = [k \in 1..Smaller(left * right, limit') |->
                                <<((k - 1) \div right) + 1, ((k - 1) % right) + 1>>]
    /\ uncovered' = {}

\* The rows are to have a value of one more factor.
NextFactor ==
    /\ phase = "grow" /\ width < Len(Factors(operation))
    /\ width' = width + 1
    /\ uncovered' = RequiredPairsOf(Len(Factors(operation))) \ Covered(rows)
    /\ phase' = "add"
    /\ UNCHANGED <<operation, limit, rows>>

\* The rows that have none yet.
Short == {k \in DOMAIN rows : Len(rows[k]) < width}

\* The first of them takes the value that covers most of the pairs left, the least if
\* several do.
GrowRow ==
    /\ phase = "add"
    /\ \E k \in Short :
        LET gain(v) == Cardinality(RowPairs(Append(rows[k], v)) \cap uncovered)
            best == CHOOSE v \in ValuesOf(width) : \A u \in ValuesOf(width) :
                        gain(u) < gain(v) \/ (gain(u) = gain(v) /\ v <= u)
        IN  /\ \A j \in Short : k <= j
            /\ rows' = [rows EXCEPT ![k] = Append(@, best)]
            /\ uncovered' = uncovered \ RowPairs(Append(rows[k], best))
    /\ UNCHANGED <<operation, limit, width, phase>>

\* The pairs of the newest factor that are left.
Relevant == {p \in uncovered : p[3] = width}

\* Mutant: the new row only has the right value of the pair.
AddRowHalf ==
    /\ phase = "add" /\ Short = {} /\ Relevant # {} /\ Len(rows) < limit
    /\ LET pair == CHOOSE p \in Relevant : TRUE
           row == [i \in 1..width |-> IF i = pair[3] THEN pair[4] ELSE 1]
       IN  /\ rows' = Append(rows, row)
           /\ uncovered' = uncovered \ (RowPairs(row) \cup {pair})
    /\ UNCHANGED <<operation, limit, width, phase>>

\* A new row for one of them: its two values, and the first value elsewhere.  The code
\* takes the pairs in the order of their texts.
AddRow ==
    /\ phase = "add" /\ Short = {} /\ Relevant # {} /\ Len(rows) < limit
    /\ LET pair == CHOOSE p \in Relevant : TRUE
           row == [i \in 1..width |->
                    IF i = pair[1] THEN pair[2] ELSE IF i = pair[3] THEN pair[4] ELSE 1]
       IN  /\ rows' = Append(rows, row)
           /\ uncovered' = uncovered \ RowPairs(row)
    /\ UNCHANGED <<operation, limit, width, phase>>

\* None is left, or the limit leaves the rest out.
EndFactor ==
    /\ phase = "add" /\ Short = {}
    /\ Relevant = {} \/ Len(rows) >= limit
    /\ phase' = "grow"
    /\ UNCHANGED <<operation, limit, rows, width, uncovered>>

Finish ==
    /\ phase = "grow" /\ width = Len(Factors(operation))
    /\ rows' = SubSeq(rows, 1, Smaller(Len(rows), limit))
    /\ phase' = "done"
    /\ UNCHANGED <<operation, limit, width, uncovered>>

\* _apply_row(): the base request with the values of the row; cookies keep theirs.
RowRequest(row) ==
    LET factors == Factors(operation) IN
    [i \in DOMAIN operation.fields |->
        IF operation.fields[i].location # "cookie" /\ i \in ToSet(factors)
        THEN FactorValues(operation.fields[i])[row[CHOOSE k \in DOMAIN factors :
                                                    factors[k] = i]]
        ELSE Base(operation)[i]]

CaseInit ==
    /\ phase = "choose"
    /\ operation = [fields |-> <<>>, error |-> FALSE]
    /\ limit = 1 /\ rows = <<>> /\ width = 0 /\ uncovered = {}

CaseNext == ChooseOperation \/ NextFactor \/ GrowRow \/ AddRow \/ EndFactor \/ Finish

CaseSpec == CaseInit /\ [][CaseNext]_caseVars

-----------------------------------------------------------------------------
(* Properties.                                                             *)

\* Constraints of one schema that some value meets and that no other one overrules.
Independent(schema) ==
    /\ schema.enum = <<>> \/ DOMAIN schema.limits = {}
    /\ ~ (Has(schema, "minimum") /\ Has(schema, "exclusiveMinimum"))
    /\ ~ (Has(schema, "maximum") /\ Has(schema, "exclusiveMaximum"))
    /\ ~ schema.unique
    /\ Allows(schema, Representatives(schema)[1])

\* A generated edge case is what it claims to be: the value at a bound is allowed by the
\* whole schema, the one past it is not, and neither changes another field - for
\* schemas whose constraints are independent, and fields that are not cookies.
EdgesKeepPolarity ==
    \A e \in EdgeRequests(operation) :
        LET field == operation.fields[e.field] IN
        field.location # "cookie" /\ Independent(field.schema) =>
            /\ e.edge.polarity = "boundary" => Allows(field.schema, e.request[e.field])
            /\ e.edge.polarity = "negative" =>
                IF e.request[e.field] = Absent THEN field.required
                ELSE ~ Allows(field.schema, e.request[e.field])
            /\ \A i \in DOMAIN e.request : i # e.field => e.request[i] = Base(operation)[i]

\* Rows that stay below the limit cover each pair of values of each two factors, no row
\* comes twice, and each request has the values its row claims to try, all allowed.
CoveringIsComplete ==
    phase = "done" /\ width >= 2 =>
        /\ Len(rows) <= limit
        /\ Cardinality(ToSet(rows)) = Len(rows)
        /\ Len(rows) < limit => RequiredPairsOf(width) \subseteq Covered(rows)
        /\ \A row \in ToSet(rows) : \A i \in DOMAIN operation.fields :
            LET field == operation.fields[i] IN
            i \in ToSet(Factors(operation)) /\ field.location # "cookie" =>
                \/ RowRequest(row)[i] = Absent /\ ~ field.required
                \/ Allows(field.schema, RowRequest(row)[i])

\* "Execute one invalid mutation at a time" (docs/api.md:259): the request of a negative
\* case is never the valid one the contract is exercised with.
NegativesAreMutations ==
    \A e \in EdgeRequests(operation) :
        e.edge.polarity = "negative" => e.request # Base(operation)
=============================================================================
